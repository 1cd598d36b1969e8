-------------------------- MODULE PaperTradingProofs --------------------------
(***************************************************************************)
(* Theorems about PaperTrading, for every value of its constants.          *)
(*                                                                         *)
(* Each invariant rests on those before it: the types, cash that is never  *)
(* negative, an engine within its tracker, which is what makes a close     *)
(* leave nothing behind, the book as a sum, and then that every order of a *)
(* plan with room is filled in full, from which the account follows.       *)
(***************************************************************************)
EXTENDS PaperTrading, SumsProofs

------------------------------------------------------------------------------
(* Arithmetic of the engine.                                               *)

(* Division rounds down.                                                   *)
LEMMA DivDown ==
  ASSUME NEW a \in Nat, NEW b \in Nat \ {0}
  PROVE  a \div b \in Nat /\ b * (a \div b) <= a
  OBVIOUS

(* A fee is at most the cost it is taken from.                             *)
LEMMA FeeBounds ==
  ASSUME NEW cost \in Nat
  PROVE  Fee(cost) \in Nat /\ Fee(cost) <= cost
<1>1. FeeDiv \in Nat \ {0}
  BY PaperAssumption
<1>2. Fee(cost) \in Nat /\ FeeDiv * Fee(cost) <= cost
  BY <1>1, DivDown DEF Fee
<1>3. Fee(cost) <= FeeDiv * Fee(cost)
  BY <1>1, <1>2
<1>. QED
  BY <1>1, <1>2, <1>3

(* The quantity an order is cut to can be paid, fee included.              *)
LEMMA MaxQtyIsPayable ==
  ASSUME NEW money \in Nat, NEW price \in Nat \ {0}
  PROVE  /\ MaxQty(money, price) \in Nat
         /\ MaxQty(money, price) * price + Fee(MaxQty(money, price) * price) <= money
<1>. DEFINE n == MaxQty(money, price)
            c == n * price
            d == FeeDiv + 1
<1>1. FeeDiv \in Nat \ {0}
  BY PaperAssumption
<1>2. d \in Nat \ {0} /\ price * d \in Nat \ {0}
  BY <1>1
<1>3. n \in Nat /\ (price * d) * n <= money * FeeDiv
  <2>1. money * FeeDiv \in Nat
    BY <1>1
  <2>2. n = (money * FeeDiv) \div (price * d)
    BY DEF MaxQty
  <2>. HIDE DEF n, d
  <2>. QED
    BY <1>2, <2>1, <2>2, DivDown
<1>4. c \in Nat
  BY <1>3
<1>5. c * FeeDiv + c <= money * FeeDiv
  BY <1>1, <1>3, <1>4
<1>6. Fee(c) \in Nat /\ FeeDiv * Fee(c) <= c
  BY <1>1, <1>4, DivDown DEF Fee
<1>7. FeeDiv * (c + Fee(c)) <= FeeDiv * money
  BY <1>1, <1>4, <1>5, <1>6
<1>8. c + Fee(c) <= money
  BY <1>1, <1>4, <1>6, <1>7
<1>. QED
  BY <1>3, <1>8

(* What a BUY fills is a quantity, not above the order, that cash pays.    *)
LEMMA FilledIsPayable ==
  ASSUME cash \in Nat, NEW q \in Nat, NEW p \in Nat \ {0}
  PROVE  /\ Filled(q, p) \in Nat
         /\ Filled(q, p) <= q
         /\ Filled(q, p) * p + Fee(Filled(q, p) * p) <= cash
<1>1. q * p \in Nat /\ Fee(q * p) \in Nat
  BY FeeBounds
<1>2. CASE q * p + Fee(q * p) <= cash
  BY <1>1, <1>2 DEF Filled
<1>3. CASE q * p + Fee(q * p) > cash
  <2>. DEFINE n == MaxQty(cash, p)
  <2>1. n \in Nat /\ n * p + Fee(n * p) <= cash
    BY MaxQtyIsPayable
  <2>2. Filled(q, p) = n
    BY <1>1, <1>3 DEF Filled
  <2>3. n <= q
    <3>1. SUFFICES ASSUME n > q PROVE FALSE
      BY <2>1
    <3>2. n * p \in Nat /\ n * p >= q * p + p
      BY <2>1, <3>1
    <3>3. Fee(n * p) >= Fee(q * p)
      BY <1>1, <3>2, PaperAssumption DEF Fee
    <3>. QED
      BY <1>1, <1>3, <2>1, <3>2, <3>3, FeeBounds
  <2>. QED
    BY <2>1, <2>2, <2>3
<1>. QED
  BY <1>1, <1>2, <1>3

------------------------------------------------------------------------------
(* Type correctness.                                                       *)

(* update_balance keeps the shape of the risk manager's state.             *)
LEMMA UpdateBalanceType ==
  ASSUME NEW r \in RiskState, NEW balance \in Int
  PROVE  /\ UpdateBalance(r, balance) \in RiskState
         /\ UpdateBalance(r, balance).level = r.level
<1>. DEFINE start == IF r.newDay \/ r.dayStart = NoBalance THEN balance
                                                           ELSE r.dayStart
            peak  == Higher(r.peak, balance)
            trip  == balance * 100 <= peak * (100 - BreakerPct)
<1>1. r.dayStart \in Int /\ r.peak \in Int
  BY DEF RiskState
<1>2. start \in Int
  BY <1>1
<1>3. peak \in Int
  BY <1>1 DEF Higher
<1>4. trip \in BOOLEAN
  OBVIOUS
<1>5. UpdateBalance(r, balance) =
        [r EXCEPT !.newDay = FALSE, !.last = balance, !.dayStart = start,
                  !.peak = peak, !.breaker = trip]
  BY DEF UpdateBalance
<1>. HIDE DEF start, peak, trip
<1>. QED
  BY <1>2, <1>3, <1>4, <1>5 DEF RiskState

(* The equity is an integer, at entry prices and with one symbol requoted. *)
LEMMA EquityType ==
  ASSUME TypeOK
  PROVE  /\ EquityAtEntry \in Int
         /\ \A s \in Symbols, p \in Prices : EquityAt(s, p) \in Int
  BY PaperAssumption DEF TypeOK, EquityAtEntry, EquityAt

(* Assessing a signal keeps the types, and a size is an integer.           *)
LEMMA AssessedType ==
  ASSUME TypeOK, NEW s \in Symbols, NEW p \in Prices
  PROVE  /\ Assessed(s, p) \in RiskState
         /\ BuySize(s, p) \in Int
<1>1. EquityAt(s, p) \in Int /\ p \in Nat \ {0}
  BY EquityType, PaperAssumption
<1>2. Assessed(s, p) \in RiskState
  BY <1>1, UpdateBalanceType DEF Assessed, TypeOK
<1>3. BuySize(s, p) \in Int
  <2>. DEFINE a == (EquityAt(s, p) * SizePct) \div 100
              b == Lower(MaxPosition, a) * SizeHalves(Assessed(s, p).level)
  <2>1. a \in Int
    BY <1>1, RiskAssumption
  <2>2. Lower(MaxPosition, a) \in Int
    BY <2>1, RiskAssumption DEF Lower
  <2>3. b \in Int
    BY <2>2 DEF SizeHalves
  <2>4. b \div 2 \in Int
    BY <2>3
  <2>5. (b \div 2) \div p \in Int
    BY <2>4, <1>1
  <2>. QED
    BY <2>5 DEF BuySize, PositionSize
<1>. QED
  BY <1>2, <1>3

(* What Close leaves behind has the types of the state.                    *)
LEMMA CloseType ==
  ASSUME TypeOK, NEW t \in Tasks, NEW s \in Symbols, NEW p \in Nat,
         NEW todo \in SUBSET (Symbols \X Nat), Close(t, s, p, todo)
  PROVE  /\ cash' \in Int
         /\ held' \in [Symbols -> [qty : Nat, price : Nat]]
         /\ fees' \in Int
         /\ tracked' \in [Symbols -> [qty : Nat, entry : Nat, pnl : Int]]
         /\ realized' \in Int
         /\ book' \in Int
         /\ task' \in [Tasks -> TaskState]
<1>. DEFINE q == tracked[s].qty
            gain == (p - tracked[s].entry) * q
<1>1. q \in Nat /\ gain \in Int /\ q * p \in Nat
  BY DEF TypeOK
<1>2. Fee(q * p) \in Nat
  BY <1>1, FeeBounds
<1>3. cash' \in Int /\ fees' \in Int /\ book' \in Int
  BY <1>1, <1>2 DEF Close, EngineSell, TypeOK
<1>4. held' \in [Symbols -> [qty : Nat, price : Nat]]
  BY DEF Close, EngineSell, TypeOK, NoHolding
<1>5. tracked' \in [Symbols -> [qty : Nat, entry : Nat, pnl : Int]]
  BY DEF Close, TypeOK, NoPosition
<1>6. realized' \in Int
  BY <1>1 DEF Close, TypeOK
<1>7. task' \in [Tasks -> TaskState]
  BY <1>1 DEF Close, TypeOK, Tasks, TaskState
<1>. QED
  BY <1>3, <1>4, <1>5, <1>6, <1>7

(* So has what a BUY leaves behind.                                        *)
LEMMA EngineBuyType ==
  ASSUME TypeOK, NEW s \in Symbols, NEW q \in Nat, NEW p \in Prices,
         EngineBuy(s, q, p)
  PROVE  /\ cash' \in Int
         /\ held' \in [Symbols -> [qty : Nat, price : Nat]]
         /\ fees' \in Int
         /\ book' \in Int
<1>. DEFINE n == Filled(q, p)
<1>1. p \in Nat \ {0} /\ FeeDiv \in Nat \ {0} /\ cash \in Int
  BY PaperAssumption DEF TypeOK
<1>2. n \in Int
  <2>1. cash * FeeDiv \in Int /\ p * (FeeDiv + 1) \in Nat \ {0}
    BY <1>1
  <2>2. MaxQty(cash, p) \in Int
    BY <2>1 DEF MaxQty
  <2>. QED
    BY <2>2 DEF Filled
<1>. HIDE DEF n
<1>3. CASE n <= 0
  BY <1>2, <1>3 DEF EngineBuy, TypeOK, engineVars, n
<1>4. CASE n > 0
  <2>1. n \in Nat /\ n * p \in Nat
    BY <1>1, <1>2, <1>4
  <2>2. Fee(n * p) \in Nat
    BY <2>1, FeeBounds
  <2>3. /\ cash' = cash - (n * p + Fee(n * p))
        /\ fees' = fees + Fee(n * p)
        /\ held' = [held EXCEPT ![s] = [qty |-> n, price |-> p]]
        /\ book' = book + n * p
    BY <1>2, <1>4 DEF EngineBuy, n
  <2>4. held' \in [Symbols -> [qty : Nat, price : Nat]]
    BY <1>1, <2>1, <2>3 DEF TypeOK
  <2>. QED
    BY <2>1, <2>2, <2>3, <2>4 DEF TypeOK
<1>. QED
  BY <1>2, <1>3, <1>4

(* One row more keeps the counts of the rows integers.                     *)
LEMMA WriteRowType ==
  ASSUME TypeOK, NEW pnl \in Int, WriteRow(pnl)
  PROVE  saved' \in Rows /\ unsaved' \in Rows
  BY DEF WriteRow, TypeOK, Rows

(* A task whose row is written has nothing left to book.                   *)
LEMMA TaskStateSaved ==
  ASSUME NEW r \in TaskState,
         NEW at \in {"rest", "bought", "sold", "saving", "closing"}
  PROVE  [r EXCEPT !.at = at, !.pnl = 0] \in TaskState
<1>. DEFINE moved == [r EXCEPT !.at = at]
<1>1. moved \in TaskState
  BY DEF TaskState
<1>2. [r EXCEPT !.at = at, !.pnl = 0] = [moved EXCEPT !.pnl = 0]
  OBVIOUS
<1>. HIDE DEF moved
<1>. QED
  BY <1>1, <1>2 DEF TaskState

(* The lists of the monitor name symbols and prices.                       *)
LEMMA ListTypes ==
  ASSUME TypeOK
  PROVE  /\ ToClose \in SUBSET (Symbols \X Nat)
         /\ task["monitor"].todo \in SUBSET (Symbols \X Nat)
         /\ \A s \in Symbols, p \in Nat : Repriced(s, p) \in SUBSET (Symbols \X Nat)
<1>1. ToClose \in SUBSET (Symbols \X Nat)
  BY DEF ToClose, Open, TypeOK
<1>2. task["monitor"].todo \in SUBSET (Symbols \X Nat)
  BY DEF TypeOK, Tasks, TaskState
<1>. QED
  BY <1>1, <1>2 DEF Repriced

(* A pass of the monitor, started or resumed, keeps the types.             *)
LEMMA ProceedType ==
  ASSUME TypeOK, NEW todo \in SUBSET (Symbols \X Nat), Proceed(todo)
  PROVE  TypeOK'
<1>1. CASE CloseNext(todo)
  <2>1. PICK o \in StillOpen(todo) :
          Close("monitor", o[1], o[2], todo \ {o}) /\ UNCHANGED risk
    BY <1>1 DEF CloseNext
  <2>2. o[1] \in Symbols /\ o[2] \in Nat /\ todo \ {o} \in SUBSET (Symbols \X Nat)
    BY <2>1 DEF StillOpen
  <2>3. "monitor" \in Tasks
    BY DEF Tasks
  <2>. QED
    BY <2>1, <2>2, <2>3, CloseType DEF Proceed, TypeOK, dbVars
<1>2. CASE EndPass
  <2>1. UpdateBalance(risk, EquityAtEntry) \in RiskState
    BY EquityType, UpdateBalanceType DEF TypeOK
  <2>2. risk' \in RiskState
    BY <1>2, <2>1 DEF EndPass, TypeOK
  <2>3. task' \in [Tasks -> TaskState]
    <3>1. AtRest \in TaskState
      BY DEF AtRest, TaskState
    <3>. QED
      BY <1>2, <3>1 DEF EndPass, TypeOK
  <2>. QED
    BY <1>2, <2>2, <2>3
    DEF EndPass, Proceed, TypeOK, engineVars, trackerVars, dbVars
<1>. QED
  BY <1>1, <1>2 DEF Proceed

(* The types of TypeOK hold in every reachable state.                      *)
THEOREM TypeCorrect == Spec => []TypeOK
<1>1. Init => TypeOK
  BY RiskAssumption, PaperAssumption
  DEF Init, TypeOK, NoHolding, NoPosition, FreshRisk, RiskState, Levels,
      NoBalance, Tasks, TaskState, AtRest, Rows, NoRows
<1>2. TypeOK /\ [Next]_vars => TypeOK'
  <2>. SUFFICES ASSUME TypeOK, [Next]_vars PROVE TypeOK'
    OBVIOUS
  <2>. USE DEF engineVars, trackerVars, dbVars
  <2>1. ASSUME NEW s \in Symbols, NEW p \in Prices, SignalBuy(s, p) PROVE TypeOK'
    <3>. DEFINE q == BuySize(s, p)
    <3>1. q \in Nat /\ p \in Nat
      BY <2>1, AssessedType, PaperAssumption DEF SignalBuy, Opens
    <3>2. /\ EngineBuy(s, q, p)
          /\ tracked' = [tracked EXCEPT ![s] =
                            [qty |-> q,
                             entry |-> IF Filled(q, p) > 0 THEN p ELSE 0,
                             pnl |-> 0]]
      BY <2>1 DEF SignalBuy
    <3>3. risk' \in RiskState
      BY <2>1, AssessedType DEF SignalBuy
    <3>. HIDE DEF q
    <3>4. tracked' \in [Symbols -> [qty : Nat, entry : Nat, pnl : Int]]
      BY <3>1, <3>2 DEF TypeOK
    <3>5. task' \in [Tasks -> TaskState]
      BY <2>1 DEF SignalBuy, TypeOK, TaskState
    <3>6. opens' \in 0..MaxOpens /\ cooling' \subseteq Symbols
      BY <2>1, PaperAssumption DEF SignalBuy, TypeOK
    <3>7. UNCHANGED <<realized, saved, unsaved>>
      BY <2>1 DEF SignalBuy
    <3>. QED
      BY <3>1, <3>2, <3>3, <3>4, <3>5, <3>6, <3>7, EngineBuyType DEF TypeOK
  <2>2. ASSUME NEW s \in Symbols, NEW p \in Prices,
               SignalBuyRefused(s, p) \/ SignalSellRefused(s, p)
        PROVE  TypeOK'
    BY <2>2, AssessedType DEF SignalBuyRefused, SignalSellRefused, TypeOK
  <2>3. ASSUME NEW s \in Symbols, NEW p \in Prices, SignalSell(s, p) PROVE TypeOK'
    <3>1. p \in Nat /\ "signal" \in Tasks /\ "monitor" \in Tasks
      BY PaperAssumption DEF Tasks
    <3>2. Repriced(s, p) \in SUBSET (Symbols \X Nat)
      BY <3>1, ListTypes
    <3>3. risk' \in RiskState
      BY <2>3, AssessedType DEF SignalSell
    <3>. QED
      BY <2>3, <3>1, <3>2, <3>3, CloseType DEF SignalSell, TypeOK
  <2>4. ASSUME SaveBuy PROVE TypeOK'
    <3>1. task' \in [Tasks -> TaskState]
      BY <2>4 DEF SaveBuy, TypeOK, TaskState
    <3>. QED
      BY <2>4, <3>1, WriteRowType DEF SaveBuy, TypeOK
  <2>5. ASSUME NEW t \in Tasks, Settle(t) PROVE TypeOK'
    <3>1. risk' \in RiskState
      BY <2>5, EquityType, UpdateBalanceType DEF Settle, TypeOK
    <3>2. task' \in [Tasks -> TaskState]
      BY <2>5 DEF Settle, TypeOK, TaskState
    <3>. QED
      BY <2>5, <3>1, <3>2 DEF Settle, TypeOK
  <2>6. ASSUME NEW t \in Tasks, SaveSell(t) PROVE TypeOK'
    <3>1. task[t].pnl \in Int
      BY DEF TypeOK, TaskState
    <3>2. task' \in [Tasks -> TaskState]
      <4>. DEFINE at == IF t = "signal" THEN "rest" ELSE "closing"
                  next == [task[t] EXCEPT !.at = at, !.pnl = 0]
      <4>1. task' = [task EXCEPT ![t] = next]
        BY <2>6 DEF SaveSell, TypeOK
      <4>2. at \in {"rest", "bought", "sold", "saving", "closing"}
        OBVIOUS
      <4>. HIDE DEF at
      <4>3. next \in TaskState
        BY <4>2, TaskStateSaved DEF TypeOK
      <4>. HIDE DEF next
      <4>. QED
        BY <4>1, <4>3 DEF TypeOK
    <3>. QED
      BY <2>6, <3>1, <3>2, WriteRowType DEF SaveSell, TypeOK
  <2>7. ASSUME MonitorTick PROVE TypeOK'
    BY <2>7, ListTypes, ProceedType DEF MonitorTick
  <2>8. ASSUME MonitorResume PROVE TypeOK'
    BY <2>8, ListTypes, ProceedType DEF MonitorResume
  <2>9. ASSUME NEW level \in Published, MarketStatus(level) PROVE TypeOK'
    BY <2>9 DEF MarketStatus, SetMarketStatus, TypeOK, RiskState
  <2>10. ASSUME NEW s \in Symbols, CooldownOver(s) PROVE TypeOK'
    BY <2>10 DEF CooldownOver, TypeOK
  <2>11. ASSUME NewDay PROVE TypeOK'
    BY <2>11 DEF NewDay, TypeOK, RiskState
  <2>12. ASSUME UNCHANGED vars PROVE TypeOK'
    BY <2>12 DEF vars, TypeOK
  <2>13. "signal" \in Tasks /\ "monitor" \in Tasks
    BY DEF Tasks
  <2>. QED
    BY <2>1, <2>2, <2>3, <2>4, <2>5, <2>6, <2>7, <2>8, <2>9, <2>10, <2>11,
       <2>12, <2>13
    DEF Next, Signal, SignalTail, Monitor, World
<1>. QED
  BY <1>1, <1>2, PTL DEF Spec

------------------------------------------------------------------------------
(* Safety.                                                                 *)

(* The prices a close may use: that of a signal, or an entry price, now or *)
(* when the monitor listed the position.                                   *)
ClosePrices == Prices \cup {tracked[s].entry : s \in Open}
                      \cup {o[2] : o \in task["monitor"].todo}

LEMMA ClosePricesType ==
  ASSUME TypeOK
  PROVE  /\ ClosePrices \subseteq Nat
         /\ ToClose \in SUBSET (Symbols \X ClosePrices)
         /\ task["monitor"].todo \in SUBSET (Symbols \X ClosePrices)
<1>1. \A o \in task["monitor"].todo : o[1] \in Symbols /\ o[2] \in Nat /\ o = <<o[1], o[2]>>
  BY ListTypes
<1>2. \A s \in Open : tracked[s].entry \in Nat
  BY DEF Open, TypeOK
<1>3. ClosePrices \subseteq Nat
  BY <1>1, <1>2, PaperAssumption DEF ClosePrices
<1>4. ToClose \in SUBSET (Symbols \X ClosePrices)
  BY DEF ToClose, ClosePrices, Open
<1>. QED
  BY <1>1, <1>3, <1>4 DEF ClosePrices

(* Every step of the session buys, closes a position, or leaves engine and *)
(* tracker alone.                                                          *)
LEMMA PricedSteps ==
  ASSUME TypeOK, [Next]_vars
  PROVE  \/ \E s \in Symbols, p \in Prices : SignalBuy(s, p)
         \/ \E t \in Tasks, s \in Open, p \in ClosePrices,
               todo \in SUBSET (Symbols \X ClosePrices) : Close(t, s, p, todo)
         \/ /\ UNCHANGED <<engineVars, trackerVars>>
            /\ task'["monitor"].todo \in SUBSET (Symbols \X ClosePrices)
<1>. DEFINE Sold == \E t \in Tasks, s \in Open, p \in ClosePrices,
                       todo \in SUBSET (Symbols \X ClosePrices) : Close(t, s, p, todo)
            ListKept == task'["monitor"].todo \in SUBSET (Symbols \X ClosePrices)
            Quiet == UNCHANGED <<engineVars, trackerVars>> /\ ListKept
<1>. "signal" \in Tasks /\ "monitor" \in Tasks
  BY DEF Tasks
<1>1. ASSUME NEW s \in Symbols, NEW p \in Prices, SignalSell(s, p) PROVE Sold
  <2>1. p \in ClosePrices
    BY DEF ClosePrices
  <2>2. Repriced(s, p) \in SUBSET (Symbols \X ClosePrices)
    BY <2>1, ClosePricesType DEF Repriced
  <2>. QED
    BY <1>1, <2>1, <2>2 DEF SignalSell
<1>2. ASSUME NEW todo \in SUBSET (Symbols \X ClosePrices), Proceed(todo)
      PROVE  Sold \/ Quiet
  <2>1. CASE EndPass
    <3>1. task'["monitor"] = AtRest
      BY <2>1 DEF EndPass, TypeOK
    <3>. QED
      BY <2>1, <3>1 DEF EndPass, AtRest
  <2>2. CASE CloseNext(todo)
    <3>1. PICK o \in StillOpen(todo) : Close("monitor", o[1], o[2], todo \ {o})
      BY <2>2 DEF CloseNext
    <3>2. /\ o[1] \in Open /\ o[2] \in ClosePrices
          /\ todo \ {o} \in SUBSET (Symbols \X ClosePrices)
      BY <3>1 DEF StillOpen
    <3>. QED
      BY <3>1, <3>2
  <2>. QED
    BY <1>2, <2>1, <2>2 DEF Proceed
<1>3. MonitorTick \/ MonitorResume => Sold \/ Quiet
  BY <1>2, ClosePricesType DEF MonitorTick, MonitorResume
<1>4. task'["monitor"].todo = task["monitor"].todo => ListKept
  BY ClosePricesType
<1>. HIDE DEF Sold, ListKept
<1>5. ASSUME NEW t \in Tasks, Settle(t) \/ SaveSell(t) PROVE Quiet
  <2>1. task'["monitor"].todo = task["monitor"].todo
    BY <1>5 DEF Settle, SaveSell, TypeOK, TaskState
  <2>. QED
    BY <1>4, <1>5, <2>1 DEF Settle, SaveSell
<1>6. SaveBuy => Quiet
  BY <1>4 DEF SaveBuy, TypeOK
<1>7. CASE Signal
  <2>1. \A s \in Symbols, p \in Prices :
          SignalBuyRefused(s, p) \/ SignalSellRefused(s, p) => Quiet
    BY <1>4 DEF SignalBuyRefused, SignalSellRefused
  <2>. QED
    BY <1>1, <1>7, <2>1 DEF Signal, Sold, ListKept
<1>8. CASE SignalTail
  BY <1>5, <1>6, <1>8 DEF SignalTail, ListKept
<1>9. CASE Monitor
  BY <1>3, <1>5, <1>9 DEF Monitor, Sold, ListKept
<1>10. CASE World \/ UNCHANGED vars
  <2>1. UNCHANGED <<engineVars, trackerVars, task>>
    BY <1>10 DEF World, MarketStatus, CooldownOver, NewDay, vars, engineVars, trackerVars
  <2>. QED
    BY <1>4, <2>1 DEF ListKept
<1>. QED
  BY <1>7, <1>8, <1>9, <1>10 DEF Next

(* The same without the prices, which most of the proofs do not look at.   *)
LEMMA StepCases ==
  ASSUME TypeOK, [Next]_vars
  PROVE  \/ \E s \in Symbols, p \in Prices : SignalBuy(s, p)
         \/ \E t \in Tasks, s \in Open, p \in Nat, todo \in SUBSET (Symbols \X Nat) :
              Close(t, s, p, todo)
         \/ UNCHANGED <<engineVars, trackerVars>>
<1>1. SUBSET (Symbols \X ClosePrices) \subseteq SUBSET (Symbols \X Nat)
  BY ClosePricesType
<1>. QED
  BY <1>1, PricedSteps, ClosePricesType

(* Cash stays at zero or above: a BUY is cut to what cash pays for, and a  *)
(* SELL never costs more in fees than it credits.                          *)
THEOREM PaperMoneyIsNeverOverdrawn == Spec => []NeverOverdrawn
<1>1. Init => NeverOverdrawn
  BY RiskAssumption DEF Init, NeverOverdrawn
<1>2. TypeOK /\ NeverOverdrawn /\ [Next]_vars => NeverOverdrawn'
  <2>. SUFFICES ASSUME TypeOK, NeverOverdrawn, [Next]_vars PROVE NeverOverdrawn'
    OBVIOUS
  <2>0. cash \in Nat
    BY DEF TypeOK, NeverOverdrawn
  <2>1. ASSUME NEW s \in Symbols, NEW p \in Prices, SignalBuy(s, p)
        PROVE  NeverOverdrawn'
    <3>. DEFINE q == BuySize(s, p)
                n == Filled(q, p)
    <3>1. q \in Nat /\ p \in Nat \ {0} /\ EngineBuy(s, q, p)
      BY <2>1, AssessedType, PaperAssumption DEF SignalBuy, Opens
    <3>. HIDE DEF q
    <3>2. n \in Nat /\ n * p + Fee(n * p) <= cash
      BY <2>0, <3>1, FilledIsPayable
    <3>3. n * p \in Nat /\ Fee(n * p) \in Nat
      BY <3>1, <3>2, FeeBounds
    <3>4. cash' = cash \/ cash' = cash - (n * p + Fee(n * p))
      BY <3>1 DEF EngineBuy, engineVars
    <3>. HIDE DEF n
    <3>. QED
      BY <2>0, <3>2, <3>3, <3>4 DEF NeverOverdrawn
  <2>2. ASSUME NEW t \in Tasks, NEW s \in Open, NEW p \in Nat,
               NEW todo \in SUBSET (Symbols \X Nat), Close(t, s, p, todo)
        PROVE  NeverOverdrawn'
    <3>. DEFINE cost == tracked[s].qty * p
    <3>1. cost \in Nat
      BY DEF Open, TypeOK
    <3>2. cash' = cash + (cost - Fee(cost))
      BY <2>2 DEF Close, EngineSell
    <3>. HIDE DEF cost
    <3>. QED
      BY <2>0, <3>1, <3>2, FeeBounds DEF NeverOverdrawn
  <2>3. ASSUME UNCHANGED <<engineVars, trackerVars>> PROVE NeverOverdrawn'
    BY <2>3 DEF engineVars, NeverOverdrawn
  <2>. QED
    BY <2>1, <2>2, <2>3, StepCases
<1>. QED
  BY <1>1, <1>2, TypeCorrect, PTL DEF Spec

(* The engine holds nothing the tracker does not know of: what it fills is *)
(* at most what the tracker records, and one close empties both.           *)
THEOREM EngineStaysWithinTracker == Spec => []EngineWithinTracker
<1>1. Init => EngineWithinTracker
  BY DEF Init, EngineWithinTracker, Holding, NoHolding, NoPosition
<1>2. TypeOK /\ NeverOverdrawn /\ EngineWithinTracker /\ [Next]_vars
        => EngineWithinTracker'
  <2>. SUFFICES ASSUME TypeOK, NeverOverdrawn, EngineWithinTracker, [Next]_vars
                PROVE  EngineWithinTracker'
    OBVIOUS
  <2>0. cash \in Nat
    BY DEF TypeOK, NeverOverdrawn
  <2>1. ASSUME NEW s \in Symbols, NEW p \in Prices, SignalBuy(s, p)
        PROVE  EngineWithinTracker'
    <3>. DEFINE q == BuySize(s, p)
                n == Filled(q, p)
    <3>1. /\ q \in Nat /\ p \in Nat \ {0} /\ s \notin Open
          /\ EngineBuy(s, q, p)
          /\ tracked' = [tracked EXCEPT ![s] =
                            [qty |-> q, entry |-> IF n > 0 THEN p ELSE 0, pnl |-> 0]]
      BY <2>1, AssessedType, PaperAssumption DEF SignalBuy, Opens
    <3>. HIDE DEF q
    <3>2. n \in Nat /\ n <= q
      BY <2>0, <3>1, FilledIsPayable
    <3>3. held[s].qty = 0
      BY <3>1 DEF Open, EngineWithinTracker, TypeOK
    <3>4. \/ held' = held /\ n = 0
          \/ held' = [held EXCEPT ![s] = [qty |-> n, price |-> p]] /\ n > 0
      BY <3>1, <3>2 DEF EngineBuy, engineVars
    <3>. HIDE DEF n
    <3>. SUFFICES ASSUME NEW x \in Symbols
                  PROVE  /\ held'[x].qty <= tracked'[x].qty
                         /\ held'[x].qty > 0 => held'[x].price = tracked'[x].entry
      BY DEF EngineWithinTracker, Holding
    <3>5. CASE x = s
      BY <3>1, <3>2, <3>3, <3>4, <3>5 DEF TypeOK
    <3>6. CASE x # s
      BY <3>1, <3>4, <3>6 DEF TypeOK, EngineWithinTracker, Holding
    <3>. QED
      BY <3>5, <3>6
  <2>2. ASSUME NEW t \in Tasks, NEW s \in Open, NEW p \in Nat,
               NEW todo \in SUBSET (Symbols \X Nat), Close(t, s, p, todo)
        PROVE  EngineWithinTracker'
    BY <2>2 DEF Close, EngineSell, EngineWithinTracker, Holding, TypeOK,
                NoHolding, NoPosition
  <2>3. ASSUME UNCHANGED <<engineVars, trackerVars>> PROVE EngineWithinTracker'
    BY <2>3 DEF engineVars, trackerVars, EngineWithinTracker, Holding
  <2>. QED
    BY <2>1, <2>2, <2>3, StepCases
<1>. QED
  BY <1>1, <1>2, TypeCorrect, PaperMoneyIsNeverOverdrawn, PTL DEF Spec

(* What is open is finite; a BUY adds its symbol, a close removes it.      *)
LEMMA OpenIsFinite == IsFiniteSet(Open) /\ Cardinality(Open) \in Nat
BY RiskAssumption, FS_Subset, FS_CardinalityType DEF Open

LEMMA SignalBuyOpens ==
  ASSUME TypeOK, NEW s \in Symbols, NEW p \in Prices, SignalBuy(s, p)
  PROVE  s \notin Open /\ Open' = Open \cup {s}
<1>. DEFINE q == BuySize(s, p)
<1>1. q \in Int /\ q > 0 /\ s \notin Open
  BY AssessedType DEF SignalBuy, Opens
<1>2. PICK e : tracked' = [tracked EXCEPT ![s] = [qty |-> q, entry |-> e, pnl |-> 0]]
  BY DEF SignalBuy
<1>. HIDE DEF q
<1>3. tracked'[s].qty > 0 /\ \A x \in Symbols \ {s} : tracked'[x] = tracked[x]
  BY <1>1, <1>2 DEF TypeOK
<1>. QED
  BY <1>1, <1>3 DEF Open

LEMMA CloseCloses ==
  ASSUME TypeOK, NEW t \in Tasks, NEW s \in Open, NEW p \in Nat, NEW todo,
         Close(t, s, p, todo)
  PROVE  Open' = Open \ {s}
BY DEF Close, Open, TypeOK, NoPosition

(* The plan's pair limit, the hard cap and the correlation cap hold in     *)
(* every reachable state.                                                  *)
THEOREM CapsAlwaysHold == Spec => []CapsHold
<1>. DEFINE In(g) == {s \in Open : GroupOf[s] = g}
<1>1. Init => CapsHold
  <2>. SUFFICES ASSUME Init PROVE CapsHold
    OBVIOUS
  <2>1. Open = {}
    BY DEF Init, Open, NoPosition
  <2>2. \A g \in Groups : {s \in Open : GroupOf[s] = g} = {}
    BY <2>1
  <2>. QED
    BY <2>1, <2>2, FS_EmptySet, RiskAssumption, PaperAssumption DEF CapsHold
<1>2. TypeOK /\ CapsHold /\ [Next]_vars => CapsHold'
  <2>. SUFFICES ASSUME TypeOK, CapsHold, [Next]_vars PROVE CapsHold'
    OBVIOUS
  <2>0. \A g : IsFiniteSet(In(g)) /\ Cardinality(In(g)) \in Nat
    BY OpenIsFinite, FS_Subset, FS_CardinalityType
  <2>1. ASSUME NEW s \in Symbols, NEW p \in Prices, SignalBuy(s, p)
        PROVE  CapsHold'
    <3>1. s \notin Open /\ Open' = Open \cup {s}
      BY <2>1, SignalBuyOpens
    <3>2. /\ Cardinality(Open) < MaxPairs /\ Cardinality(Open) < HardCap
          /\ ~CorrelationCapReached(Open, s)
      BY <2>1 DEF SignalBuy, Receive, PlanAllows, Opens, ValidOrder, Admitted, CanTrade
    <3>3. Cardinality(Open') = Cardinality(Open) + 1
      BY <3>1, OpenIsFinite, FS_AddElement
    <3>4. ASSUME NEW g \in Groups
          PROVE  Cardinality({x \in Open' : GroupOf[x] = g}) <= MaxCorrelated
      <4>1. CASE GroupOf[s] = g
        <5>1. {x \in Open' : GroupOf[x] = g} = In(g) \cup {s} /\ s \notin In(g)
          BY <3>1, <4>1
        <5>2. Cardinality(In(g)) < MaxCorrelated
          <6>1. GroupOf[s] # NoGroup /\ In(g) = Correlated(Open, s)
            BY <4>1, RiskAssumption DEF Correlated
          <6>2. ~(Cardinality(In(g)) >= MaxCorrelated)
            BY <3>2, <6>1 DEF CorrelationCapReached
          <6>3. Cardinality(In(g)) \in Nat /\ MaxCorrelated \in Nat
            BY <2>0, RiskAssumption
          <6>. HIDE DEF In
          <6>. QED
            BY <6>2, <6>3
        <5>3. /\ IsFiniteSet(In(g)) /\ Cardinality(In(g)) \in Nat
              /\ MaxCorrelated \in Nat
          BY <2>0, RiskAssumption
        <5>. HIDE DEF In
        <5>4. Cardinality(In(g) \cup {s}) = Cardinality(In(g)) + 1
          BY <5>1, <5>3, FS_AddElement
        <5>5. Cardinality(In(g) \cup {s}) <= MaxCorrelated
          BY <5>2, <5>3, <5>4
        <5>. QED
          BY <5>1, <5>5
      <4>2. CASE GroupOf[s] # g
        <5>1. {x \in Open' : GroupOf[x] = g} = In(g)
          BY <3>1, <4>2
        <5>. QED
          BY <5>1 DEF CapsHold
      <4>. QED
        BY <4>1, <4>2
    <3>. QED
      BY <3>2, <3>3, <3>4, OpenIsFinite, PaperAssumption DEF CapsHold
  <2>2. ASSUME NEW t \in Tasks, NEW s \in Open, NEW p \in Nat,
               NEW todo \in SUBSET (Symbols \X Nat), Close(t, s, p, todo)
        PROVE  CapsHold'
    <3>1. Open' = Open \ {s}
      BY <2>2, CloseCloses
    <3>2. Cardinality(Open') \in Nat /\ Cardinality(Open') <= Cardinality(Open)
      BY <3>1, OpenIsFinite, FS_Subset, FS_CardinalityType
    <3>3. ASSUME NEW g \in Groups
          PROVE  Cardinality({x \in Open' : GroupOf[x] = g}) <= MaxCorrelated
      <4>. DEFINE S == {x \in Open' : GroupOf[x] = g}
      <4>1. S \in SUBSET In(g)
        BY <3>1
      <4>2. Cardinality(S) \in Nat /\ Cardinality(S) <= Cardinality(In(g))
        BY <2>0, <4>1, FS_Subset, FS_CardinalityType
      <4>. QED
        BY <2>0, <4>2, RiskAssumption DEF CapsHold
    <3>. QED
      BY <3>2, <3>3, OpenIsFinite, PaperAssumption DEF CapsHold
  <2>3. ASSUME UNCHANGED <<engineVars, trackerVars>> PROVE CapsHold'
    BY <2>3 DEF trackerVars, CapsHold, Open
  <2>. QED
    BY <2>1, <2>2, <2>3, StepCases
<1>. QED
  BY <1>1, <1>2, TypeCorrect, PTL DEF Spec

------------------------------------------------------------------------------
(* Trade rows.  RowsAddUp needs to know that a task which is not between   *)
(* its close and its database write carries no gain: a close would         *)
(* otherwise overwrite one that was never written.                         *)

NothingPending(t) == task[t].at \notin {"sold", "saving"} => task[t].pnl = 0

RowsInv ==
  /\ RowsAddUp
  /\ \A t \in Tasks : NothingPending(t)

(* The terms of RowsAddUp are numbers.                                     *)
LEMMA RowsType ==
  ASSUME TypeOK
  PROVE  /\ saved.count \in Int /\ saved.pnl \in Int
         /\ unsaved.count \in Int /\ unsaved.pnl \in Int
         /\ task["signal"].pnl \in Int /\ task["monitor"].pnl \in Int
         /\ Cardinality(Open) \in Int /\ opens \in Int /\ realized \in Int
BY OpenIsFinite, PaperAssumption DEF TypeOK, Rows, Tasks, TaskState

(* A close by a task that has nothing in flight starts one row more.       *)
LEMMA CloseRows ==
  ASSUME TypeOK, RowsInv, NEW t \in Tasks, NEW s \in Open, NEW p \in Nat,
         NEW todo \in SUBSET (Symbols \X Nat), Close(t, s, p, todo),
         task[t].at \in {"rest", "closing"}, UNCHANGED <<saved, unsaved, opens>>
  PROVE  RowsInv'
<1>. DEFINE gain == (p - tracked[s].entry) * tracked[s].qty
<1>1. gain \in Int /\ realized' = realized + gain
  BY DEF Close, TypeOK, Open
<1>2. task' = [task EXCEPT ![t].at = "sold", ![t].pnl = gain,
                           !["monitor"].todo = todo]
  BY DEF Close
<1>. HIDE DEF gain
<1>3. /\ task'[t].at = "sold" /\ task'[t].pnl = gain
      /\ \A u \in Tasks \ {t} : task'[u].at = task[u].at /\ task'[u].pnl = task[u].pnl
  BY <1>2 DEF TypeOK, Tasks, TaskState
<1>4. Cardinality(Open') = Cardinality(Open) - 1
  BY CloseCloses, OpenIsFinite, FS_RemoveElement
<1>5. task[t].pnl = 0
  BY DEF RowsInv, NothingPending
<1>6. \A u \in Tasks : NothingPending(u)'
  BY <1>3 DEF RowsInv, NothingPending
<1>7. CASE t = "signal"
  <2>1. /\ task'["signal"].at = "sold" /\ task'["signal"].pnl = gain
        /\ task'["monitor"].at = task["monitor"].at
        /\ task'["monitor"].pnl = task["monitor"].pnl
    BY <1>3, <1>7 DEF Tasks
  <2>. QED
    BY <1>1, <1>4, <1>5, <1>6, <1>7, <2>1, RowsType DEF RowsInv, RowsAddUp, InFlight
<1>8. CASE t = "monitor"
  <2>1. /\ task'["monitor"].at = "sold" /\ task'["monitor"].pnl = gain
        /\ task'["signal"].at = task["signal"].at
        /\ task'["signal"].pnl = task["signal"].pnl
    BY <1>3, <1>8 DEF Tasks
  <2>. QED
    BY <1>1, <1>4, <1>5, <1>6, <1>8, <2>1, RowsType DEF RowsInv, RowsAddUp, InFlight
<1>. QED
  BY <1>7, <1>8 DEF Tasks

(* So does a pass of the monitor that closes one.                          *)
LEMMA ProceedRows ==
  ASSUME TypeOK, RowsInv, NEW todo \in SUBSET (Symbols \X Nat), Proceed(todo),
         task["monitor"].at \in {"rest", "closing"}
  PROVE  RowsInv'
<1>0. UNCHANGED <<saved, unsaved, opens>> /\ "monitor" \in Tasks
  BY DEF Proceed, dbVars, Tasks
<1>1. CASE CloseNext(todo)
  <2>1. PICK o \in StillOpen(todo) : Close("monitor", o[1], o[2], todo \ {o})
    BY <1>1 DEF CloseNext
  <2>2. /\ o[1] \in Open /\ o[2] \in Nat
        /\ todo \ {o} \in SUBSET (Symbols \X Nat)
    BY <2>1 DEF StillOpen
  <2>. QED
    BY <1>0, <2>1, <2>2, CloseRows
<1>2. CASE EndPass
  <2>1. /\ task'["monitor"].at = "rest" /\ task'["monitor"].pnl = 0
        /\ task'["signal"] = task["signal"]
        /\ task["monitor"].pnl = 0
    BY <1>0, <1>2 DEF EndPass, AtRest, TypeOK, Tasks, RowsInv, NothingPending
  <2>2. realized' = realized /\ Open' = Open
    BY <1>2 DEF EndPass, trackerVars, Open
  <2>. QED
    BY <1>0, <2>1, <2>2 DEF RowsInv, RowsAddUp, InFlight, NothingPending, Tasks
<1>. QED
  BY <1>1, <1>2 DEF Proceed

(* What a successful or failed write adds to the rows.                     *)
LEMMA WriteRowAdds ==
  ASSUME TypeOK, NEW pnl \in Int, WriteRow(pnl)
  PROVE  /\ saved'.count + unsaved'.count = saved.count + unsaved.count + 1
         /\ saved'.pnl + unsaved'.pnl = saved.pnl + unsaved.pnl + pnl
BY RowsType DEF WriteRow

(* Every trade has its row, written, failed or about to be written.        *)
THEOREM RowsAlwaysAddUp == Spec => []RowsAddUp
<1>1. Init => RowsInv
  <2>. SUFFICES ASSUME Init PROVE RowsInv
    OBVIOUS
  <2>1. Open = {} /\ Cardinality(Open) = 0
    BY FS_EmptySet DEF Init, Open, NoPosition
  <2>. QED
    BY <2>1 DEF Init, RowsInv, RowsAddUp, NothingPending, NoRows, AtRest, Tasks, InFlight
<1>2. TypeOK /\ RowsInv /\ [Next]_vars => RowsInv'
  <2>. SUFFICES ASSUME TypeOK, RowsInv, [Next]_vars PROVE RowsInv'
    OBVIOUS
  <2>0. "signal" \in Tasks /\ "monitor" \in Tasks
    BY DEF Tasks
  <2>. USE DEF engineVars, trackerVars, dbVars
  <2>1. ASSUME NEW s \in Symbols, NEW p \in Prices, SignalBuy(s, p) PROVE RowsInv'
    <3>1. Cardinality(Open') = Cardinality(Open) + 1
      BY <2>1, SignalBuyOpens, OpenIsFinite, FS_AddElement
    <3>2. /\ task["signal"].at = "rest" /\ task'["signal"].at = "bought"
          /\ task'["signal"].pnl = task["signal"].pnl
          /\ task'["monitor"] = task["monitor"]
      BY <2>0, <2>1 DEF SignalBuy, Receive, TypeOK, TaskState
    <3>3. opens' = opens + 1 /\ UNCHANGED <<realized, saved, unsaved>>
      BY <2>1 DEF SignalBuy
    <3>4. \A t \in Tasks : NothingPending(t)'
      BY <3>2 DEF NothingPending, RowsInv, Tasks
    <3>. QED
      BY <3>1, <3>2, <3>3, <3>4, RowsType DEF RowsInv, RowsAddUp, InFlight
  <2>2. ASSUME NEW s \in Symbols, NEW p \in Prices, SignalSell(s, p) PROVE RowsInv'
    <3>1. p \in Nat /\ task["signal"].at = "rest" /\ s \in Open
      BY <2>2, PaperAssumption DEF SignalSell, Receive
    <3>2. Repriced(s, p) \in SUBSET (Symbols \X Nat)
      BY <3>1, ListTypes
    <3>. QED
      BY <2>0, <2>2, <3>1, <3>2, CloseRows DEF SignalSell
  <2>3. ASSUME SaveBuy PROVE RowsInv'
    <3>1. /\ task["signal"].at = "bought" /\ task'["signal"].at = "rest"
          /\ task'["signal"].pnl = task["signal"].pnl
          /\ task'["monitor"] = task["monitor"]
      BY <2>0, <2>3 DEF SaveBuy, TypeOK, TaskState
    <3>2. WriteRow(0) /\ UNCHANGED <<tracked, realized, opens>>
      BY <2>3 DEF SaveBuy
    <3>3. Open' = Open
      BY <3>2 DEF Open
    <3>4. \A t \in Tasks : NothingPending(t)'
      BY <3>1 DEF NothingPending, RowsInv, Tasks
    <3>5. saved'.count \in Int /\ saved'.pnl \in Int /\ unsaved'.count \in Int /\ unsaved'.pnl \in Int
      BY <3>2, WriteRowType DEF Rows
    <3>. QED
      BY <3>1, <3>2, <3>3, <3>4, <3>5, RowsType, WriteRowAdds DEF RowsInv, RowsAddUp, InFlight
  <2>4. ASSUME NEW t \in Tasks, Settle(t) PROVE RowsInv'
    <3>1. /\ task[t].at = "sold" /\ task'[t].at = "saving"
          /\ \A u \in Tasks : task'[u].pnl = task[u].pnl
          /\ \A u \in Tasks \ {t} : task'[u] = task[u]
      BY <2>4 DEF Settle, TypeOK, TaskState
    <3>2. UNCHANGED <<tracked, realized, saved, unsaved, opens>>
      BY <2>4 DEF Settle
    <3>3. \A u \in Tasks : InFlight(u)' = InFlight(u) /\ NothingPending(u)'
      BY <3>1 DEF InFlight, NothingPending, RowsInv
    <3>4. (task'["signal"].at = "bought") = (task["signal"].at = "bought")
      BY <2>0, <3>1
    <3>. QED
      BY <2>0, <3>1, <3>2, <3>3, <3>4 DEF RowsInv, RowsAddUp, Open
  <2>5. ASSUME NEW t \in Tasks, SaveSell(t) PROVE RowsInv'
    <3>1. /\ task[t].at = "saving" /\ task'[t].pnl = 0
          /\ task'[t].at \in {"rest", "closing"}
          /\ \A u \in Tasks \ {t} : task'[u] = task[u]
      BY <2>5 DEF SaveSell, TypeOK, TaskState
    <3>2. WriteRow(task[t].pnl) /\ UNCHANGED <<tracked, realized, opens>>
      BY <2>5 DEF SaveSell
    <3>3. Open' = Open
      BY <3>2 DEF Open
    <3>4. \A u \in Tasks : NothingPending(u)'
      BY <3>1 DEF NothingPending, RowsInv
    <3>5. saved'.count \in Int /\ saved'.pnl \in Int /\ unsaved'.count \in Int /\ unsaved'.pnl \in Int
      BY <3>2, WriteRowType DEF Rows, TypeOK, TaskState
    <3>6. /\ saved'.count + unsaved'.count = saved.count + unsaved.count + 1
          /\ saved'.pnl + unsaved'.pnl = saved.pnl + unsaved.pnl + task[t].pnl
      BY <3>2, WriteRowAdds DEF TypeOK, TaskState
    <3>7. CASE t = "signal"
      BY <2>0, <3>1, <3>2, <3>3, <3>4, <3>5, <3>6, <3>7, RowsType
      DEF RowsInv, RowsAddUp, InFlight
    <3>8. CASE t = "monitor"
      BY <2>0, <3>1, <3>2, <3>3, <3>4, <3>5, <3>6, <3>8, RowsType
      DEF RowsInv, RowsAddUp, InFlight
    <3>. QED
      BY <3>7, <3>8 DEF Tasks
  <2>6. ASSUME MonitorTick PROVE RowsInv'
    BY <2>6, ListTypes, ProceedRows DEF MonitorTick
  <2>7. ASSUME MonitorResume PROVE RowsInv'
    BY <2>7, ListTypes, ProceedRows DEF MonitorResume
  <2>8. ASSUME UNCHANGED <<tracked, realized, task, saved, unsaved, opens>>
        PROVE  RowsInv'
    BY <2>8 DEF RowsInv, RowsAddUp, NothingPending, InFlight, Open
  <2>9. ASSUME NEW s \in Symbols, NEW p \in Prices,
               SignalBuyRefused(s, p) \/ SignalSellRefused(s, p)
        PROVE  RowsInv'
    BY <2>8, <2>9 DEF SignalBuyRefused, SignalSellRefused
  <2>10. World => RowsInv'
    BY <2>8 DEF World, MarketStatus, CooldownOver, NewDay
  <2>11. UNCHANGED vars => RowsInv'
    BY <2>8 DEF vars
  <2>. QED
    BY <2>0, <2>1, <2>2, <2>3, <2>4, <2>5, <2>6, <2>7, <2>9, <2>10, <2>11
    DEF Next, Signal, SignalTail, Monitor
<1>3. RowsInv => RowsAddUp
  BY DEF RowsInv
<1>. QED
  BY <1>1, <1>2, <1>3, TypeCorrect, PTL DEF Spec

------------------------------------------------------------------------------
(* Opening.  The checks of a BUY are made on the equity with the signal's  *)
(* price; they bound the session's own equity because nothing of the       *)
(* symbol is held, which is what EngineWithinTracker adds.                 *)

PeakIsPositive == risk.peak > 0

(* The peak only rises.                                                    *)
LEMMA PeakRises ==
  ASSUME NEW r \in RiskState, NEW balance \in Int
  PROVE  /\ UpdateBalance(r, balance).peak = Higher(r.peak, balance)
         /\ Higher(r.peak, balance) >= r.peak
<1>1. r.peak \in Int
  BY DEF RiskState
<1>2. UpdateBalance(r, balance).peak = Higher(r.peak, balance)
  BY DEF UpdateBalance, RiskState
<1>. QED
  BY <1>1, <1>2 DEF Higher

(* What can_trade lets through after update_balance is equity above both   *)
(* drawdown limits.                                                        *)
LEMMA AdmittedIsSound ==
  ASSUME NEW r \in RiskState, r.peak > 0, NEW b \in Int, NEW c, NEW O, NEW s,
         CanTrade(UpdateBalance(r, b), c, O, s)
  PROVE  /\ CanOpenAt(r.level)
         /\ b * 100 > UpdateBalance(r, b).peak * (100 - BreakerPct)
         /\ b * 100 >= UpdateBalance(r, b).dayStart * (100 - DailyPct)
<1>. DEFINE start == IF r.newDay \/ r.dayStart = NoBalance THEN b ELSE r.dayStart
            peak  == Higher(r.peak, b)
            u     == UpdateBalance(r, b)
<1>1. /\ u.peak = peak /\ u.dayStart = start /\ u.last = b /\ u.newDay = FALSE
      /\ u.level = r.level
      /\ u.breaker = (b * 100 <= peak * (100 - BreakerPct))
  BY DEF UpdateBalance, RiskState
<1>2. CanOpenAt(u.level) /\ ~u.breaker /\ ~DayLossExceeded(u)
  BY DEF CanTrade
<1>3. peak \in Int /\ peak > 0 /\ start \in Int
  BY PeakRises DEF RiskState, Higher
<1>4. BreakerPct \in 1..100 /\ DailyPct \in 1..100
  BY RiskAssumption
<1>. HIDE DEF u, peak
<1>5. b * 100 > peak * (100 - BreakerPct) /\ b > 0
  <2>1. b * 100 > peak * (100 - BreakerPct)
    <3>1. ~(b * 100 <= peak * (100 - BreakerPct))
      BY <1>1, <1>2, Zenon
    <3>. QED
      BY <1>3, <1>4, <3>1
  <2>2. peak * (100 - BreakerPct) >= 0
    BY <1>3, <1>4
  <2>. QED
    BY <1>3, <1>4, <2>1, <2>2
<1>6. start # NoBalance
  BY <1>5 DEF NoBalance
<1>. HIDE DEF start
<1>7. (b - start) * 100 >= -(DailyPct * start)
  BY <1>1, <1>2, <1>3, <1>4, <1>5, <1>6 DEF DayLossExceeded, NoBalance
<1>8. b * 100 >= start * (100 - DailyPct)
  BY <1>3, <1>4, <1>7
<1>. QED
  BY <1>1, <1>2, <1>5, <1>8 DEF u

(* No step lowers the peak.                                                *)
LEMMA PeakNeverFalls ==
  ASSUME TypeOK, [Next]_vars
  PROVE  risk'.peak \in Int /\ risk'.peak >= risk.peak
<1> DEFINE Kept == risk'.peak \in Int /\ risk'.peak >= risk.peak
<1>1. risk \in RiskState /\ risk.peak \in Int
  BY DEF TypeOK, RiskState
<1>2. ASSUME NEW b \in Int, risk' = UpdateBalance(risk, b) PROVE Kept
  <2>1. Higher(risk.peak, b) >= risk.peak /\ Higher(risk.peak, b) \in Int
    BY <1>1, PeakRises DEF Higher
  <2>2. risk'.peak = Higher(risk.peak, b)
    BY <1>1, <1>2, PeakRises
  <2> QED
    BY <2>1, <2>2
<1>3. risk' = risk => Kept
  BY <1>1
<1>4. ASSUME NEW s \in Symbols, NEW p \in Prices, risk' = Assessed(s, p) PROVE Kept
  BY <1>2, <1>4, EquityType DEF Assessed
<1> HIDE DEF Kept
<1>5. Signal => Kept
  BY <1>4 DEF Signal, SignalBuy, SignalBuyRefused, SignalSell, SignalSellRefused
<1>6. \A t : Settle(t) => Kept
  BY <1>2, EquityType DEF Settle
<1>7. \A todo : Proceed(todo) => Kept
  BY <1>2, <1>3, EquityType DEF Proceed, CloseNext, EndPass
<1>8. SignalTail \/ Monitor => Kept
  BY <1>3, <1>6, <1>7
  DEF SignalTail, Monitor, SaveBuy, SaveSell, MonitorTick, MonitorResume
<1>9. World => Kept
  BY <1>1 DEF World, MarketStatus, SetMarketStatus, CooldownOver, NewDay, Kept,
              TypeOK, RiskState
<1> QED
  BY <1>3, <1>5, <1>8, <1>9 DEF Next, vars, Kept

(* The peak of a session starts above zero and is never lowered.           *)
LEMMA PeakStaysPositive == Spec => []PeakIsPositive
<1>1. Init => PeakIsPositive
  BY RiskAssumption DEF Init, FreshRisk, PeakIsPositive
<1>2. TypeOK /\ PeakIsPositive /\ [Next]_vars => PeakIsPositive'
  BY PeakNeverFalls DEF PeakIsPositive, TypeOK, RiskState
<1>. QED
  BY <1>1, <1>2, TypeCorrect, PTL DEF Spec

(* A position is only opened on equity inside both drawdown limits and at  *)
(* a level that allows it.                                                 *)
THEOREM OpensOnlyOnSoundEquity == Spec => OpensOnSoundEquity
<1>. DEFINE Sound == /\ CanOpenAt(risk.level)
                     /\ EquityAtEntry * 100 > risk'.peak * (100 - BreakerPct)
                     /\ EquityAtEntry * 100 >= risk'.dayStart * (100 - DailyPct)
            Grows == Cardinality(Open') > Cardinality(Open)
<1>1. TypeOK /\ EngineWithinTracker /\ PeakIsPositive /\ [Next]_vars
        => [Grows => Sound]_vars
  <2>. SUFFICES ASSUME TypeOK, EngineWithinTracker, PeakIsPositive, [Next]_vars, Grows
                PROVE  Sound
    OBVIOUS
  <2>1. ASSUME NEW s \in Symbols, NEW p \in Prices, SignalBuy(s, p) PROVE Sound
    <3>1. s \notin Open /\ Admitted(s, p) /\ risk' = Assessed(s, p)
      BY <2>1 DEF SignalBuy, Opens
    <3>2. held[s].qty = 0
      BY <3>1 DEF Open, EngineWithinTracker, TypeOK
    <3>3. EquityAt(s, p) = EquityAtEntry /\ EquityAtEntry \in Int
      BY <3>2, EquityType, PaperAssumption DEF EquityAt, TypeOK
    <3>. QED
      BY <3>1, <3>3, AdmittedIsSound
      DEF Admitted, Assessed, TypeOK, PeakIsPositive
  <2>2. ASSUME NEW t \in Tasks, NEW s \in Open, NEW p \in Nat,
               NEW todo \in SUBSET (Symbols \X Nat), Close(t, s, p, todo)
        PROVE  FALSE
    <3>1. Cardinality(Open') = Cardinality(Open) - 1
      BY <2>2, CloseCloses, OpenIsFinite, FS_RemoveElement
    <3>. QED
      BY <3>1, OpenIsFinite
  <2>3. ASSUME UNCHANGED <<engineVars, trackerVars>> PROVE FALSE
    <3>1. Open' = Open
      BY <2>3 DEF trackerVars, Open
    <3>. QED
      BY <3>1, OpenIsFinite
  <2>. QED
    BY <2>1, <2>2, <2>3, StepCases
<1>. QED
  BY <1>1, TypeCorrect, EngineStaysWithinTracker, PeakStaysPositive, PTL
  DEF Spec, OpensOnSoundEquity

------------------------------------------------------------------------------
(* The paper account.  A close sells what the tracker records, so these    *)
(* two results need every order to have been filled in full, which is what *)
(* FilledInFull says; the runs check it where plan and sizing ensure it.   *)

(* A close, seen by the account.                                           *)
LEMMA CloseMoves ==
  ASSUME TypeOK, EngineWithinTracker, FilledInFull,
         NEW t \in Tasks, NEW s \in Open, NEW p \in Nat,
         NEW todo, Close(t, s, p, todo)
  PROVE  LET q == held[s].qty
             cost == q * p
         IN /\ q \in Nat /\ q > 0 /\ cost \in Nat /\ Fee(cost) \in Nat
            /\ cash' = cash + (cost - Fee(cost))
            /\ fees' = fees + Fee(cost)
            /\ held' = [held EXCEPT ![s] = NoHolding]
            /\ book' = book - q * held[s].price
            /\ realized' = realized + (p - held[s].price) * q
<1>1. /\ held[s].qty = tracked[s].qty /\ held[s].qty \in Nat /\ held[s].qty > 0
      /\ held[s].price = tracked[s].entry
  BY DEF Open, TypeOK, FilledInFull, EngineWithinTracker, Holding
<1>2. held[s].qty * p \in Nat
  BY <1>1
<1>. QED
  BY <1>1, <1>2, FeeBounds DEF Close, EngineSell

(* A BUY, seen by the account, when what it records was filled.            *)
LEMMA BuyMoves ==
  ASSUME TypeOK, NeverOverdrawn, EngineWithinTracker, FilledInFull',
         NEW s \in Symbols, NEW p \in Prices, SignalBuy(s, p)
  PROVE  LET q == held'[s].qty
             cost == q * p
         IN /\ q \in Nat /\ q > 0 /\ cost \in Nat /\ Fee(cost) \in Nat
            /\ held[s].qty = 0
            /\ cost + Fee(cost) <= cash
            /\ cash' = cash - (cost + Fee(cost))
            /\ fees' = fees + Fee(cost)
            /\ held' = [held EXCEPT ![s] = [qty |-> q, price |-> p]]
            /\ book' = book + cost
            /\ realized' = realized
            /\ tracked'[s].entry = p
            /\ \A x \in Symbols \ {s} : tracked'[x] = tracked[x]
<1>. DEFINE b == BuySize(s, p)
            n == Filled(b, p)
<1>0. cash \in Nat
  BY DEF TypeOK, NeverOverdrawn
<1>1. /\ b \in Nat /\ b > 0 /\ p \in Nat \ {0} /\ s \notin Open /\ EngineBuy(s, b, p)
      /\ tracked' = [tracked EXCEPT ![s] =
                        [qty |-> b, entry |-> IF n > 0 THEN p ELSE 0, pnl |-> 0]]
      /\ realized' = realized
  BY AssessedType, PaperAssumption DEF SignalBuy, Opens
<1>. HIDE DEF b
<1>2. n \in Nat /\ n * p + Fee(n * p) <= cash
  BY <1>0, <1>1, FilledIsPayable
<1>3. held[s].qty = 0
  BY <1>1 DEF Open, EngineWithinTracker, TypeOK
<1>4. tracked'[s].qty = b /\ held'[s].qty = b
  BY <1>1 DEF TypeOK, FilledInFull
<1>5. n > 0
  <2>1. n <= 0 => held' = held
    BY <1>1 DEF EngineBuy, engineVars
  <2>. QED
    BY <1>1, <1>2, <1>3, <1>4, <2>1
<1>6. /\ cash' = cash - (n * p + Fee(n * p))
      /\ fees' = fees + Fee(n * p)
      /\ held' = [held EXCEPT ![s] = [qty |-> n, price |-> p]]
      /\ book' = book + n * p
  BY <1>1, <1>2, <1>5 DEF EngineBuy
<1>. HIDE DEF n
<1>7. held'[s].qty = n /\ n * p \in Nat
  BY <1>1, <1>2, <1>6 DEF TypeOK
<1>8. /\ tracked'[s].entry = p
      /\ \A x \in Symbols \ {s} : tracked'[x] = tracked[x]
  BY <1>1, <1>5 DEF TypeOK
<1>. QED
  BY <1>1, <1>2, <1>3, <1>5, <1>6, <1>7, <1>8, FeeBounds

(* While every order is filled in full, no money appears or vanishes.      *)
THEOREM MoneyIsConserved == Spec /\ []FilledInFull => []MoneyConserved
<1>1. Init => MoneyConserved
  BY RiskAssumption DEF Init, MoneyConserved
<1>2. TypeOK /\ NeverOverdrawn /\ EngineWithinTracker /\ MoneyConserved
        /\ FilledInFull /\ FilledInFull' /\ [Next]_vars
        => MoneyConserved'
  <2>. SUFFICES ASSUME TypeOK, NeverOverdrawn, EngineWithinTracker, MoneyConserved,
                       FilledInFull, FilledInFull', [Next]_vars
                PROVE  MoneyConserved'
    OBVIOUS
  <2>0. cash \in Int /\ book \in Int /\ fees \in Int /\ realized \in Int
        /\ InitialBalance \in Int
    BY RiskAssumption DEF TypeOK
  <2>1. ASSUME NEW s \in Symbols, NEW p \in Prices, SignalBuy(s, p)
        PROVE  MoneyConserved'
    <3>. DEFINE cost == held'[s].qty * p
    <3>1. /\ cost \in Nat /\ Fee(cost) \in Nat
          /\ cash' = cash - (cost + Fee(cost)) /\ fees' = fees + Fee(cost)
          /\ book' = book + cost /\ realized' = realized
      BY <2>1, BuyMoves
    <3>. HIDE DEF cost
    <3>. QED
      BY <2>0, <3>1 DEF MoneyConserved
  <2>2. ASSUME NEW t \in Tasks, NEW s \in Open, NEW p \in Nat,
               NEW todo \in SUBSET (Symbols \X Nat), Close(t, s, p, todo)
        PROVE  MoneyConserved'
    <3>. DEFINE q == held[s].qty
                cost == q * p
                paid == q * held[s].price
                gain == (p - held[s].price) * q
    <3>1. /\ q \in Nat /\ cost \in Nat /\ Fee(cost) \in Nat
          /\ cash' = cash + (cost - Fee(cost)) /\ fees' = fees + Fee(cost)
          /\ book' = book - paid /\ realized' = realized + gain
      BY <2>2, CloseMoves
    <3>2. paid \in Int /\ gain = cost - paid
      BY <3>1 DEF TypeOK, Open
    <3>. HIDE DEF q, cost, paid, gain
    <3>3. cash' + book' = (cash + book) + (cost - paid) - Fee(cost)
      BY <2>0, <3>1, <3>2
    <3>4. realized' - fees' = (realized - fees) + (cost - paid) - Fee(cost)
      BY <2>0, <3>1, <3>2
    <3>5. InitialBalance + realized' - fees' = InitialBalance + (realized' - fees')
      BY <2>0, <3>1, <3>2
    <3>. QED
      BY <2>0, <3>1, <3>2, <3>3, <3>4, <3>5 DEF MoneyConserved
  <2>3. ASSUME UNCHANGED <<engineVars, trackerVars>> PROVE MoneyConserved'
    BY <2>3 DEF engineVars, trackerVars, MoneyConserved
  <2>. QED
    BY <2>1, <2>2, <2>3, StepCases
<1>. QED
  BY <1>1, <1>2, TypeCorrect, PaperMoneyIsNeverOverdrawn, EngineStaysWithinTracker, PTL
  DEF Spec

(* The prices of entries and of the monitor's list are prices of signals.  *)
PricesAreQuoted ==
  /\ \A s \in Open : tracked[s].entry \in Prices
  /\ task["monitor"].todo \in SUBSET (Symbols \X Prices)

LEMMA QuotedPrices ==
  ASSUME TypeOK, PricesAreQuoted PROVE ClosePrices = Prices
BY ListTypes DEF ClosePrices, PricesAreQuoted

LEMMA PricesStayQuoted == Spec /\ []FilledInFull => []PricesAreQuoted
<1>1. Init => PricesAreQuoted
  BY DEF Init, PricesAreQuoted, Open, NoPosition, AtRest, Tasks
<1>2. TypeOK /\ NeverOverdrawn /\ EngineWithinTracker /\ PricesAreQuoted
        /\ FilledInFull' /\ [Next]_vars
        => PricesAreQuoted'
  <2>. SUFFICES ASSUME TypeOK, NeverOverdrawn, EngineWithinTracker, PricesAreQuoted,
                       FilledInFull', [Next]_vars
                PROVE  PricesAreQuoted'
    OBVIOUS
  <2>1. ASSUME NEW s \in Symbols, NEW p \in Prices, SignalBuy(s, p)
        PROVE  PricesAreQuoted'
    <3>1. /\ tracked'[s].entry = p
          /\ \A x \in Symbols \ {s} : tracked'[x] = tracked[x]
      BY <2>1, BuyMoves
    <3>2. Open' = Open \cup {s}
      BY <2>1, SignalBuyOpens
    <3>3. \A x \in Open' : tracked'[x].entry \in Prices
      BY <3>1, <3>2 DEF PricesAreQuoted, Open
    <3>4. task'["monitor"] = task["monitor"]
      BY <2>1 DEF SignalBuy, TypeOK, Tasks
    <3>. QED
      BY <3>3, <3>4 DEF PricesAreQuoted
  <2>2. ASSUME NEW t \in Tasks, NEW s \in Open, NEW p \in Prices,
               NEW todo \in SUBSET (Symbols \X Prices), Close(t, s, p, todo)
        PROVE  PricesAreQuoted'
    <3>1. Open' = Open \ {s} /\ p \in Nat
      BY <2>2, CloseCloses, PaperAssumption
    <3>2. \A x \in Open' : tracked'[x] = tracked[x]
      BY <2>2, <3>1 DEF Close, TypeOK, Open
    <3>3. task'["monitor"].todo = todo
      BY <2>2 DEF Close, TypeOK, Tasks, TaskState
    <3>. QED
      BY <3>1, <3>2, <3>3 DEF PricesAreQuoted
  <2>3. ASSUME UNCHANGED <<engineVars, trackerVars>>,
               task'["monitor"].todo \in SUBSET (Symbols \X Prices)
        PROVE  PricesAreQuoted'
    BY <2>3 DEF PricesAreQuoted, trackerVars, Open
  <2>. QED
    BY <2>1, <2>2, <2>3, PricedSteps, QuotedPrices
<1>. QED
  BY <1>1, <1>2, TypeCorrect, PaperMoneyIsNeverOverdrawn, EngineStaysWithinTracker, PTL
  DEF Spec

(* While every order is filled in full, the session is the paper account   *)
(* of PaperLedger: the two tasks together do nothing but pay for purchases *)
(* and sell whole holdings.                                                *)
THEOREM SessionIsALedger == Spec /\ []FilledInFull => ImplementsLedger
<1>1. Init => Ledger!Init
  BY DEF Init, Ledger!Init, NoHolding
<1>2. TypeOK /\ NeverOverdrawn /\ EngineWithinTracker /\ PricesAreQuoted
        /\ FilledInFull /\ FilledInFull' /\ [Next]_vars
        => [Ledger!Next]_(Ledger!ledger)
  <2>. SUFFICES ASSUME TypeOK, NeverOverdrawn, EngineWithinTracker, PricesAreQuoted,
                       FilledInFull, FilledInFull', [Next]_vars
                PROVE  Ledger!Next \/ UNCHANGED Ledger!ledger
    OBVIOUS
  <2>0. \A c : Ledger!FeeOf(c) = Fee(c)
    BY DEF Ledger!FeeOf, Fee
  <2>1. ASSUME NEW s \in Symbols, NEW p \in Prices, SignalBuy(s, p)
        PROVE  Ledger!Buy(s, p)
    BY <2>0, <2>1, BuyMoves DEF Ledger!Buy
  <2>2. ASSUME NEW t \in Tasks, NEW s \in Open, NEW p \in Prices,
               NEW todo, Close(t, s, p, todo)
        PROVE  Ledger!Sell(s, p)
    <3>1. p \in Nat
      BY PaperAssumption
    <3>. QED
      BY <2>0, <2>2, <3>1, CloseMoves DEF Ledger!Sell, NoHolding
  <2>3. ASSUME UNCHANGED <<engineVars, trackerVars>> PROVE UNCHANGED Ledger!ledger
    BY <2>3 DEF engineVars, trackerVars, Ledger!ledger
  <2>4. Open \subseteq Symbols
    BY DEF Open
  <2>. QED
    BY <2>1, <2>2, <2>3, <2>4, PricedSteps, QuotedPrices DEF Ledger!Next
<1>. QED
  BY <1>1, <1>2, TypeCorrect, PaperMoneyIsNeverOverdrawn, EngineStaysWithinTracker,
     PricesStayQuoted, PTL
  DEF Spec, ImplementsLedger, Ledger!Spec

------------------------------------------------------------------------------
(* The book.  The code sums it over the engine's holdings each time.       *)

ValuesKnown ==
  /\ Ints(Values, Symbols)
  /\ \A s \in Symbols : Values[s] = held[s].qty * tracked[s].entry /\ Values[s] \in Nat

BookOverAll == BookIsSum <=> book = SumOver(Values, Symbols)

LEMMA ValuesType == TypeOK => ValuesKnown
<1> SUFFICES ASSUME TypeOK PROVE ValuesKnown
  OBVIOUS
<1>1. \A s \in Symbols : Values[s] = held[s].qty * tracked[s].entry /\ Values[s] \in Nat
  BY DEF TypeOK, Values
<1> QED
  BY <1>1, RiskAssumption DEF Ints, ValuesKnown

(* Symbols that are not held add nothing.                                  *)
LEMMA BookOverSymbols == TypeOK => BookOverAll
<1> SUFFICES ASSUME TypeOK PROVE BookOverAll
  OBVIOUS
<1> DEFINE H == {s \in Symbols : Holding(s)}
<1>0. ValuesKnown
  BY ValuesType
<1>1. \A s \in Symbols \ H : Values[s] = 0
  BY <1>0 DEF TypeOK, Holding, ValuesKnown
<1>2. SumOver(Values, Symbols) = SumOver(Values, H)
  BY <1>0, <1>1, SumDropsZeros DEF ValuesKnown
<1> QED
  BY <1>2 DEF BookIsSum, BookOverAll

(* What the code would sum is what purchases added and sales took away.    *)
THEOREM BookStaysTheSum == Spec => []BookIsSum
<1>1. Init => BookIsSum
  <2> SUFFICES ASSUME Init PROVE BookIsSum
    OBVIOUS
  <2>1. {s \in Symbols : Holding(s)} = {} /\ book = 0
    BY DEF Init, Holding, NoHolding
  <2>2. SumOver(Values, {}) = 0
    BY SumEmpty
  <2> QED
    BY <2>1, <2>2 DEF BookIsSum
<1>2. /\ TypeOK /\ ValuesKnown /\ ValuesKnown' /\ BookOverAll /\ BookOverAll'
      /\ NeverOverdrawn /\ EngineWithinTracker /\ BookIsSum /\ [Next]_vars
      => BookIsSum'
  <2> SUFFICES ASSUME TypeOK, ValuesKnown, ValuesKnown', BookOverAll, BookOverAll',
                      NeverOverdrawn, EngineWithinTracker, BookIsSum, [Next]_vars
               PROVE  BookIsSum'
    OBVIOUS
  <2> DEFINE old == Values
             new == Values'
  <2>0. book = SumOver(old, Symbols) /\ book \in Int
    BY DEF TypeOK, BookOverAll
  <2>1. BookIsSum' <=> book' = SumOver(new, Symbols)
    BY DEF BookOverAll
  <2>2. /\ Ints(old, Symbols)
        /\ \A s \in Symbols : old[s] = held[s].qty * tracked[s].entry /\ old[s] \in Nat
        /\ \A s \in Symbols : new[s] = held'[s].qty * tracked'[s].entry /\ new[s] \in Nat
    BY DEF ValuesKnown
  <2> HIDE DEF old, new
  <2>3. ASSUME NEW s \in Symbols, \A x \in Symbols \ {s} : new[x] = old[x],
               book' = book - old[s] + new[s]
        PROVE  BookIsSum'
    <3>1. SumOver(new, Symbols) = SumOver(old, Symbols) - old[s] + new[s]
      BY <2>2, <2>3, SumUpdate
    <3> QED
      BY <2>0, <2>1, <2>3, <3>1
  <2>4. ASSUME NEW s \in Symbols, NEW p \in Prices, SignalBuy(s, p) PROVE BookIsSum'
    <3> DEFINE q == BuySize(s, p)
               n == Filled(q, p)
    <3>1. /\ q \in Nat /\ p \in Nat \ {0} /\ s \notin Open /\ EngineBuy(s, q, p)
          /\ tracked' = [tracked EXCEPT ![s] =
                            [qty |-> q, entry |-> IF n > 0 THEN p ELSE 0, pnl |-> 0]]
      BY <2>4, AssessedType, PaperAssumption DEF SignalBuy, Opens
    <3> HIDE DEF q
    <3>2. n \in Nat
      BY <3>1, FilledIsPayable DEF TypeOK, NeverOverdrawn
    <3>3. held[s].qty = 0
      BY <3>1 DEF Open, EngineWithinTracker, TypeOK
    <3>4. \/ held' = held /\ book' = book /\ n = 0
          \/ /\ held' = [held EXCEPT ![s] = [qty |-> n, price |-> p]]
             /\ book' = book + n * p /\ n > 0
      BY <3>1, <3>2 DEF EngineBuy, engineVars
    <3> HIDE DEF n
    <3>5. \A x \in Symbols \ {s} : new[x] = old[x]
      BY <2>2, <3>1, <3>4 DEF TypeOK
    <3>6. old[s] = 0 /\ new[s] = n * p
      BY <2>2, <3>1, <3>2, <3>3, <3>4 DEF TypeOK
    <3>7. n * p \in Nat
      BY <3>1, <3>2
    <3>8. book' = book - old[s] + new[s]
      <4>1. CASE n = 0
        BY <2>0, <3>1, <3>4, <3>6, <4>1
      <4>2. CASE n > 0
        BY <2>0, <3>4, <3>6, <3>7, <4>2
      <4> QED
        BY <3>2, <4>1, <4>2
    <3> QED
      BY <2>3, <3>5, <3>8
  <2>5. ASSUME NEW t \in Tasks, NEW s \in Open, NEW p \in Nat,
               NEW todo \in SUBSET (Symbols \X Nat), Close(t, s, p, todo)
        PROVE  BookIsSum'
    <3>1. /\ s \in Symbols
          /\ held' = [held EXCEPT ![s] = NoHolding]
          /\ tracked' = [tracked EXCEPT ![s] = NoPosition]
          /\ book' = book - held[s].qty * held[s].price
      BY <2>5 DEF Close, EngineSell, Open
    <3>2. \A x \in Symbols \ {s} : new[x] = old[x]
      BY <2>2, <3>1 DEF TypeOK
    <3>3. new[s] = 0
      BY <2>2, <3>1 DEF TypeOK, NoHolding, NoPosition
    <3>4. held[s].qty * held[s].price = old[s]
      BY <2>2, <3>1 DEF TypeOK, EngineWithinTracker, Holding
    <3> QED
      BY <2>0, <2>2, <2>3, <3>1, <3>2, <3>3, <3>4
  <2>6. ASSUME UNCHANGED <<engineVars, trackerVars>> PROVE BookIsSum'
    BY <2>6 DEF engineVars, trackerVars, BookIsSum, Values, Holding
  <2> QED
    BY <2>4, <2>5, <2>6, StepCases
<1> QED
  BY <1>1, <1>2, TypeCorrect, ValuesType, BookOverSymbols, PaperMoneyIsNeverOverdrawn,
     EngineStaysWithinTracker, PTL
  DEF Spec

------------------------------------------------------------------------------
(* Filled in full.  Each holding was bought for at most SizePct of the     *)
(* peak, a plan has at most MaxPairs of them, and a BUY is only made on    *)
(* equity above the breaker's share of the peak: what is left is enough.   *)

(* The size of a position is at most its share of the equity.              *)
LEMMA SizeIsAShare ==
  ASSUME NEW r \in RiskState, NEW e \in Nat, NEW p \in Nat \ {0},
         PositionSize(r, e, p) > 0
  PROVE  /\ PositionSize(r, e, p) \in Nat
         /\ 100 * (PositionSize(r, e, p) * p) <= SizePct * e
<1> DEFINE h == SizeHalves(r.level)
           a == (e * SizePct) \div 100
           l == Lower(MaxPosition, a)
           v == (l * h) \div 2
           q == v \div p
<1>1. h \in 0..2
  BY DEF SizeHalves
<1>2. a \in Nat /\ 100 * a <= e * SizePct
  <2>1. e * SizePct \in Nat
    BY RiskAssumption
  <2> HIDE DEF a
  <2>2. a = (e * SizePct) \div 100
    BY DEF a
  <2> QED
    BY <2>1, <2>2, DivDown
<1>3. l \in Nat /\ l <= a
  <2> HIDE DEF a
  <2> QED
    BY <1>2, RiskAssumption DEF Lower
<1> HIDE DEF a, h
<1>4. v \in Nat /\ v <= l
  <2>1. l * h \in Nat /\ l * h <= 2 * l
    BY <1>1, <1>3
  <2> HIDE DEF l
  <2>2. v \in Nat /\ 2 * v <= l * h
    BY <2>1, DivDown
  <2> HIDE DEF v
  <2> QED
    BY <1>3, <2>1, <2>2
<1> HIDE DEF l, v
<1>5. q \in Nat /\ p * q <= v
  BY <1>4, DivDown
<1>6. PositionSize(r, e, p) = q
  BY DEF PositionSize, q, v, l, a, h
<1> HIDE DEF q
<1>7. p * q = q * p /\ q * p \in Nat /\ e * SizePct = SizePct * e /\ SizePct * e \in Nat
  BY <1>5, RiskAssumption
<1> QED
  BY <1>2, <1>3, <1>4, <1>5, <1>6, <1>7

(* With room in the plan a position of at most SizePct of the equity e and *)
(* its fee are paid by what k holdings leave of it.                        *)
LEMMA RoomForOne ==
  ASSUME PlanHasRoom,
         NEW e \in Nat, NEW peak \in Nat, e * 100 > peak * (100 - BreakerPct),
         NEW k \in Nat, k < MaxPairs,
         NEW b \in Int, 100 * b <= k * (SizePct * peak),
         NEW c \in Nat, 100 * c <= SizePct * e
  PROVE  c + Fee(c) <= e - b
<1> DEFINE F == 100 * FeeDiv
           spare == F - SizePct * FeeDiv - SizePct
           S == SizePct
           D == FeeDiv
           near == 100 - BreakerPct
           fee == Fee(c)
<1>1. /\ S \in Nat /\ D \in Nat \ {0} /\ near \in Nat /\ MaxPairs \in Nat
      /\ F = 100 * D /\ spare = F - S * D - S /\ spare \in Int
  BY RiskAssumption, PaperAssumption
<1>2. spare >= 0 /\ near * spare >= (MaxPairs - 1) * S * 100 * D
  BY DEF PlanHasRoom
<1>3. fee \in Nat /\ D * fee <= c
  BY DivDown, PaperAssumption DEF Fee
<1>4. e * 100 > peak * near
  OBVIOUS
<1> HIDE DEF S, D, F, spare, near, fee
<1> DEFINE SP == S * peak
<1>5. SP \in Nat
  BY <1>1
<1>6. (e * 100) * spare >= (k * SP) * F
  <2>1. (e * 100) * spare >= (peak * near) * spare
    BY <1>1, <1>2, <1>4
  <2>2. (peak * near) * spare = peak * (near * spare)
    BY <1>1
  <2>3. peak * (near * spare) >= peak * ((MaxPairs - 1) * S * 100 * D)
    <3> DEFINE x == near * spare
               y == (MaxPairs - 1) * S * 100 * D
    <3>1. x \in Int /\ y \in Int /\ x >= y
      BY <1>1, <1>2
    <3> HIDE DEF x, y
    <3>2. peak * x >= peak * y
      BY <3>1
    <3> QED
      BY <3>2 DEF x, y
  <2>4. peak * ((MaxPairs - 1) * S * 100 * D) = ((MaxPairs - 1) * SP) * F
    BY <1>1
  <2>5. ((MaxPairs - 1) * SP) * F >= (k * SP) * F
    <3>1. (MaxPairs - 1) * SP >= k * SP
      BY <1>1, <1>5
    <3> DEFINE x == (MaxPairs - 1) * SP
               y == k * SP
    <3>2. x \in Int /\ y \in Int /\ x >= y /\ F \in Nat
      BY <1>1, <1>5, <3>1
    <3> HIDE DEF x, y, SP
    <3>3. x * F >= y * F
      BY <3>2
    <3> QED
      BY <3>3 DEF x, y
  <2> DEFINE w == (e * 100) * spare
             x == (peak * near) * spare
             y == peak * (near * spare)
             z == peak * ((MaxPairs - 1) * S * 100 * D)
             u == ((MaxPairs - 1) * SP) * F
             v == (k * SP) * F
  <2>6. w \in Int /\ x \in Int /\ y \in Int /\ z \in Int /\ u \in Int /\ v \in Int
    BY <1>1, <1>5
  <2>7. w >= x /\ x = y /\ y >= z /\ z = u /\ u >= v
    BY <2>1, <2>2, <2>3, <2>4, <2>5
  <2> HIDE DEF w, x, y, z, u, v
  <2>8. w >= v
    BY <2>6, <2>7
  <2> QED
    BY <2>8 DEF w, v
<1> HIDE DEF SP
<1>7. (e * 100) * spare >= (100 * b) * F
  <2> DEFINE x == k * SP
             y == 100 * b
  <2>1. x \in Int /\ y \in Int /\ x >= y /\ F \in Nat
    BY <1>1, <1>5 DEF SP, S
  <2> HIDE DEF x, y
  <2>2. x * F >= y * F
    BY <2>1
  <2> DEFINE w == (e * 100) * spare
             u == x * F
             v == y * F
  <2>3. w \in Int /\ u \in Int /\ v \in Int /\ w >= u /\ u >= v
    BY <1>1, <1>6, <2>1, <2>2 DEF x
  <2> HIDE DEF w, u, v
  <2>4. w >= v
    BY <2>3
  <2> QED
    BY <2>4 DEF w, v, y
<1>8. e * spare >= b * F
  <2> DEFINE x == e * spare
             y == b * F
  <2>1. (e * 100) * spare = 100 * x /\ (100 * b) * F = 100 * y /\ x \in Int /\ y \in Int
    BY <1>1
  <2> HIDE DEF x, y
  <2>2. x >= y
    BY <1>7, <2>1
  <2> QED
    BY <2>2 DEF x, y
<1>9. (S * e) * (D + 1) <= (e - b) * F
  <2> DEFINE x == e * F
             y == b * F
             z == (S * e) * D
             u == S * e
  <2>1. e * spare = x - z - u /\ (S * e) * (D + 1) = z + u /\ (e - b) * F = x - y
    BY <1>1
  <2>2. x \in Int /\ y \in Int /\ z \in Int /\ u \in Int
    BY <1>1
  <2>3. e * spare >= y
    BY <1>8
  <2> HIDE DEF x, y, z, u
  <2> QED
    BY <2>1, <2>2, <2>3
<1>10. F * (c + fee) <= (S * e) * (D + 1)
  <2>1. F * (c + fee) <= 100 * (D * c + c)
    <3>1. F * (c + fee) = 100 * (D * c + D * fee)
      BY <1>1, <1>3
    <3> QED
      BY <1>1, <1>3, <3>1
  <2>2. 100 * (D * c + c) = (100 * c) * (D + 1)
    BY <1>1
  <2>3. (100 * c) * (D + 1) <= (S * e) * (D + 1)
    BY <1>1 DEF S
  <2> DEFINE w == F * (c + fee)
             x == 100 * (D * c + c)
             y == (100 * c) * (D + 1)
             z == (S * e) * (D + 1)
  <2>4. w \in Int /\ x \in Int /\ y \in Int /\ z \in Int /\ w <= x /\ x = y /\ y <= z
    BY <1>1, <1>3, <2>1, <2>2, <2>3
  <2> HIDE DEF w, x, y, z
  <2>5. w <= z
    BY <2>4
  <2> QED
    BY <2>5 DEF w, z
<1>11. F * (c + fee) <= F * (e - b)
  <2> DEFINE w == F * (c + fee)
             y == (S * e) * (D + 1)
             z == (e - b) * F
  <2>1. w \in Int /\ y \in Int /\ z \in Int /\ w <= y /\ y <= z /\ z = F * (e - b)
    BY <1>1, <1>3, <1>9, <1>10
  <2> HIDE DEF w, y, z
  <2>2. w <= z
    BY <2>1
  <2> QED
    BY <2>1, <2>2 DEF w
<1>12. F \in Nat \ {0} /\ c + fee \in Int /\ e - b \in Int
  BY <1>1, <1>3
<1> DEFINE m == c + fee
           n == e - b
<1>13. m <= n
  <2>1. m \in Int /\ n \in Int /\ F * m <= F * n
    BY <1>11, <1>12
  <2> HIDE DEF m, n
  <2> QED
    BY <1>12, <2>1
<1> QED
  BY <1>13 DEF fee

(* What a holding cost is at most SizePct of the peak.                     *)
HoldingsWithinShare ==
  \A s \in Symbols : 100 * (held[s].qty * held[s].price) <= SizePct * risk.peak

(* So is the book, once for every open position.                           *)
LEMMA BookWithinShares ==
  ASSUME TypeOK, EngineWithinTracker, BookIsSum, PeakIsPositive, HoldingsWithinShare
  PROVE  100 * book <= Cardinality(Open) * (SizePct * risk.peak)
<1> DEFINE H == {s \in Symbols : Holding(s)}
           most == SizePct * risk.peak
           share == most \div 100
           k == Cardinality(Open)
<1>1. most \in Nat
  BY RiskAssumption DEF PeakIsPositive, TypeOK, RiskState
<1> HIDE DEF most
<1>2. share \in Nat /\ 100 * share <= most /\ \A v \in Int : 100 * v <= most => v <= share
  BY <1>1
<1> HIDE DEF share
<1>3. Ints(Values, H)
  BY ValuesType, PartInts DEF ValuesKnown
<1>4. \A s \in H : Values[s] <= share
  <2> SUFFICES ASSUME NEW s \in H PROVE Values[s] <= share
    OBVIOUS
  <2>1. Values[s] = held[s].qty * held[s].price /\ Values[s] \in Nat
    BY ValuesType DEF ValuesKnown, EngineWithinTracker
  <2>2. 100 * Values[s] <= most
    BY <2>1 DEF HoldingsWithinShare, most
  <2> QED
    BY <1>2, <2>1, <2>2
<1>5. book <= Cardinality(H) * share
  BY <1>2, <1>3, <1>4, SumBounded DEF BookIsSum
<1>6. H \in SUBSET Open
  BY DEF Open, Holding, EngineWithinTracker, TypeOK
<1>7. k \in Nat /\ Cardinality(H) \in Nat /\ Cardinality(H) <= k
  BY <1>6, OpenIsFinite, FS_Subset, FS_CardinalityType
<1> DEFINE n == Cardinality(H)
<1>8. book \in Int /\ n \in Nat /\ n <= k /\ book <= n * share
  BY <1>5, <1>7 DEF TypeOK
<1> HIDE DEF n, H, k
<1>9. 100 * (n * share) <= k * most
  <2>1. 100 * (n * share) = n * (100 * share)
    BY <1>2, <1>8
  <2>2. n * (100 * share) <= n * most
    BY <1>1, <1>2, <1>8
  <2>3. n * most <= k * most
    BY <1>1, <1>7, <1>8
  <2>4. n * (100 * share) \in Int /\ n * most \in Int /\ k * most \in Int
    BY <1>1, <1>2, <1>7, <1>8
  <2> QED
    BY <2>1, <2>2, <2>3, <2>4
<1>10. n * share \in Int /\ k * most \in Int
  BY <1>1, <1>2, <1>7, <1>8
<1> DEFINE x == n * share
           y == k * most
<1>11. book <= x /\ 100 * x <= y /\ x \in Int /\ y \in Int
  BY <1>8, <1>9, <1>10
<1> HIDE DEF x, y
<1>12. 100 * book <= y
  BY <1>8, <1>11
<1> QED
  BY <1>12 DEF y, k, most

(* A BUY is paid in full, and costs at most its share of the new peak.     *)
LEMMA BuyIsPaid ==
  ASSUME PlanHasRoom, TypeOK, NeverOverdrawn, EngineWithinTracker, BookIsSum,
         PeakIsPositive, HoldingsWithinShare,
         NEW s \in Symbols, NEW p \in Prices, SignalBuy(s, p)
  PROVE  /\ BuySize(s, p) \in Nat /\ BuySize(s, p) > 0
         /\ Filled(BuySize(s, p), p) = BuySize(s, p)
         /\ 100 * (BuySize(s, p) * p) <= SizePct * risk'.peak
<1> DEFINE e == EquityAtEntry
           peak == risk'.peak
           q == BuySize(s, p)
           c == q * p
           k == Cardinality(Open)
<1>1. s \notin Open /\ Admitted(s, p) /\ risk' = Assessed(s, p) /\ q > 0 /\ p \in Nat \ {0}
  BY PaperAssumption DEF SignalBuy, Opens
<1>2. held[s].qty = 0
  BY <1>1 DEF Open, EngineWithinTracker, TypeOK
<1>3. EquityAt(s, p) = e /\ e \in Int /\ e = cash + book
  BY <1>1, <1>2, EquityType DEF EquityAt, EquityAtEntry, TypeOK
<1>4. e * 100 > peak * (100 - BreakerPct)
  BY <1>1, <1>3, AdmittedIsSound DEF Admitted, Assessed, TypeOK, PeakIsPositive
<1>5. /\ peak \in Int /\ peak >= risk.peak /\ peak >= e
      /\ risk.peak \in Int /\ risk.peak > 0
  <2>1. peak = Higher(risk.peak, e)
    BY <1>1, <1>3, PeakRises DEF Assessed, TypeOK
  <2>2. risk.peak \in Int /\ risk.peak > 0
    BY DEF PeakIsPositive, TypeOK, RiskState
  <2> QED
    BY <1>3, <2>1, <2>2 DEF Higher
<1>6. k \in Nat /\ k < MaxPairs
  BY OpenIsFinite DEF SignalBuy, Receive, PlanAllows
<1>7. Assessed(s, p) \in RiskState
  BY AssessedType
<1>8. q = PositionSize(Assessed(s, p), e, p)
  BY <1>3 DEF BuySize
<1>9. 100 * book <= k * (SizePct * risk.peak) /\ book \in Int
  BY BookWithinShares DEF TypeOK
<1> HIDE DEF e, peak, q, k
<1>10. e \in Nat
  <2>1. peak * (100 - BreakerPct) >= 0
    BY <1>5, RiskAssumption
  <2> QED
    BY <1>3, <1>4, <1>5, <2>1, RiskAssumption
<1>11. q \in Nat /\ 100 * c <= SizePct * e
  BY <1>1, <1>7, <1>8, <1>10, SizeIsAShare
<1>12. c \in Nat
  BY <1>1, <1>11
<1>13. 100 * book <= k * (SizePct * peak)
  <2> DEFINE x == SizePct * risk.peak
             y == SizePct * peak
  <2>1. x \in Int /\ y \in Int /\ x <= y
    BY <1>5, RiskAssumption
  <2>2. 100 * book <= k * x
    BY <1>9
  <2> HIDE DEF x, y
  <2>3. k * x <= k * y /\ k * x \in Int /\ k * y \in Int
    BY <1>6, <2>1
  <2>4. 100 * book <= k * y
    BY <1>9, <2>2, <2>3
  <2> QED
    BY <2>4 DEF y
<1>14. peak \in Nat
  BY <1>5
<1> HIDE DEF c
<1>15. c + Fee(c) <= e - book
  BY <1>4, <1>6, <1>9, <1>10, <1>11, <1>12, <1>13, <1>14, RoomForOne
<1>16. c + Fee(c) <= cash /\ Fee(c) \in Nat /\ cash \in Int
  BY <1>3, <1>9, <1>12, <1>15, FeeBounds DEF TypeOK
<1>17. Filled(q, p) = q
  BY <1>12, <1>16 DEF Filled, c
<1>18. SizePct * e <= SizePct * peak
  BY <1>5, <1>10, RiskAssumption
<1>19. 100 * c <= SizePct * peak
  BY <1>5, <1>10, <1>11, <1>12, <1>18, RiskAssumption
<1> QED
  BY <1>1, <1>11, <1>17, <1>19 DEF q, c, peak

(* With room in the plan every order of the session is filled in full,     *)
(* whatever the prices, the levels and the days: tracker and engine agree. *)
THEOREM RoomyPlansAreFilled == PlanHasRoom => (Spec => []FilledInFull)
<1> SUFFICES ASSUME PlanHasRoom PROVE Spec => []FilledInFull
  OBVIOUS
<1>1. Init => FilledInFull /\ HoldingsWithinShare
  <2> SUFFICES ASSUME Init PROVE FilledInFull /\ HoldingsWithinShare
    OBVIOUS
  <2>1. risk.peak \in Nat /\ \A s \in Symbols : held[s] = NoHolding /\ tracked[s] = NoPosition
    BY RiskAssumption DEF Init, FreshRisk
  <2> QED
    BY <2>1, RiskAssumption
    DEF FilledInFull, HoldingsWithinShare, NoHolding, NoPosition
<1>2. /\ TypeOK /\ NeverOverdrawn /\ EngineWithinTracker /\ BookIsSum /\ PeakIsPositive
      /\ FilledInFull /\ HoldingsWithinShare /\ [Next]_vars
      => FilledInFull' /\ HoldingsWithinShare'
  <2> SUFFICES ASSUME TypeOK, NeverOverdrawn, EngineWithinTracker, BookIsSum,
                      PeakIsPositive, FilledInFull, HoldingsWithinShare, [Next]_vars
               PROVE  FilledInFull' /\ HoldingsWithinShare'
    OBVIOUS
  <2>0. /\ risk'.peak \in Int /\ risk'.peak >= risk.peak /\ risk.peak \in Int
        /\ SizePct * risk.peak <= SizePct * risk'.peak
        /\ SizePct * risk.peak \in Int /\ SizePct * risk'.peak \in Int
    <3>1. risk'.peak \in Int /\ risk'.peak >= risk.peak /\ risk.peak \in Int
      BY PeakNeverFalls DEF TypeOK, RiskState
    <3> QED
      BY <3>1, RiskAssumption
  <2>1. ASSUME NEW x \in Symbols, held'[x] = held[x]
        PROVE  100 * (held'[x].qty * held'[x].price) <= SizePct * risk'.peak
    <3> DEFINE v == held[x].qty * held[x].price
    <3>1. v \in Int /\ 100 * v <= SizePct * risk.peak
      BY DEF TypeOK, HoldingsWithinShare
    <3> HIDE DEF v
    <3>2. 100 * v <= SizePct * risk'.peak
      BY <2>0, <3>1
    <3> QED
      BY <2>1, <3>2 DEF v
  <2>2. ASSUME NEW s \in Symbols, NEW p \in Prices, SignalBuy(s, p)
        PROVE  FilledInFull' /\ HoldingsWithinShare'
    <3> DEFINE q == BuySize(s, p)
    <3>1. /\ q \in Nat /\ q > 0 /\ Filled(q, p) = q
          /\ 100 * (q * p) <= SizePct * risk'.peak
      BY <2>2, BuyIsPaid
    <3>2. /\ EngineBuy(s, q, p) /\ p \in Nat
          /\ tracked' = [tracked EXCEPT ![s] = [qty |-> q, entry |-> p, pnl |-> 0]]
      BY <2>2, <3>1, PaperAssumption DEF SignalBuy
    <3> HIDE DEF q
    <3>3. held' = [held EXCEPT ![s] = [qty |-> q, price |-> p]]
      BY <3>1, <3>2 DEF EngineBuy
    <3>4. /\ held'[s] = [qty |-> q, price |-> p] /\ tracked'[s].qty = q
          /\ \A x \in Symbols \ {s} : held'[x] = held[x] /\ tracked'[x] = tracked[x]
      BY <3>2, <3>3 DEF TypeOK
    <3>5. FilledInFull'
      BY <3>4 DEF FilledInFull
    <3>6. HoldingsWithinShare'
      BY <2>1, <3>1, <3>4 DEF HoldingsWithinShare
    <3> QED
      BY <3>5, <3>6
  <2>3. ASSUME NEW t \in Tasks, NEW s \in Open, NEW p \in Nat,
               NEW todo \in SUBSET (Symbols \X Nat), Close(t, s, p, todo)
        PROVE  FilledInFull' /\ HoldingsWithinShare'
    <3>1. /\ held' = [held EXCEPT ![s] = NoHolding]
          /\ tracked' = [tracked EXCEPT ![s] = NoPosition] /\ s \in Symbols
      BY <2>3 DEF Close, EngineSell, Open
    <3>2. /\ held'[s] = NoHolding /\ tracked'[s] = NoPosition
          /\ \A x \in Symbols \ {s} : held'[x] = held[x] /\ tracked'[x] = tracked[x]
      BY <3>1 DEF TypeOK
    <3>3. FilledInFull'
      BY <3>2 DEF FilledInFull, NoHolding, NoPosition
    <3>4. 0 <= SizePct * risk'.peak
      BY <2>0, RiskAssumption DEF PeakIsPositive
    <3>5. 100 * (held'[s].qty * held'[s].price) = 0
      BY <3>2 DEF NoHolding
    <3>6. HoldingsWithinShare'
      BY <2>1, <3>2, <3>4, <3>5 DEF HoldingsWithinShare
    <3> QED
      BY <3>3, <3>6
  <2>4. ASSUME UNCHANGED <<engineVars, trackerVars>>
        PROVE  FilledInFull' /\ HoldingsWithinShare'
    BY <2>1, <2>4 DEF engineVars, trackerVars, FilledInFull, HoldingsWithinShare
  <2> QED
    BY <2>2, <2>3, <2>4, StepCases
<1> QED
  BY <1>1, <1>2, TypeCorrect, PaperMoneyIsNeverOverdrawn, EngineStaysWithinTracker,
     BookStaysTheSum, PeakStaysPositive, PTL
  DEF Spec

(* So no money appears or vanishes in it.                                  *)
THEOREM RoomyPlansConserveMoney == PlanHasRoom => (Spec => []MoneyConserved)
<1> SUFFICES ASSUME PlanHasRoom PROVE Spec => []MoneyConserved
  OBVIOUS
<1>1. Spec => []FilledInFull
  BY RoomyPlansAreFilled
<1> QED
  BY <1>1, MoneyIsConserved, PTL

(* And it is the account of PaperLedger.                                   *)
THEOREM RoomyPlansAreLedgers == PlanHasRoom => (Spec => ImplementsLedger)
<1> SUFFICES ASSUME PlanHasRoom PROVE Spec => ImplementsLedger
  OBVIOUS
<1>1. Spec => []FilledInFull
  BY RoomyPlansAreFilled
<1> QED
  BY <1>1, SessionIsALedger, PTL

(* And its SELL orders fill what the engine holds, which the run phantom   *)
(* shows to fail for a plan of more pairs.                                 *)
THEOREM RoomyPlansSellWhatIsHeld == PlanHasRoom => (Spec => SellsWhatIsHeld)
<1> SUFFICES ASSUME PlanHasRoom PROVE Spec => SellsWhatIsHeld
  OBVIOUS
<1>1. Spec => []FilledInFull
  BY RoomyPlansAreFilled
<1>2. FilledInFull => [\A s \in Open \ Open' : tracked[s].qty = held[s].qty]_vars
  BY DEF FilledInFull, Open
<1> QED
  BY <1>1, <1>2, PTL DEF SellsWhatIsHeld

(* At the shares of the code, 10 % a position, a breaker at 10 % and a fee *)
(* of one in a thousand, there is room for nine pairs: the three of the    *)
(* basic plan, and not the ten of the next.                                *)
LEMMA NinePairsFit ==
  ASSUME SizePct = 10, BreakerPct = 10, FeeDiv = 1000
  PROVE  PlanHasRoom <=> MaxPairs <= 9
BY PaperAssumption DEF PlanHasRoom

==============================================================================
