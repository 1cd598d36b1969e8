-------------------------- MODULE LiveTradingProofs --------------------------
(***************************************************************************)
(* Proofs about LiveTrading: its types, and that a BUY leaves the handler  *)
(* only where it is allowed at that moment.                                *)
(***************************************************************************)
EXTENDS LiveTrading, TLAPS

(* Frames and replies.                                                     *)

LEMMA PendingIsAReply == Pending \in Reply
  BY DEF Pending, Reply, Nothing

LEMMA IdleIsAFrame == Idle \in TaskState
  BY PendingIsAReply DEF Idle, TaskState, Places

LEMMA AtTyped ==
  ASSUME task \in [Tasks -> TaskState], NEW t \in Tasks, NEW place \in Places
  PROVE  At(t, place) \in [Tasks -> TaskState]
<1>1. [task[t] EXCEPT !.at = place, !.reply = Pending] \in TaskState
  BY PendingIsAReply DEF TaskState
<1> QED  BY <1>1, IdleIsAFrame DEF At

LEMMA AtSymbolTyped ==
  ASSUME task \in [Tasks -> TaskState], NEW t \in Tasks, NEW place \in Places,
         NEW s \in Symbols \cup {NoSymbol}, NEW q \in Nat, NEW todo \in SUBSET Symbols
  PROVE  AtSymbol(t, place, s, q, todo) \in [Tasks -> TaskState]
<1>1. [at |-> place, sym |-> s, qty |-> q, todo |-> todo, reply |-> Pending]
        \in TaskState
  BY PendingIsAReply DEF TaskState
<1> QED  BY <1>1 DEF AtSymbol

LEMMA ReplyTyped ==
  ASSUME task \in [Tasks -> TaskState], NEW t \in Tasks, NEW r \in Reply
  PROVE  [task EXCEPT ![t].reply = r] \in [Tasks -> TaskState]
<1>1. [task[t] EXCEPT !.reply = r] \in TaskState
  BY DEF TaskState
<1> QED  BY <1>1

LEMMA TodoTyped ==
  ASSUME task \in [Tasks -> TaskState], NEW t \in Tasks, NEW todo \in SUBSET Symbols
  PROVE  [task EXCEPT ![t].todo = todo] \in [Tasks -> TaskState]
<1>1. [task[t] EXCEPT !.todo = todo] \in TaskState
  BY DEF TaskState
<1> QED  BY <1>1

LEMMA FrameFields ==
  ASSUME task \in [Tasks -> TaskState], NEW t \in Tasks
  PROVE  /\ task[t].at \in Places
         /\ task[t].sym \in Symbols \cup {NoSymbol}
         /\ task[t].qty \in Nat
         /\ task[t].todo \in SUBSET Symbols
         /\ task[t].reply \in Reply
         /\ task[t].reply.got \in Int
         /\ task[t].reply.seen \in [Symbols -> Int]
<1>1. task[t] \in TaskState
  OBVIOUS
<1>2. task[t].reply \in Reply
  BY <1>1 DEF TaskState
<1> QED  BY <1>1, <1>2 DEF TaskState, Reply

LEMMA PlacesKnown ==
  /\ {"rest", "sizing", "settling", "balance", "diffing", "recovering",
      "leveraging", "buying", "selling", "checking", "markets", "closing", "dropping", "dead"} \subseteq Places
  BY DEF Places, Call

------------------------------------------------------------------------------
(* The risk rules.                                                         *)

LEMMA LevelTyped ==
  ASSUME risk \in RiskState, NEW level
  PROVE  SetMarketStatus(risk, level) \in RiskState
  BY DEF SetMarketStatus, RiskState

LEMMA BalanceUpdateTyped ==
  ASSUME NEW r \in RiskState, NEW balance \in Int
  PROVE  UpdateBalance(r, balance) \in RiskState
<1> DEFINE start == IF r.newDay \/ r.dayStart = NoBalance THEN balance ELSE r.dayStart
           peak  == Higher(r.peak, balance)
<1>1. start \in Int /\ peak \in Int
  BY DEF RiskState, Higher
<1>2. (balance * 100 <= peak * (100 - BreakerPct)) \in BOOLEAN
  OBVIOUS
<1> HIDE DEF start, peak
<1>3. [r EXCEPT !.newDay = FALSE, !.last = balance, !.dayStart = start, !.peak = peak,
                !.breaker = (balance * 100 <= peak * (100 - BreakerPct))] \in RiskState
  BY <1>1, <1>2 DEF RiskState
<1> QED  BY <1>3 DEF UpdateBalance, start, peak

LEMMA BalanceTyped ==
  ASSUME task \in [Tasks -> TaskState], known \in Int, NEW t \in Tasks
  PROVE  Balance(t) \in Int
  BY FrameFields DEF Balance

(* The size of a position is a number, and nothing at a level that does    *)
(* not allow one.                                                          *)
LEMMA SizeTyped ==
  ASSUME NEW r \in RiskState, NEW balance \in Int
  PROVE  PositionSize(r, balance, 1) \in Int
<1>1. (balance * SizePct) \div 100 \in Int
  BY RiskAssumption
<1>2. Lower(MaxPosition, (balance * SizePct) \div 100) \in Int
  BY <1>1, RiskAssumption DEF Lower
<1>3. SizeHalves(r.level) \in Int
  BY DEF SizeHalves
<1> QED  BY <1>2, <1>3 DEF PositionSize

LEMMA NoSizeAtAlarm ==
  ASSUME NEW r \in RiskState, NEW balance \in Int, ~CanOpenAt(r.level)
  PROVE  PositionSize(r, balance, 1) = 0
<1>1. (balance * SizePct) \div 100 \in Int
  BY RiskAssumption
<1>2. Lower(MaxPosition, (balance * SizePct) \div 100) \in Int
  BY <1>1, RiskAssumption DEF Lower
<1>3. SizeHalves(r.level) = 0
  BY DEF SizeHalves, CanOpenAt
<1> QED  BY <1>2, <1>3 DEF PositionSize

------------------------------------------------------------------------------
(* Types.                                                                  *)

LEMMA SymbolsReplaced ==
  ASSUME NEW f \in [Symbols -> Int], NEW s, NEW n \in Int
  PROVE  [f EXCEPT ![s] = n] \in [Symbols -> Int]
  OBVIOUS

LEMMA FillTyped ==
  ASSUME usdt \in Int, account \in [Symbols -> Int],
         NEW op, NEW s \in Symbols, NEW q \in Nat, Fill(op, s, q)
  PROVE  usdt' \in Int /\ account' \in [Symbols -> Int]
<1>1. Signed(op, q) \in Int
  BY DEF Signed
<1>2. account[s] + Signed(op, q) \in Int
  BY <1>1
<1>3. account' = [account EXCEPT ![s] = account[s] + Signed(op, q)]
  BY DEF Fill
<1>4. account' \in [Symbols -> Int]
  BY <1>2, <1>3
<1>5. usdt' = IF Futures THEN usdt ELSE usdt - Signed(op, q)
  BY DEF Fill
<1> QED  BY <1>1, <1>4, <1>5

LEMMA FailsTyped ==
  ASSUME task \in [Tasks -> TaskState], NEW t \in Tasks, Fails(t)
  PROVE  task' \in [Tasks -> TaskState]
<1>1. task[t].reply \in Reply
  BY FrameFields
<1>2. [task[t].reply EXCEPT !.answer = "failed"] \in Reply
  BY <1>1 DEF Reply
<1> QED  BY <1>2, ReplyTyped DEF Fails

LEMMA AnswersTyped ==
  ASSUME usdt \in Int, account \in [Symbols -> Int],
         task \in [Tasks -> TaskState], NEW t \in Tasks, Answers(t)
  PROVE  task' \in [Tasks -> TaskState]
<1>1. SwapPositions \in [Symbols -> Int]
  BY DEF SwapPositions, Nothing
<1>2. [answer |-> "ok", got |-> usdt, seen |-> SwapPositions] \in Reply
  BY <1>1 DEF Reply
<1> QED  BY <1>2, ReplyTyped DEF Answers

LEMMA FreshTyped ==
  /\ FreshRisk \in RiskState
  /\ [t \in Tasks |-> IF t = "validate" THEN [Idle EXCEPT !.at = "checking"]
                                        ELSE Idle] \in [Tasks -> TaskState]
  /\ Nothing \in [Symbols -> Int]
<1>1. FreshRisk \in RiskState
  BY RiskAssumption DEF FreshRisk, RiskState, Levels, NoBalance
<1>2. [Idle EXCEPT !.at = "checking"] \in TaskState
  BY IdleIsAFrame, PlacesKnown DEF TaskState
<1> QED  BY <1>1, <1>2, IdleIsAFrame DEF Nothing

(* An order is for a symbol: the frames of its calls carry one.            *)
OrdersAreForSymbols ==
  \A t \in Tasks :
    task[t].at \in {"sizing", "leveraging", "buying", "selling"} =>
      task[t].sym \in Symbols

TypeInv == TypeOK /\ OrdersAreForSymbols

LEMMA InitTyped == Init => TypeInv
<1> SUFFICES ASSUME Init PROVE TypeInv
  OBVIOUS
<1>1. account \in [Symbols -> Int]
  BY LiveAssumption DEF Init
<1>2. risk \in RiskState /\ task \in [Tasks -> TaskState] /\ tracked \in [Symbols -> Int]
  BY FreshTyped DEF Init
<1>3. usdt \in Int /\ cooling \subseteq Symbols /\ known \in Int
  BY LiveAssumption DEF Init
<1>3a. created \in BOOLEAN
  BY Zenon DEF Init
<1>4. spent \in [signals : Nat, faults : Nat, stops : Nat, crashes : Nat]
  BY DEF Init
<1>5. OrdersAreForSymbols
  BY DEF Init, OrdersAreForSymbols, Idle
<1> QED  BY <1>1, <1>2, <1>3, <1>3a, <1>4, <1>5 DEF TypeInv, TypeOK

(* An action that leaves the frames alone but for one task t.              *)
LEMMA OrdersKept ==
  ASSUME OrdersAreForSymbols, task \in [Tasks -> TaskState], NEW t \in Tasks,
         task' \in [Tasks -> TaskState],
         \A u \in Tasks \ {t} : task'[u] = task[u],
         task'[t].at \in {"sizing", "leveraging", "buying", "selling"} => task'[t].sym \in Symbols
  PROVE  OrdersAreForSymbols'
  BY DEF OrdersAreForSymbols

LEMMA AtKeepsOrders ==
  ASSUME OrdersAreForSymbols, task \in [Tasks -> TaskState], NEW t \in Tasks,
         NEW place \in Places \ {"sizing", "leveraging", "buying", "selling"},
         task' = At(t, place)
  PROVE  OrdersAreForSymbols' /\ task' \in [Tasks -> TaskState]
<1>1. task' \in [Tasks -> TaskState]
  BY AtTyped
<1>2. task'[t] = IF place = "rest" THEN Idle
                 ELSE [task[t] EXCEPT !.at = place, !.reply = Pending]
  BY DEF At
<1>3. task[t] \in TaskState
  OBVIOUS
<1>4. task'[t].at = place
  BY <1>2, <1>3 DEF Idle, TaskState
<1>5. \A u \in Tasks \ {t} : task'[u] = task[u]
  BY DEF At
<1> QED  BY <1>1, <1>4, <1>5, OrdersKept

LEMMA AtSymbolKeepsOrders ==
  ASSUME OrdersAreForSymbols, task \in [Tasks -> TaskState], NEW t \in Tasks,
         NEW place \in Places, NEW s \in Symbols, NEW q \in Nat,
         NEW todo \in SUBSET Symbols,
         task' = AtSymbol(t, place, s, q, todo)
  PROVE  OrdersAreForSymbols' /\ task' \in [Tasks -> TaskState]
<1>1. task' \in [Tasks -> TaskState]
  BY AtSymbolTyped
<1>2. task'[t].sym = s /\ \A u \in Tasks \ {t} : task'[u] = task[u]
  BY DEF AtSymbol
<1> QED  BY <1>1, <1>2, OrdersKept

LEMMA RepliesKeepOrders ==
  ASSUME OrdersAreForSymbols, task \in [Tasks -> TaskState], NEW t \in Tasks,
         NEW r \in Reply, task' = [task EXCEPT ![t].reply = r]
  PROVE  OrdersAreForSymbols' /\ task' \in [Tasks -> TaskState]
<1>1. task' \in [Tasks -> TaskState]
  BY ReplyTyped
<1>2. task'[t].at = task[t].at /\ task'[t].sym = task[t].sym
  BY DEF TaskState
<1>3. \A u \in Tasks \ {t} : task'[u] = task[u]
  OBVIOUS
<1> QED  BY <1>1, <1>2, <1>3, OrdersKept DEF OrdersAreForSymbols

LEMMA QuantityTyped ==
  ASSUME tracked \in [Symbols -> Int], NEW s \in Symbols
  PROVE  Size(tracked[s]) \in Nat
  BY DEF Size

LEMMA TrackedSymbols ==
  /\ Open \subseteq Symbols
  /\ \A t \in Tasks : Missing(t) \subseteq Symbols
  /\ ToClose \subseteq Symbols
  BY DEF Open, Missing, ToClose

LEMMA StepTyped == TypeInv /\ [Next]_vars => TypeInv'
<1> SUFFICES ASSUME TypeInv, [Next]_vars PROVE TypeInv'
  OBVIOUS
<1> USE DEF accountVars
<1>ty. /\ usdt \in Int
       /\ account \in [Symbols -> Int]
       /\ created \in BOOLEAN
       /\ tracked \in [Symbols -> Int]
       /\ risk \in RiskState
       /\ cooling \subseteq Symbols
       /\ known \in Int
       /\ task \in [Tasks -> TaskState]
       /\ spent \in [signals : Nat, faults : Nat, stops : Nat, crashes : Nat]
       /\ OrdersAreForSymbols
  BY DEF TypeInv, TypeOK
<1>ts. {"signal", "monitor", "validate"} = Tasks
  BY DEF Tasks
<1>k. /\ UNCHANGED <<usdt, account, created, tracked, risk, cooling, known, spent>>
      /\ task' \in [Tasks -> TaskState] /\ OrdersAreForSymbols'
      => TypeInv'
  BY <1>ty DEF TypeInv, TypeOK
<1>1. ASSUME NEW s \in Symbols, BuySignal(s) PROVE TypeInv'
  <2>1. task' \in [Tasks -> TaskState] /\ OrdersAreForSymbols'
    <3>1. task' = AtSymbol("signal", "sizing", s, 0, {})
      BY <1>1 DEF BuySignal
    <3>2. 0 \in Nat /\ {} \in SUBSET Symbols /\ "sizing" \in Places /\ "signal" \in Tasks
      BY PlacesKnown, <1>ts
    <3> QED  BY <3>1, <3>2, <1>ty, AtSymbolKeepsOrders
  <2>2. spent' \in [signals : Nat, faults : Nat, stops : Nat, crashes : Nat]
    BY <1>1, <1>ty DEF BuySignal, Spend
  <2> QED  BY <1>1, <1>ty, <2>1, <2>2 DEF BuySignal, TypeInv, TypeOK
<1>2. ASSUME NEW s \in Symbols, SellSignal(s) PROVE TypeInv'
  <2>1. task' \in [Tasks -> TaskState] /\ OrdersAreForSymbols'
    <3>1. task' = AtSymbol("signal", "selling", s, Size(tracked[s]), {})
      BY <1>2 DEF SellSignal
    <3>2. /\ Size(tracked[s]) \in Nat /\ {} \in SUBSET Symbols
          /\ "selling" \in Places /\ "signal" \in Tasks
      BY <1>ty, PlacesKnown, <1>ts, QuantityTyped
    <3> QED  BY <3>1, <3>2, <1>ty, AtSymbolKeepsOrders
  <2>2. spent' \in [signals : Nat, faults : Nat, stops : Nat, crashes : Nat]
    BY <1>2, <1>ty DEF SellSignal, Spend
  <2> QED  BY <1>2, <1>ty, <2>1, <2>2 DEF SellSignal, TypeInv, TypeOK
<1>3. CASE Sized
  <2> DEFINE q == PositionSize(risk, Balance("signal"), 1)
             s == task["signal"].sym
  <2>1. known' \in Int
    BY <1>3, <1>ty, <1>ts, BalanceTyped DEF Sized, Learn
  <2>2. s \in Symbols
    BY <1>3, <1>ty, <1>ts DEF Sized, Answered, OrdersAreForSymbols
  <2>3. CASE q > 0 /\ ValidOrder(q)
    <3>1. q \in Nat
      <4>1. q \in Int
        BY <1>ty, <1>ts, BalanceTyped, SizeTyped
      <4> HIDE DEF q
      <4> QED  BY <2>3, <4>1
    <3>2. task' = AtSymbol("signal", AfterSizing, s, q, {})
      BY <1>3, <2>3 DEF Sized
    <3>3. UNCHANGED <<usdt, account, created, tracked, risk, cooling, spent>>
      BY <1>3 DEF Sized
    <3> HIDE DEF q, s
    <3>4. {} \in SUBSET Symbols /\ AfterSizing \in Places /\ "signal" \in Tasks
      BY PlacesKnown, <1>ts DEF AfterSizing
    <3>5. task' \in [Tasks -> TaskState] /\ OrdersAreForSymbols'
      BY <2>2, <3>1, <3>2, <3>4, <1>ty, AtSymbolKeepsOrders
    <3> QED  BY <3>3, <3>5, <1>ty, <2>1 DEF TypeInv, TypeOK
  <2>4. CASE ~(q > 0 /\ ValidOrder(q))
    <3>1. task' = At("signal", "rest")
      BY <1>3, <2>4 DEF Sized
    <3> QED  BY <3>1, <1>ty, <1>ts, AtKeepsOrders, PlacesKnown, <2>1, <1>3
             DEF Sized, TypeInv, TypeOK
  <2> QED  BY <2>3, <2>4
<1>3a. CASE Leveraged
  <2>1. task["signal"].sym \in Symbols /\ task["signal"] \in TaskState
    BY <1>3a, <1>ty, <1>ts DEF Leveraged, Answered, OrdersAreForSymbols
  <2>2. task' = At("signal", "buying")
    BY <1>3a DEF Leveraged
  <2>3. task' \in [Tasks -> TaskState]
    BY <2>2, <1>ty, <1>ts, AtTyped, PlacesKnown
  <2>4. task'["signal"].sym \in Symbols /\ \A u \in Tasks \ {"signal"} : task'[u] = task[u]
    BY <2>1, <2>2, <1>ty, <1>ts DEF At, TaskState
  <2>5. OrdersAreForSymbols'
    BY <2>3, <2>4, <1>ty, <1>ts, OrdersKept
  <2> QED  BY <1>3a, <1>k, <2>3, <2>5 DEF Leveraged
<1>4. CASE Bought
  <2> DEFINE s == task["signal"].sym
  <2>1. s \in Symbols
    BY <1>4, <1>ty, <1>ts DEF Bought, Answered, OrdersAreForSymbols
  <2>2. tracked' \in [Symbols -> Int] /\ cooling' \subseteq Symbols
    BY <1>4, <1>ty, <1>ts, <2>1, FrameFields DEF Bought
  <2>3. task' \in [Tasks -> TaskState] /\ OrdersAreForSymbols'
    BY <1>4, <1>ty, <1>ts, AtKeepsOrders, PlacesKnown DEF Bought
  <2> QED  BY <1>4, <1>ty, <2>2, <2>3 DEF Bought, TypeInv, TypeOK
<1>5. ASSUME NEW t \in Tasks, SellFailed(t) PROVE TypeInv'
  <2>1. task' \in [Tasks -> TaskState] /\ OrdersAreForSymbols'
    <3>1. PICK place \in {"dead", "rest"} : task' = At(t, place)
      BY <1>5 DEF SellFailed
    <3> QED  BY <3>1, <1>ty, AtKeepsOrders, PlacesKnown
  <2> QED  BY <1>5, <1>k, <2>1 DEF SellFailed
<1>6. ASSUME NEW t \in Tasks, Sold(t) PROVE TypeInv'
  <2>1. task' \in [Tasks -> TaskState] /\ OrdersAreForSymbols'
    <3>1. PICK place \in {"closing", "rest", "settling"} : task' = At(t, place)
      BY <1>6 DEF Sold, AfterSell
    <3> QED  BY <3>1, <1>ty, AtKeepsOrders, PlacesKnown
  <2>2. tracked' \in [Symbols -> Int]
    <3>1. 0 \in Int /\ tracked' = [tracked EXCEPT ![task[t].sym] = 0]
      BY <1>6 DEF Sold
    <3> QED  BY <3>1, <1>ty, SymbolsReplaced
  <2> QED  BY <1>6, <1>ty, <2>1, <2>2 DEF Sold, TypeInv, TypeOK
<1>7. ASSUME NEW t \in Tasks, Settled(t) PROVE TypeInv'
  <2>1. task' \in [Tasks -> TaskState] /\ OrdersAreForSymbols'
    <3>1. PICK place \in {"closing", "rest"} : task' = At(t, place)
      BY <1>7 DEF Settled, AfterSell
    <3> QED  BY <3>1, <1>ty, AtKeepsOrders, PlacesKnown
  <2>2. risk' \in RiskState /\ known' \in Int
    BY <1>7, <1>ty, BalanceTyped, BalanceUpdateTyped DEF Settled, Learn
  <2> QED  BY <1>7, <1>ty, <2>1, <2>2 DEF Settled, TypeInv, TypeOK
<1>8. ASSUME NEW todo \in SUBSET Symbols, SellNext(todo)
      PROVE  task' \in [Tasks -> TaskState] /\ OrdersAreForSymbols'
  <2>1. CASE todo \cap Open = {}
    <3>1. PICK place \in {"balance", "rest"} : task' = At("monitor", place)
      BY <1>8, <2>1 DEF SellNext
    <3> QED  BY <3>1, <1>ty, <1>ts, AtKeepsOrders, PlacesKnown
  <2>2. CASE todo \cap Open # {}
    <3>1. PICK s \in todo \cap Open :
            task' = AtSymbol("monitor", "selling", s, Size(tracked[s]), todo \ {s})
      BY <1>8, <2>2 DEF SellNext
    <3>2. s \in Symbols /\ todo \ {s} \in SUBSET Symbols /\ Size(tracked[s]) \in Nat
      BY <1>ty, QuantityTyped
    <3> QED  BY <3>1, <3>2, <1>ty, <1>ts, AtSymbolKeepsOrders, PlacesKnown
  <2> QED  BY <2>1, <2>2
<1>9. CASE Tick
  BY <1>9, <1>k, <1>8, TrackedSymbols DEF Tick
<1>10. CASE SellOn
  BY <1>10, <1>k, <1>8, <1>ty, <1>ts, FrameFields DEF SellOn
<1>11. CASE Balanced
  <2>1. task' \in [Tasks -> TaskState] /\ OrdersAreForSymbols'
    BY <1>11, <1>ty, <1>ts, AtKeepsOrders, PlacesKnown DEF Balanced
  <2>2. risk' \in RiskState /\ known' \in Int
    BY <1>11, <1>ty, <1>ts, BalanceTyped, BalanceUpdateTyped DEF Balanced, Learn
  <2> QED  BY <1>11, <1>ty, <2>1, <2>2 DEF Balanced, TypeInv, TypeOK
<1>12. CASE Diffed
  <2>1. CASE Ok("monitor")
    <3>1. task' = AtSymbol("monitor", "dropping", NoSymbol, 0, Missing("monitor"))
      BY <1>12, <2>1 DEF Diffed
    <3>2. task' \in [Tasks -> TaskState]
      BY <3>1, <1>ty, <1>ts, AtSymbolTyped, PlacesKnown, TrackedSymbols
    <3>3. task'["monitor"].at = "dropping" /\ \A u \in Tasks \ {"monitor"} : task'[u] = task[u]
      BY <3>1, <1>ty, <1>ts DEF AtSymbol
    <3>4. OrdersAreForSymbols'
      BY <3>2, <3>3, <1>ty, <1>ts, OrdersKept
    <3> QED  BY <1>12, <1>k, <3>2, <3>4 DEF Diffed
  <2>2. CASE ~Ok("monitor")
    <3>1. task' = At("monitor", "rest")
      BY <1>12, <2>2 DEF Diffed
    <3> QED  BY <3>1, <1>12, <1>k, <1>ty, <1>ts, AtKeepsOrders, PlacesKnown DEF Diffed
  <2> QED  BY <2>1, <2>2
<1>13. ASSUME NEW s \in Symbols, Drop(s) PROVE TypeInv'
  <2>1. tracked' \in [Symbols -> Int]
    BY <1>13, <1>ty DEF Drop
  <2>2. task' \in [Tasks -> TaskState]
    BY <1>13, <1>ty, <1>ts, TodoTyped, FrameFields DEF Drop
  <2>3. OrdersAreForSymbols'
    BY <1>13, <1>ty, <1>ts, <2>2 DEF Drop, OrdersAreForSymbols, TaskState
  <2> QED  BY <1>13, <1>ty, <2>1, <2>2, <2>3 DEF Drop, TypeInv, TypeOK
<1>14. CASE Dropped
  BY <1>14, <1>k, <1>ty, <1>ts, AtKeepsOrders, PlacesKnown DEF Dropped
<1>15. ASSUME NEW t \in Tasks, Recovered(t) PROVE TypeInv'
  <2>1. tracked' \in [Symbols -> Int]
    BY <1>15, <1>ty, FrameFields DEF Recovered
  <2>2. task' \in [Tasks -> TaskState] /\ OrdersAreForSymbols'
    BY <1>15, <1>ty, AtKeepsOrders, PlacesKnown DEF Recovered
  <2> QED  BY <1>15, <1>ty, <2>1, <2>2 DEF Recovered, TypeInv, TypeOK
<1>16. CASE Validated
  <2>1. task' \in [Tasks -> TaskState] /\ OrdersAreForSymbols'
    <3>1. PICK place \in {"markets", "rest"} : task' = At("validate", place)
      BY <1>16 DEF Validated
    <3> QED  BY <3>1, <1>ty, <1>ts, AtKeepsOrders, PlacesKnown
  <2>2. created' \in BOOLEAN
    BY <1>16, Zenon DEF Validated, Ok
  <2> QED  BY <1>16, <1>ty, <2>1, <2>2 DEF Validated, TypeInv, TypeOK
<1>17. CASE MarketsLoaded
  BY <1>17, <1>k, <1>ty, <1>ts, AtKeepsOrders, PlacesKnown DEF MarketsLoaded
<1>18. ASSUME NEW t \in Tasks, Serve(t) \/ Fault(t) PROVE TypeInv'
  <2> DEFINE op == Call[task[t].at]
             s  == task[t].sym
             q  == task[t].qty
  <2>1. op \in {"buy", "sell"} /\ Waiting(t) => s \in Symbols
    BY <1>ty DEF Waiting, Call, OrdersAreForSymbols
  <2>2. q \in Nat
    BY <1>ty, FrameFields
  <2>3. task' \in [Tasks -> TaskState] /\ OrdersAreForSymbols'
    <3>1. Fails(t) \/ Answers(t)
      BY <1>18 DEF Serve, Fault
    <3>2. PICK r \in Reply : task' = [task EXCEPT ![t].reply = r]
      <4>1. CASE Fails(t)
        <5>1. [task[t].reply EXCEPT !.answer = "failed"] \in Reply
          BY <1>ty, FrameFields DEF Reply
        <5> QED  BY <4>1, <5>1 DEF Fails
      <4>2. CASE Answers(t)
        <5>1. SwapPositions \in [Symbols -> Int]
          BY <1>ty DEF SwapPositions, Nothing
        <5>2. [answer |-> "ok", got |-> usdt, seen |-> SwapPositions] \in Reply
          BY <1>ty, <5>1 DEF Reply
        <5> QED  BY <4>2, <5>2 DEF Answers
      <4> QED  BY <3>1, <4>1, <4>2
    <3> QED  BY <3>2, <1>ty, RepliesKeepOrders
  <2>4. (op \in {"buy", "sell"} /\ Waiting(t) /\ Fill(op, s, q)) \/ UNCHANGED accountVars
    BY <1>18 DEF Serve, Fault
  <2>5. usdt' \in Int /\ account' \in [Symbols -> Int]
    <3> HIDE DEF op, s, q
    <3> QED  BY <2>1, <2>2, <2>4, <1>ty, FillTyped
  <2>6. spent' \in [signals : Nat, faults : Nat, stops : Nat, crashes : Nat]
    BY <1>18, <1>ty DEF Serve, Fault, Spend
  <2>7. UNCHANGED <<created, tracked, risk, cooling, known>>
    BY <1>18 DEF Serve, Fault
  <2> QED  BY <1>ty, <2>3, <2>5, <2>6, <2>7 DEF TypeInv, TypeOK
<1>19. CASE World
  <2>1. ASSUME NEW level \in Published, MarketStatus(level) PROVE TypeInv'
    <3>1. risk' \in RiskState
      BY <2>1, <1>ty, LevelTyped DEF MarketStatus
    <3> QED  BY <2>1, <3>1, <1>ty DEF MarketStatus, TypeInv, TypeOK, OrdersAreForSymbols
  <2>2. ASSUME NEW s \in Symbols, CooldownOver(s) PROVE TypeInv'
    BY <2>2, <1>ty DEF CooldownOver, TypeInv, TypeOK, OrdersAreForSymbols
  <2>3. ASSUME NEW s \in Symbols, ExchangeCloses(s) PROVE TypeInv'
    <3>1. account' \in [Symbols -> Int] /\ usdt' \in Int
      BY <2>3, <1>ty DEF ExchangeCloses
    <3>2. spent' \in [signals : Nat, faults : Nat, stops : Nat, crashes : Nat]
      BY <2>3, <1>ty DEF ExchangeCloses, Spend
    <3> QED  BY <2>3, <3>1, <3>2, <1>ty
             DEF ExchangeCloses, TypeInv, TypeOK, OrdersAreForSymbols
  <2>4. CASE Crash
    <3>1. task' \in [Tasks -> TaskState] /\ risk' \in RiskState /\ tracked' \in [Symbols -> Int]
      BY <2>4, FreshTyped DEF Crash
    <3>2. OrdersAreForSymbols'
      BY <2>4 DEF Crash, OrdersAreForSymbols, Idle
    <3>3. spent' \in [signals : Nat, faults : Nat, stops : Nat, crashes : Nat]
      BY <2>4, <1>ty DEF Crash, Spend
    <3>4. created' \in BOOLEAN
      BY <2>4, Zenon DEF Crash
    <3>5. usdt' = usdt /\ account' = account /\ cooling' = {} /\ known' = 0
      BY <2>4 DEF Crash
    <3> QED  BY <3>1, <3>2, <3>3, <3>4, <3>5, <1>ty DEF TypeInv, TypeOK
  <2> QED  BY <1>19, <2>1, <2>2, <2>3, <2>4 DEF World
<1>20. CASE UNCHANGED vars
  BY <1>20, <1>ty DEF vars, TypeInv, TypeOK, OrdersAreForSymbols
<1> QED
  BY <1>1, <1>2, <1>3, <1>3a, <1>4, <1>5, <1>6, <1>7, <1>9, <1>10, <1>11, <1>12, <1>13, <1>14,
     <1>15, <1>16, <1>17, <1>18, <1>19, <1>20, <1>ts
  DEF Next, Signal, SignalTail, Monitor, Validation

(* Every reachable state of a live session is well typed, and a call for   *)
(* an order names a symbol.                                                *)
THEOREM TypeCorrect == Spec => []TypeOK
<1>1. TypeInv => TypeOK
  BY DEF TypeInv
<1> QED  BY InitTyped, StepTyped, <1>1, PTL DEF Spec

------------------------------------------------------------------------------
(* A BUY that waits for the balance or the leverage is still admissible    *)
(* when the answer arrives: only the handler itself starts a cooldown, and *)
(* a session once validated stays so until a restart, which empties the    *)
(* handler.  Only a futures order waits for the leverage.                  *)

PlannedBuyStands ==
  task["signal"].at \in {"sizing", "leveraging"} =>
    created /\ task["signal"].sym \notin cooling

LeverageIsOfFutures == task["signal"].at = "leveraging" => Futures

ValidationComesFirst == task["validate"].at = "checking" => ~created

BuyInv == PlannedBuyStands /\ LeverageIsOfFutures /\ ValidationComesFirst

(* What a step must do: keep BuyInv, and size or send a BUY only where it  *)
(* may.                                                                    *)
Sound ==
  /\ BuyInv'
  /\ Computes => CanOpenAt(risk.level)
  /\ Sends => /\ task["signal"].sym \notin cooling
              /\ created
              /\ Futures \/ CanOpenAt(risk.level)

(* A step that neither plans nor sends a BUY nor restarts a validation.    *)
Quiet ==
  /\ created' = created
  /\ cooling' \subseteq cooling
  /\ \/ task'["signal"].at \notin {"sizing", "leveraging", "buying"}
     \/ task'["signal"].at = task["signal"].at /\ task'["signal"].sym = task["signal"].sym
  /\ \/ task'["validate"].at # "checking"
     \/ task'["validate"].at = task["validate"].at

LEMMA QuietIsSound == BuyInv /\ Quiet => Sound
  BY DEF Sound, Computes, Sends, AfterSizing, BuyInv, Quiet, PlannedBuyStands,
         LeverageIsOfFutures, ValidationComesFirst

LEMMA AtIsQuiet ==
  ASSUME task \in [Tasks -> TaskState], NEW t \in Tasks,
         NEW place \in Places \ {"sizing", "leveraging", "buying", "checking"},
         task' = At(t, place), created' = created, cooling' = cooling
  PROVE  Quiet
<1>1. task'[t].at = place
  <2>1. task[t] \in TaskState
    OBVIOUS
  <2>2. task'[t] = IF place = "rest" THEN Idle
                   ELSE [task[t] EXCEPT !.at = place, !.reply = Pending]
    BY DEF At
  <2> QED  BY <2>1, <2>2 DEF Idle, TaskState
<1>2. \A u \in Tasks \ {t} : task'[u] = task[u]
  BY DEF At
<1> QED  BY <1>1, <1>2 DEF Quiet, Tasks

LEMMA AtSymbolIsQuiet ==
  ASSUME task \in [Tasks -> TaskState], NEW t \in Tasks, NEW s, NEW q, NEW todo,
         NEW place \in Places \ {"sizing", "leveraging", "buying", "checking"},
         task' = AtSymbol(t, place, s, q, todo), created' = created, cooling' = cooling
  PROVE  Quiet
<1>1. task'[t].at = place /\ \A u \in Tasks \ {t} : task'[u] = task[u]
  BY DEF AtSymbol
<1> QED  BY <1>1 DEF Quiet, Tasks

LEMMA SameFramesAreQuiet ==
  ASSUME \A t \in Tasks : task'[t].at = task[t].at /\ task'[t].sym = task[t].sym,
         created' = created, cooling' \subseteq cooling
  PROVE  Quiet
  BY DEF Quiet, Tasks

LEMMA StepSound == TypeInv /\ BuyInv /\ [Next]_vars => Sound
<1> SUFFICES ASSUME TypeInv, BuyInv, [Next]_vars PROVE Sound
  OBVIOUS
<1> USE DEF accountVars
<1>ty. /\ task \in [Tasks -> TaskState]
       /\ cooling \subseteq Symbols
  BY DEF TypeInv, TypeOK
<1>ts. {"signal", "monitor", "validate"} = Tasks
  BY DEF Tasks
<1>q. Quiet => Sound
  BY QuietIsSound
<1>1. ASSUME NEW s \in Symbols, BuySignal(s) PROVE Sound
  <2>1. created /\ s \notin cooling /\ created' = created /\ cooling' = cooling
    BY <1>1 DEF BuySignal, MayTrade, CanTrade
  <2>2. /\ task'["signal"].sym = s /\ task'["signal"].at = "sizing"
        /\ task'["validate"] = task["validate"]
    BY <1>1, <1>ty, <1>ts DEF BuySignal, AtSymbol
  <2> QED  BY <2>1, <2>2 DEF Sound, Computes, Sends, AfterSizing, BuyInv, PlannedBuyStands,
                             LeverageIsOfFutures, ValidationComesFirst
<1>2. ASSUME NEW s \in Symbols, SellSignal(s) PROVE Sound
  BY <1>2, <1>ty, <1>ts, <1>q, AtSymbolIsQuiet, PlacesKnown DEF SellSignal
<1>3. CASE Sized
  <2>1. created' = created /\ cooling' = cooling
    BY <1>3 DEF Sized
  <2> DEFINE q == PositionSize(risk, Balance("signal"), 1)
  <2>2. CASE q > 0 /\ ValidOrder(q)
    <3>1. Balance("signal") \in Int /\ risk \in RiskState
      BY <1>ts, BalanceTyped DEF TypeInv, TypeOK
    <3>2. CanOpenAt(risk.level)
      <4>1. ~CanOpenAt(risk.level) => q = 0
        BY <3>1, NoSizeAtAlarm
      <4> HIDE DEF q
      <4> QED  BY <2>2, <4>1
    <3>3. created /\ task["signal"].sym \notin cooling
      BY <1>3 DEF Sized, Answered, BuyInv, PlannedBuyStands
    <3>4. task' = AtSymbol("signal", AfterSizing, task["signal"].sym, q, {})
      BY <1>3, <2>2 DEF Sized
    <3>5. /\ task'["signal"].at = AfterSizing /\ task'["signal"].sym = task["signal"].sym
          /\ task'["validate"] = task["validate"]
      <4> HIDE DEF q
      <4> QED  BY <3>4, <1>ty, <1>ts DEF AtSymbol
    <3> QED  BY <2>1, <3>2, <3>3, <3>5
             DEF Sound, AfterSizing, BuyInv, PlannedBuyStands, LeverageIsOfFutures,
                 ValidationComesFirst
  <2>3. CASE ~(q > 0 /\ ValidOrder(q))
    <3>1. task' = At("signal", "rest")
      BY <1>3, <2>3 DEF Sized
    <3> QED  BY <2>1, <3>1, <1>ty, <1>ts, <1>q, AtIsQuiet, PlacesKnown
  <2> QED  BY <2>2, <2>3
<1>3a. CASE Leveraged
  <2>1. /\ task["signal"].at = "leveraging"
        /\ task' = At("signal", "buying") /\ created' = created /\ cooling' = cooling
    BY <1>3a DEF Leveraged, Answered
  <2>2. Futures /\ created /\ task["signal"].sym \notin cooling
    BY <2>1 DEF BuyInv, PlannedBuyStands, LeverageIsOfFutures
  <2>3. task'["signal"].at = "buying" /\ task'["validate"] = task["validate"]
    <3>1. task["signal"] \in TaskState
      BY <1>ty, <1>ts
    <3> QED  BY <2>1, <3>1, <1>ty, <1>ts DEF At, TaskState
  <2> QED  BY <2>1, <2>2, <2>3
           DEF Sound, Computes, BuyInv, PlannedBuyStands, LeverageIsOfFutures,
               ValidationComesFirst
<1>4. CASE Bought
  <2>1. task'["signal"].at = "rest" /\ task'["validate"] = task["validate"]
    BY <1>4, <1>ty, <1>ts DEF Bought, At, Idle
  <2>2. created' = created
    BY <1>4 DEF Bought
  <2> QED  BY <2>1, <2>2 DEF Sound, Computes, Sends, AfterSizing, BuyInv, PlannedBuyStands,
                             LeverageIsOfFutures, ValidationComesFirst
<1>5. ASSUME NEW t \in Tasks, SellFailed(t) \/ Sold(t) \/ Settled(t) PROVE Sound
  <2>1. PICK place \in {"dead", "rest", "closing", "settling"} : task' = At(t, place)
    BY <1>5 DEF SellFailed, Sold, Settled, AfterSell
  <2>2. created' = created /\ cooling' = cooling
    BY <1>5 DEF SellFailed, Sold, Settled
  <2> QED  BY <2>1, <2>2, <1>ty, <1>q, AtIsQuiet, PlacesKnown
<1>6. ASSUME NEW todo, SellNext(todo), created' = created, cooling' = cooling PROVE Sound
  <2>1. \/ \E place \in {"balance", "rest"} : task' = At("monitor", place)
        \/ \E s, q, rest : task' = AtSymbol("monitor", "selling", s, q, rest)
    BY <1>6 DEF SellNext
  <2> QED  BY <2>1, <1>6, <1>ty, <1>ts, <1>q, AtIsQuiet, AtSymbolIsQuiet, PlacesKnown
<1>7. CASE Tick \/ SellOn
  BY <1>7, <1>6 DEF Tick, SellOn
<1>8. CASE Balanced \/ Dropped
  BY <1>8, <1>ty, <1>ts, <1>q, AtIsQuiet, PlacesKnown DEF Balanced, Dropped
<1>9. CASE Diffed
  <2>1. \/ task' = At("monitor", "rest")
        \/ task' = AtSymbol("monitor", "dropping", NoSymbol, 0, Missing("monitor"))
    BY <1>9 DEF Diffed
  <2>2. created' = created /\ cooling' = cooling
    BY <1>9 DEF Diffed
  <2> QED  BY <2>1, <2>2, <1>ty, <1>ts, <1>q, AtIsQuiet, AtSymbolIsQuiet, PlacesKnown
<1>10. ASSUME NEW s \in Symbols, Drop(s) PROVE Sound
  <2>1. \A t \in Tasks : task'[t].at = task[t].at /\ task'[t].sym = task[t].sym
    BY <1>10, <1>ty DEF Drop, TaskState
  <2> QED  BY <1>10, <2>1, <1>q, SameFramesAreQuiet DEF Drop
<1>11. ASSUME NEW t \in Tasks, Recovered(t) PROVE Sound
  BY <1>11, <1>ty, <1>q, AtIsQuiet, PlacesKnown DEF Recovered
<1>12. CASE Validated
  <2>1. ~created
    BY <1>12 DEF Validated, Answered, BuyInv, ValidationComesFirst
  <2>2. PICK place \in {"markets", "rest"} : task' = At("validate", place)
    BY <1>12 DEF Validated
  <2>3. task'["validate"].at = place /\ task'["signal"] = task["signal"]
    <3>1. task["validate"] \in TaskState
      BY <1>ty, <1>ts
    <3> QED  BY <2>2, <3>1, <1>ty, <1>ts DEF At, Idle, TaskState
  <2> QED  BY <2>1, <2>3 DEF Sound, Computes, Sends, AfterSizing, BuyInv, PlannedBuyStands,
                             LeverageIsOfFutures, ValidationComesFirst
<1>13. CASE MarketsLoaded
  BY <1>13, <1>ty, <1>ts, <1>q, AtIsQuiet, PlacesKnown DEF MarketsLoaded
<1>14. ASSUME NEW t \in Tasks, Serve(t) \/ Fault(t) PROVE Sound
  <2>1. \E r : task' = [task EXCEPT ![t].reply = r]
    BY <1>14 DEF Serve, Fault, Fails, Answers
  <2>2. \A u \in Tasks : task'[u].at = task[u].at /\ task'[u].sym = task[u].sym
    BY <2>1, <1>ty DEF TaskState
  <2>3. created' = created /\ cooling' = cooling
    BY <1>14 DEF Serve, Fault
  <2> QED  BY <2>2, <2>3, <1>q, SameFramesAreQuiet
<1>15. CASE World
  <2>1. ASSUME NEW level \in Published, MarketStatus(level) PROVE Sound
    BY <2>1, <1>q, SameFramesAreQuiet DEF MarketStatus
  <2>2. ASSUME NEW s \in Symbols, CooldownOver(s) \/ ExchangeCloses(s) PROVE Sound
    BY <2>2, <1>q, SameFramesAreQuiet DEF CooldownOver, ExchangeCloses
  <2>3. CASE Crash
    <3>1. ~created' /\ task'["signal"].at = "rest"
      BY <2>3, <1>ts DEF Crash, Idle
    <3> QED  BY <3>1 DEF Sound, Computes, Sends, AfterSizing, BuyInv, PlannedBuyStands,
                             LeverageIsOfFutures, ValidationComesFirst
  <2> QED  BY <1>15, <2>1, <2>2, <2>3 DEF World
<1>16. CASE UNCHANGED vars
  BY <1>16, <1>q, SameFramesAreQuiet DEF vars
<1> QED
  BY <1>1, <1>2, <1>3, <1>3a, <1>4, <1>5, <1>7, <1>8, <1>9, <1>10, <1>11, <1>12, <1>13, <1>14,
     <1>15, <1>16, <1>ts
  DEF Next, Signal, SignalTail, Monitor, Validation

(* A BUY is sized only at a level that allows it, and sent only for a      *)
(* symbol that is not cooling down, in a validated session, and on spot at *)
(* a level that allows it.                                                 *)
THEOREM BuysOnlyWhenAllowed == Spec => BuysWhenAllowed
<1>1. Init => BuyInv
  BY DEF Init, BuyInv, PlannedBuyStands, LeverageIsOfFutures, ValidationComesFirst, Idle,
     Tasks
<1>2. TypeInv /\ BuyInv /\ [Next]_vars => BuyInv'
  BY StepSound DEF Sound
<1>3. TypeInv /\ BuyInv /\ [Next]_vars =>
        [/\ Computes => CanOpenAt(risk.level)
         /\ Sends => /\ task["signal"].sym \notin cooling
                     /\ created
                     /\ Futures \/ CanOpenAt(risk.level)]_vars
  BY StepSound DEF Sound
<1> QED  BY InitTyped, StepTyped, <1>1, <1>2, <1>3, PTL DEF Spec, BuysWhenAllowed
==============================================================================
