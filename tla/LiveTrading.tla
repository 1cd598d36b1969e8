----------------------------- MODULE LiveTrading -----------------------------
(***************************************************************************)
(* One live session of the trader and the account it trades on.  Unlike in *)
(* paper mode every call to the exchange suspends its task, so that what   *)
(* was checked before the call may be stale after it.  Three tasks work on *)
(* the session: the signal handler, the monitor loop, and the validation   *)
(* started with the session.  The process may crash and restart; the       *)
(* account survives it, the session does not.                              *)
(*                                                                         *)
(* Quantities are in USDT: prices do not move here and no fee is taken.    *)
(***************************************************************************)
EXTENDS RiskRules

CONSTANTS
  NoSymbol,     (* not a symbol                                             *)
  MaxPairs,     (* the plan's max_pairs                                     *)
  HardCap,      (* hard_cap of _validate_order: 50                          *)
  MinNotional,  (* smallest notional _validate_order lets through: 5        *)
  Futures,      (* trade_type is futures, else spot                         *)
  Leverage,     (* leverage of futures orders: 10                           *)
  Deposit,      (* USDT in the account at the start                         *)
  Carried,      (* symbols the account may hold when the session starts     *)
  CarriedSize,  (* how much of each                                         *)
  Published,    (* market levels the guardian publishes                     *)
  MaxSignals,   (* bound of the model: signals that start a trade           *)
  MaxFaults,    (* bound of the model: calls that fail or lose their answer *)
  MaxStops,     (* bound of the model: positions the exchange closes itself *)
  MaxCrashes    (* bound of the model: restarts of the process              *)

ASSUME LiveAssumption ==
  /\ NoSymbol \notin Symbols
  /\ MaxPairs \in Nat
  /\ HardCap \in Nat
  /\ MinNotional \in Nat \ {0}
  /\ Futures \in BOOLEAN
  /\ Leverage \in Nat \ {0}
  /\ Deposit \in Nat
  /\ Carried \subseteq Symbols
  /\ CarriedSize \in Nat \ {0}
  /\ Published \subseteq STRING
  /\ {MaxSignals, MaxFaults, MaxStops, MaxCrashes} \subseteq Nat

VARIABLES
  usdt,     (* the account's USDT, margin included                          *)
  account,  (* the account's position in each symbol, below 0 when short    *)
  created,  (* UserSession._exchange_created                                *)
  tracked,  (* PositionTracker: quantity of each symbol, below 0 for a SELL *)
            (* position, 0 for none                                         *)
  risk,     (* RiskManager                                                  *)
  cooling,  (* symbols whose last recorded trade is under 300 s old         *)
  known,    (* _last_known_balance of the user, 0 when there is none        *)
  task,     (* where the tasks stand, and the answer to their call          *)
  spent     (* what is used up of the bounds                                *)

accountVars == <<usdt, account>>
vars == <<usdt, account, created, tracked, risk, cooling, known, task, spent>>

------------------------------------------------------------------------------
(* Tasks and their calls.                                                  *)

Tasks == {"signal", "monitor", "validate"}

(* What a task awaits at each place; at rest, between two writes of the    *)
(* database, and dead it awaits no answer of the exchange.                 *)
Call == [sizing |-> "balance", settling |-> "balance", balance |-> "balance",
         diffing |-> "positions", recovering |-> "positions",
         leveraging |-> "leverage", buying |-> "buy", selling |-> "sell",
         checking |-> "ping", markets |-> "ping"]

Nothing == [s \in Symbols |-> 0]
Pending == [answer |-> "pending", got |-> 0, seen |-> Nothing]
Reply   == [answer : {"pending", "failed", "ok"}, got : Int,
            seen : [Symbols -> Int]]

Idle == [at |-> "rest", sym |-> NoSymbol, qty |-> 0, todo |-> {},
         reply |-> Pending]

Places == DOMAIN Call \cup {"rest", "closing", "dropping", "dead"}
TaskState == [at : Places, sym : Symbols \cup {NoSymbol}, qty : Nat,
              todo : SUBSET Symbols, reply : Reply]

Open == {s \in Symbols : tracked[s] # 0}
Held == {s \in Symbols : account[s] # 0}
Size(n) == IF n < 0 THEN -n ELSE n

(* Task t goes on at a place, with no answer yet; its frame is dropped     *)
(* when it comes to rest.                                                  *)
At(t, place) ==
  [task EXCEPT ![t] = IF place = "rest" THEN Idle
                      ELSE [@ EXCEPT !.at = place, !.reply = Pending]]

AtSymbol(t, place, s, q, todo) ==
  [task EXCEPT ![t] = [at |-> place, sym |-> s, qty |-> q, todo |-> todo,
                       reply |-> Pending]]

Waiting(t) == task[t].at \in DOMAIN Call /\ task[t].reply.answer = "pending"
Answered(t, place) == task[t].at = place /\ task[t].reply.answer # "pending"
Ok(t) == task[t].reply.answer = "ok"

Spend(what) == spent' = [spent EXCEPT ![what] = @ + 1]

------------------------------------------------------------------------------
Init ==
  /\ usdt = Deposit
  /\ account \in {[s \in Symbols |-> IF s \in c THEN CarriedSize ELSE 0] :
                    c \in SUBSET Carried}
  /\ created = FALSE
  /\ tracked = Nothing
  /\ risk = FreshRisk
  /\ cooling = {}
  /\ known = 0
  /\ task = [t \in Tasks |->
               IF t = "validate" THEN [Idle EXCEPT !.at = "checking"] ELSE Idle]
  /\ spent = [signals |-> 0, faults |-> 0, stops |-> 0, crashes |-> 0]

------------------------------------------------------------------------------
(* The exchange.  A futures order nets with the position and needs margin  *)
(* for the result; a spot order needs the money or the asset.              *)
(* fetch_positions lists the swap account, where a spot user holds nothing.*)

Signed(op, q) == IF op = "buy" THEN q ELSE -q

Fillable(op, s, q) ==
  \/ Futures /\ Size(account[s] + Signed(op, q)) <= Leverage * usdt
  \/ ~Futures /\ op = "buy" /\ usdt >= q
  \/ ~Futures /\ op = "sell" /\ account[s] >= q

Fill(op, s, q) ==
  /\ account' = [account EXCEPT ![s] = @ + Signed(op, q)]
  /\ usdt' = IF Futures THEN usdt ELSE usdt - Signed(op, q)

SwapPositions == IF Futures THEN account ELSE Nothing

Answers(t) ==
  task' = [task EXCEPT ![t].reply =
             [answer |-> "ok", got |-> usdt, seen |-> SwapPositions]]

Fails(t) == task' = [task EXCEPT ![t].reply = [@ EXCEPT !.answer = "failed"]]

(* The call is carried out and answered.                                   *)
Serve(t) ==
  LET op == Call[task[t].at]
      s  == task[t].sym
      q  == task[t].qty
  IN /\ Waiting(t)
     /\ \/ /\ op \in {"buy", "sell"}
           /\ \/ Fillable(op, s, q) /\ Fill(op, s, q) /\ Answers(t)
              \/ /\ ~Fillable(op, s, q)
                 /\ Fails(t)
                 /\ UNCHANGED accountVars
        \/ /\ op \notin {"buy", "sell"}
           /\ Answers(t)
           /\ UNCHANGED accountVars
     /\ UNCHANGED <<created, tracked, risk, cooling, known, spent>>

(* The call fails, or is carried out and its answer is lost.               *)
Fault(t) ==
  LET op == Call[task[t].at]
      s  == task[t].sym
      q  == task[t].qty
  IN /\ Waiting(t)
     /\ spent.faults < MaxFaults
     /\ Spend("faults")
     /\ Fails(t)
     /\ \/ UNCHANGED accountVars
        \/ op \in {"buy", "sell"} /\ Fillable(op, s, q) /\ Fill(op, s, q)
     /\ UNCHANGED <<created, tracked, risk, cooling, known>>

(* A stop of the exchange closes a position.                               *)
ExchangeCloses(s) ==
  /\ s \in Held
  /\ spent.stops < MaxStops
  /\ Spend("stops")
  /\ account' = [account EXCEPT ![s] = 0]
  /\ usdt' = IF Futures THEN usdt ELSE usdt + account[s]
  /\ UNCHANGED <<created, tracked, risk, cooling, known, task>>

------------------------------------------------------------------------------
(* _get_live_balance: the answer, or what the last one said.               *)

Balance(t) == IF Ok(t) THEN task[t].reply.got ELSE known
Learn(t)   == known' = Balance(t)

------------------------------------------------------------------------------
(* The signal handler.  Before validation the balance counts as 0 and      *)
(* nothing is bought.  In live mode a signal does not refresh the risk     *)
(* manager's balance.                                                      *)

MayTrade(s) ==
  /\ task["signal"].at = "rest"
  /\ spent.signals < MaxSignals
  /\ Cardinality(Open) < MaxPairs
  /\ CanTrade(risk, cooling, Open, s)

(* Slip: the session need not be validated.                                *)
BuySignalUnvalidated(s) ==
  /\ MayTrade(s)
  /\ s \notin Open
  /\ task' = AtSymbol("signal", "sizing", s, 0, {})
  /\ Spend("signals")
  /\ UNCHANGED <<accountVars, created, tracked, risk, cooling, known>>

BuySignal(s) ==
  /\ MayTrade(s)
  /\ s \notin Open
  /\ created
  /\ task' = AtSymbol("signal", "sizing", s, 0, {})
  /\ Spend("signals")
  /\ UNCHANGED <<accountVars, created, tracked, risk, cooling, known>>

SellSignal(s) ==
  /\ MayTrade(s)
  /\ s \in Open
  /\ created
  /\ task' = AtSymbol("signal", "selling", s, Size(tracked[s]), {})
  /\ Spend("signals")
  /\ UNCHANGED <<accountVars, created, tracked, risk, cooling, known>>

ValidOrder(q) == q >= MinNotional /\ Cardinality(Open) < HardCap

(* A futures order waits for its leverage first.                           *)
AfterSizing == IF Futures THEN "leveraging" ELSE "buying"

(* The order is sized at the level and the balance of this moment, the     *)
(* other checks are those of the signal's arrival.                         *)
Sized ==
  LET q == PositionSize(risk, Balance("signal"), 1)
  IN /\ Answered("signal", "sizing")
     /\ Learn("signal")
     /\ task' = IF q > 0 /\ ValidOrder(q)
                THEN AtSymbol("signal", AfterSizing, task["signal"].sym, q, {})
                ELSE At("signal", "rest")
     /\ UNCHANGED <<accountVars, created, tracked, risk, cooling, spent>>

(* The order is sent whether the leverage could be set or not, and whatever*)
(* the level has become.                                                   *)
Leveraged ==
  /\ Answered("signal", "leveraging")
  /\ task' = At("signal", "buying")
  /\ UNCHANGED <<accountVars, created, tracked, risk, cooling, known, spent>>

(* The new position replaces one recovered meanwhile.                      *)
Bought ==
  LET s == task["signal"].sym
  IN /\ Answered("signal", "buying")
     /\ IF Ok("signal")
        THEN /\ tracked' = [tracked EXCEPT ![s] = task["signal"].qty]
             /\ cooling' = cooling \cup {s}
        ELSE UNCHANGED <<tracked, cooling>>
     /\ task' = At("signal", "rest")
     /\ UNCHANGED <<accountVars, created, risk, known, spent>>

------------------------------------------------------------------------------
(* _close_position after its SELL, in either task.  A failed order raises: *)
(* the signal handler logs it, the monitor loop ends for good.             *)

SellFailed(t) ==
  /\ Answered(t, "selling")
  /\ ~Ok(t)
  /\ task' = At(t, IF t = "monitor" THEN "dead" ELSE "rest")
  /\ UNCHANGED <<accountVars, created, tracked, risk, cooling, known, spent>>

AfterSell(t) == IF t = "monitor" THEN "closing" ELSE "rest"

Sold(t) ==
  LET s == task[t].sym
  IN /\ Answered(t, "selling")
     /\ Ok(t)
     /\ tracked' = [tracked EXCEPT ![s] = 0]
     /\ task' = At(t, IF s \in Open THEN "settling" ELSE AfterSell(t))
     /\ UNCHANGED <<accountVars, created, risk, cooling, known, spent>>

Settled(t) ==
  /\ Answered(t, "settling")
  /\ risk' = UpdateBalance(risk, Balance(t))
  /\ Learn(t)
  /\ task' = At(t, AfterSell(t))
  /\ UNCHANGED <<accountVars, created, tracked, cooling, spent>>

------------------------------------------------------------------------------
(* The monitor: at RED it sells what is tracked, then it takes the balance *)
(* and reconciles.  Nothing is sold at ORANGE, where only positions with a *)
(* realized loss would be: an open position has none.                      *)

(* Slip: everything is sold at ORANGE, not at RED.                         *)
ToCloseEarly == IF risk.level = "ORANGE" THEN Open ELSE {}

ToClose == IF risk.level = "RED" THEN Open ELSE {}

SellNext(todo) ==
  \/ \E s \in todo \cap Open :
       task' = AtSymbol("monitor", "selling", s, Size(tracked[s]), todo \ {s})
  \/ /\ todo \cap Open = {}
     /\ task' = At("monitor", IF created THEN "balance" ELSE "rest")

Tick ==
  /\ task["monitor"].at = "rest"
  /\ SellNext(ToClose)
  /\ UNCHANGED <<accountVars, created, tracked, risk, cooling, known, spent>>

SellOn ==
  /\ task["monitor"].at = "closing"
  /\ SellNext(task["monitor"].todo)
  /\ UNCHANGED <<accountVars, created, tracked, risk, cooling, known, spent>>

Balanced ==
  /\ Answered("monitor", "balance")
  /\ risk' = UpdateBalance(risk, Balance("monitor"))
  /\ Learn("monitor")
  /\ task' = At("monitor", "diffing")
  /\ UNCHANGED <<accountVars, created, tracked, cooling, spent>>

(* reconcile_positions: what is tracked and not listed was closed by the   *)
(* exchange.  Each such position is dropped, and its trade row written,    *)
(* before the next; a failed listing ends the reconciliation.              *)
Seen(t) == {s \in Symbols : task[t].reply.seen[s] # 0}

(* Slip: positions the exchange closed stay in the tracker.                *)
Kept(t) == {}

Missing(t) == Open \ Seen(t)

Diffed ==
  LET t == "monitor"
  IN /\ Answered(t, "diffing")
     /\ task' = IF Ok(t)
                THEN AtSymbol(t, "dropping", NoSymbol, 0, Missing(t))
                ELSE At(t, "rest")
     /\ UNCHANGED <<accountVars, created, tracked, risk, cooling, known, spent>>

Drop(s) ==
  /\ task["monitor"].at = "dropping"
  /\ s \in task["monitor"].todo
  /\ tracked' = [tracked EXCEPT ![s] = 0]
  /\ task' = [task EXCEPT !["monitor"].todo = @ \ {s}]
  /\ UNCHANGED <<accountVars, created, risk, cooling, known, spent>>

Dropped ==
  /\ task["monitor"].at = "dropping"
  /\ task["monitor"].todo = {}
  /\ task' = At("monitor", "recovering")
  /\ UNCHANGED <<accountVars, created, tracked, risk, cooling, known, spent>>

(* recover_positions, at the end of the reconciliation and of the          *)
(* validation: listed positions the tracker does not know are taken over.  *)
Recovered(t) ==
  /\ Answered(t, "recovering")
  /\ tracked' = IF Ok(t)
                THEN [s \in Symbols |-> IF s \in Open THEN tracked[s]
                                                      ELSE task[t].reply.seen[s]]
                ELSE tracked
  /\ task' = At(t, "rest")
  /\ UNCHANGED <<accountVars, created, risk, cooling, known, spent>>

------------------------------------------------------------------------------
(* validate_exchange.  Orders are let through as soon as the credentials   *)
(* are known to be good, before the markets and the positions are loaded.  *)

Validated ==
  LET t == "validate"
  IN /\ Answered(t, "checking")
     /\ created' = Ok(t)
     /\ task' = At(t, IF Ok(t) THEN "markets" ELSE "rest")
     /\ UNCHANGED <<accountVars, tracked, risk, cooling, known, spent>>

MarketsLoaded ==
  /\ Answered("validate", "markets")
  /\ task' = At("validate", "recovering")
  /\ UNCHANGED <<accountVars, created, tracked, risk, cooling, known, spent>>

------------------------------------------------------------------------------
(* The world.                                                              *)

MarketStatus(level) ==
  /\ risk' = SetMarketStatus(risk, level)
  /\ UNCHANGED <<accountVars, created, tracked, cooling, known, task, spent>>

CooldownOver(s) ==
  /\ s \in cooling
  /\ cooling' = cooling \ {s}
  /\ UNCHANGED <<accountVars, created, tracked, risk, known, task, spent>>

(* The process dies and comes back with a new session for the user.        *)
Crash ==
  /\ spent.crashes < MaxCrashes
  /\ Spend("crashes")
  /\ created' = FALSE
  /\ tracked' = Nothing
  /\ risk' = FreshRisk
  /\ cooling' = {}
  /\ known' = 0
  /\ task' = [t \in Tasks |->
                IF t = "validate" THEN [Idle EXCEPT !.at = "checking"] ELSE Idle]
  /\ UNCHANGED accountVars

------------------------------------------------------------------------------
Signal == \E s \in Symbols : BuySignal(s) \/ SellSignal(s)

SignalTail == Sized \/ Leveraged \/ Bought \/ SellFailed("signal") \/ Sold("signal")
              \/ Settled("signal")

Monitor == Tick \/ SellOn \/ SellFailed("monitor") \/ Sold("monitor")
           \/ Settled("monitor") \/ Balanced \/ Diffed
           \/ (\E s \in Symbols : Drop(s)) \/ Dropped \/ Recovered("monitor")

Validation == Validated \/ MarketsLoaded \/ Recovered("validate")

World ==
  \/ \E level \in Published : MarketStatus(level)
  \/ \E s \in Symbols : CooldownOver(s)
  \/ \E s \in Symbols : ExchangeCloses(s)
  \/ Crash

Next ==
  \/ Signal
  \/ SignalTail
  \/ Monitor
  \/ Validation
  \/ \E t \in Tasks : Serve(t) \/ Fault(t)
  \/ World

Spec == Init /\ [][Next]_vars

(* The exchange answers each call or the client's timeout does, and the    *)
(* loop resumes each task whose await returned.                            *)
FairSpec ==
  /\ Spec
  /\ WF_vars(SignalTail) /\ WF_vars(Monitor) /\ WF_vars(Validation)
  /\ \A t \in Tasks : WF_vars(Serve(t))

------------------------------------------------------------------------------
TypeOK ==
  /\ usdt \in Int
  /\ account \in [Symbols -> Int]
  /\ created \in BOOLEAN
  /\ tracked \in [Symbols -> Int]
  /\ risk \in RiskState
  /\ cooling \subseteq Symbols
  /\ known \in Int
  /\ task \in [Tasks -> TaskState]
  /\ spent \in [signals : Nat, faults : Nat, stops : Nat, crashes : Nat]

(* The checks of a BUY are made before up to two calls to the exchange.  A *)
(* BUY is sent, all the same, only for a symbol that is not cooling down,  *)
(* in a validated session, and of a size that the level allowed when it was*)
(* computed; on spot this is the level at which it is sent.  On futures the*)
(* call that sets the leverage lies between, and the level may have risen. *)
Computes == task["signal"].at = "sizing" /\ task'["signal"].at = AfterSizing
Sends == task["signal"].at # "buying" /\ task'["signal"].at = "buying"

BuysWhenAllowed ==
  [][/\ Computes => CanOpenAt(risk.level)
     /\ Sends => /\ task["signal"].sym \notin cooling
                 /\ created
                 /\ Futures \/ CanOpenAt(risk.level)]_vars

(* When signals, stops, faults and crashes have ceased, the tracker of a   *)
(* validated session comes to list exactly the symbols the futures account *)
(* holds, whatever answers were lost, positions closed by the exchange, or *)
(* listings overtaken by an order in the meantime, unless a SELL of the    *)
(* monitor failed: this ends the monitor and with it the reconciliation.   *)
MonitorLives == task["monitor"].at # "dead"

Converges == []<>MonitorLives => <>[](created => Open = Held)

(* At a RED that stands, a validated session whose monitor lives comes to  *)
(* hold nothing, not even what a BUY bought that was sized before RED and  *)
(* answered after it, or what was taken over from the account.             *)
RedEmptiesTheAccount ==
  (<>[](risk.level = "RED" /\ created) /\ []<>MonitorLives) => <>[](Held = {})

(* At RED no order that the monitor sends takes a position further from    *)
(* zero.                                                                   *)
Selling(t) == task[t].at = "selling" /\ Waiting(t)

RedOnlyReduces ==
  [][(Selling("monitor") /\ Ok("monitor")' /\ risk.level = "RED") =>
       \A s \in Symbols : Size(account'[s]) <= Size(account[s])]_vars

==============================================================================
