# NexTrade-AI in TLA+

A formal model of NexTrade-AI, the trading bot in this repository: TLA+ modules
translated from its Python source, TLC configurations that check them on small
instances, and theorems about them that TLAPS proves for every instance.

* [The system](#the-system)
* [Modules](#modules)
* [How the paper session is modelled](#how-the-paper-session-is-modelled)
* [How the live session is modelled](#how-the-live-session-is-modelled)
* [How the session lifecycle is modelled](#how-the-session-lifecycle-is-modelled)
* [How the guardian is modelled](#how-the-guardian-is-modelled)
* [How the analyst is modelled](#how-the-analyst-is-modelled)
* [How the web process is modelled](#how-the-web-process-is-modelled)
* [Runs](#runs)
* [Disagreements with the documentation](#disagreements-with-the-documentation)
* [Proofs](#proofs)
* [What is not modelled](#what-is-not-modelled)
* [Plan](#plan)

## The system

Four processes share a Redis server and a database.

| Component | State | Operations | Talks to |
|---|---|---|---|
| **Trader** (`trader/trader_bot.py`) | `sessions`: one `UserSession` per active user | control, status and signal messages; monitor loop every 15 s | Redis, database, exchange |
| **Paper session** (`paper_engine.py`, `position_tracker.py`, `risk_manager.py`) | cash and holdings of the engine, open positions, realized gains, risk state, cooldowns | open, close, assess, refuse | the trader's tasks |
| **Live session** (`trader/exchange/*`) | the same tracker and risk state; the account on the exchange | open, close, recover, reconcile, validate | exchange over the network |
| **Session lifecycle** (`_refresh_users`, `_handle_control`, `web/user_router.py`) | `bot_active` in the database, `sessions` in memory | start, stop, refresh | Redis `bot:control` |
| **Guardian** (`guardian/`) | last status, window of correlations | analyse and publish every 60 s | Redis `alerts:market:status` |
| **Analyst** (`analyst/`) | votes, counters of right votes and weights in Redis | vote, aggregate, publish a signal; score and reweigh the strategies | Redis `signals:market` |
| **Web API** (`web/`) | the table of users: plan, settings, keys, wallet, reset token | HTTP handlers, Stripe webhooks | database, Redis |
| **Shared** (`shared/`) | sliding windows of rate limiters, plan table | acquire, look up | all of the above |
| **Frontend** (`frontend/`) | what the API returned | display | Web API |

Everything in the trader runs on one asyncio loop.  Its tasks are the three Redis
subscriptions (control, status, signals), the monitor loop, the heartbeat
subscription, and one validation task per live session.  A handler is atomic
between two awaits that suspend, and nowhere else: there is no lock in the code.

What is hard about it, and what makes each part correct:

* **Paper session.**  The signal handler and the monitor work on the same engine,
  tracker and risk manager.  Correct: money is conserved, each trade has its row,
  the engine never holds what the tracker does not know, caps and drawdown limits
  hold at the moment a position is opened, RED ends without positions.
* **Live session.**  Every order suspends.  The two tasks can both find the same
  position open; a snapshot of the exchange is compared with a tracker that has
  moved on; an answer can be lost.  Correct: tracker and exchange agree again
  after the dust has settled, and no position is closed twice.
* **Session lifecycle.**  The database is written first, the message is sent
  later or never, and a periodic refresh repairs what was lost.  Correct: the
  sessions in memory become those that the database says are active, and one
  user's commands do not disturb another's session.
* **Guardian.**  Five checks with weights and caps of their own make one score, any
  of them may raise, and the level reaches sessions that start, stop and restart
  at other moments.  Correct: no single check halts trading, a market in distress
  is announced, and a level that lasts is the level of every session.
* **Analyst.**  Two tasks share counters in Redis, each call may fail before or
  after it took effect, and keys expire.  Correct: a vote is judged once, the
  counters of a strategy and of its pairs agree, a signal follows the votes
  whatever the weights, and a pair that fails does not keep the others waiting.
* **Web API.**  A request loads a row in one transaction, checks it, and writes it
  in another; other requests and webhooks come in between, and webhooks are
  repeated and reordered.  Correct: a wallet belongs to one account, a plan
  follows the subscription, a reset link sets one password, and what a check
  forbids is not written.

`PROJECT.json` lists the hazards with their lines and the properties that look
at them.

## Modules

| Module | Models |
|---|---|
| `RiskRules` | `risk_manager.py` as operators on a record: market levels, `update_balance`, `can_trade`, position size |
| `PaperTrading` | one paper session: `PaperEngine`, `PositionTracker`, the signal path of `TraderBot`, the monitor loop, trade rows |
| `PaperLedger` | the abstract specification of a paper account, which `PaperTrading` implements |
| `LiveTrading` | one live session: orders that suspend, validation, recovery and reconciliation, beside the account on the exchange |
| `SessionLifecycle` | whose bots run: the web handlers that write `bot_active`, the channel `bot:control`, the control handler, the refresh, and the monitor's iteration over the sessions |
| `CrashGuard` | the guardian: checks, score, level, publication; and the trader's handler that hands the level to the sessions |
| `SignalVote` | the analyst: the signal loop with voting, aggregation and the counting of right votes; the score loop that blends the weights |
| `Accounts` | the web process: requests as transactions on the table of users, Stripe and its webhooks |
| `Sums` | `sum(...)` over a dict, which `PaperTrading` and `SignalVote` use |
| `PaperTradingMC`, `LiveTradingMC`, `SessionLifecycleMC`, `CrashGuardMC`, `SignalVoteMC`, `AccountsMC` | constants of the TLC runs |
| `PaperTradingProofs`, `LiveTradingProofs`, `SessionLifecycleProofs`, `CrashGuardProofs`, `SignalVoteProofs`, `AccountsProofs` | theorems about the six |
| `SubscriptionProofs` | the theorem about ended subscriptions, on top of `AccountsProofs` |
| `SumsProofs` | what a sum over a finite set is |

Each module models one process or one session; they meet in messages.  A level of
`CrashGuard` is a `MarketStatus` of the sessions, a signal of `SignalVote` a
`Signal` of theirs, a start or stop of `Accounts` (`ControlBot`) a request of
`SessionLifecycle`.  In each module the other side of the message does whatever it
likes: the sessions see any level and any signal at any time.

A definition whose comment begins with "Slip" is no part of the model.  It is the
form a plausible mistake would give the definition after it, and `PROJECT.json`
names the property that notices it.

## How the paper session is modelled

| Variable | Code |
|---|---|
| `cash`, `held`, `fees` | `PaperEngine.balance`, `.positions`, the fees of `.orders` |
| `tracked`, `realized` | `PositionTracker._positions`, `._total_realized_pnl` |
| `book` | what `get_total_equity` adds to the balance: the holdings at entry prices; kept up to date step by step, `BookIsSum` checks that it is that sum |
| `risk` | `RiskManager`: level, breaker, peak, last balance, start of the day |
| `cooling` | symbols whose entry in `_cooldowns` is younger than 300 s |
| `task` | where the signal handler and the monitor stand, and what the monitor has left to close |
| `saved`, `unsaved` | the trade rows in the database, and those whose write failed |
| `opens` | a counter for the bound `MaxOpens` |

In paper mode neither the engine nor the validation of an order suspends.  All of
`_execute_for_user` up to the first `_push_log` is therefore one action.  What
follows is one action per suspension:

| Action | Code |
|---|---|
| `SignalBuy`, `SignalBuyRefused` | `_execute_for_user` and `_open_position` up to `_push_log`; a refusal still refreshes the balance |
| `SignalSell`, `SignalSellRefused` | `_execute_for_user` and `_close_position` up to `_push_log` |
| `Settle(t)` | the balance refresh after the log push of a close |
| `SaveSell(t)`, `SaveBuy` | the database write, which may fail |
| `MonitorTick`, `MonitorResume` | one turn of the monitor on the session: list, close the next position, or end the pass |
| `MarketStatus` | `_handle_market_status`; a level outside the table is ignored |
| `CooldownOver`, `NewDay` | time passes |

Money and quantities are whole numbers where the code has floats: the cut of an
order rounds down to whole units instead of 0.00001, and fees round down.  A
signal without room under the plan's limits changes nothing and is not an action.
HOLD signals change nothing either.

A signal carries any price of `Prices`.  The market between two signals is not
modelled, because nothing in the trader looks at it.

## How the live session is modelled

| Variable | Code |
|---|---|
| `usdt`, `account` | the exchange: USDT and the net position in each symbol (external) |
| `created` | `UserSession._exchange_created` |
| `tracked` | `PositionTracker`: the quantity of each symbol, negative for a position of side SELL |
| `risk`, `cooling` | as in the paper session |
| `known` | `_last_known_balance` of the user |
| `task` | the signal handler, the monitor and the validation task: where each stands, its local variables, and the answer to the call it awaits |
| `spent` | counters for the four bounds |

Each call to the exchange is two steps of the model.  The task arrives at a place
named in `Call`; then `Serve` carries the call out and answers it, or `Fault`
loses it or its answer; the task continues with its answer when the loop comes
back to it.  Everything else may happen in between.

| Action | Code |
|---|---|
| `BuySignal`, `Sized`, `Leveraged`, `Bought` | `_execute_for_user` and `_open_position`: the checks, the size from the balance that was fetched, on futures the answer to `set_leverage`, the position recorded after the order's answer |
| `SellSignal`, `Sold`, `SellFailed`, `Settled` | `_close_position`, which both tasks call; its SELL raises on failure, which the handler logs and the monitor loop does not survive |
| `Tick`, `SellOn`, `Balanced`, `Diffed`, `Drop`, `Dropped`, `Recovered` | a turn of `_monitor_loop`: closes at RED, the balance, `reconcile_positions`, `recover_positions` |
| `Validated`, `MarketsLoaded`, `Recovered` | `validate_exchange`; `created` is set after the first of its three calls |
| `Serve`, `Fault`, `ExchangeCloses` | the exchange |
| `Crash` | the process restarts: the session is new, the account is as it was |

Abstractions, all of which take behaviours away or leave the checked ones alone:

* Prices do not move and nothing is charged, so that quantities are in USDT.
* A futures account needs margin for the position that results from an order, a
  spot account needs the money or the asset.  `fetch_positions` lists the swap
  account for either kind of user.
* Tracker and exchange name a symbol alike.  The names of swap markets, which
  carry a suffix in the exchange's library, are not told apart.
* An order in flight when the process dies has been carried out or is lost.
* Awaits of the database, the log and the notifier inside a handler are merged
  with their neighbours, except the trade row that `reconcile_positions` writes
  between two positions, where the signal handler can come in (`Drop`).
* All within one day: the daily limit starts anew in the paper session only.
* At ORANGE nothing is closed, as in the paper session.

## How the session lifecycle is modelled

| Variable | Code |
|---|---|
| `active` | the users whose `bot_active` is committed as true |
| `request` | the coroutines of `control_bot` (start, stop), of `delete_user_data` (erase), and of the handlers that set the column without a message (`debug_create_user`, `register`, the admin seed: grant) |
| `channel`, `listener` | messages of `bot:control` on their way, and the trader's subscription |
| `sessions` | the keys of `TraderBot.sessions` |
| `monitor` | where the monitor loop stands, its `refresh_counter`, the rows its refresh has read, and what its dict iterator knows |
| `faults`, `crashes` | counters of the bounds |
| `wanted` | a history: the users who were active at some time |

| Action | Code |
|---|---|
| `Load`, `Commit`, `Tell` | a web handler: the row is loaded, the column is written if it differs from what was loaded, the message is published or lost; an erasure publishes before it commits |
| `HandleControl`, `ControlFails` | `_handle_control`: the look-up suspends but decides nothing, so that taking the message and applying it are one step |
| `ListenerDies` | `RedisClient.subscribe` raises in its task, which nobody awaits |
| `Tick`, `RefreshReads`, `RefreshApplies`, `RefreshFails` | a pass of the monitor; every fourth reads the active users and applies what it read after an await |
| `Resume` | the iteration over the dict goes on after awaits inside: it raises when the dict's size has changed, and may raise when keys were replaced |
| `BootReads`, `BootApplies`, `BootFails`, `Subscribe`, `Crash` | `start`: refresh first, then monitor and subscriptions |

An error that ends the monitor does not end the process: `start` awaits the
monitor's task only after the signal subscription, which does not return.

## How the guardian is modelled

| Variable | Code |
|---|---|
| `stage` | where `GuardianBot._monitor_loop` and `CrashDetector.analyze` stand |
| `score`, `triggers` | the local variables of `analyze`; the score in parts of a tenth of a point, so that percentages are whole |
| `history` | `_btc_eth_returns`: for each correlation kept, whether it is a number |
| `status` | `GuardianBot._last_status` |
| `channel` | statuses of `alerts:market:status` on their way |
| `listening` | the trader's subscription to the statuses lives |
| `level` | the level of each session's `RiskManager`, or none |
| `faults`, `crashes` | counters of the bounds |

| Action | Code |
|---|---|
| `StartAnalysis`, `Volatility`, `FlashDip`, `VolumeAnomaly`, `RsiExtreme`, `Correlation`, `NoCorrelation` | `analyze` and its five checks.  How many pairs had candles and how many of those are hits is any choice; thresholds, weights and caps are the code's |
| `CheckFails` | a check raises: it is logged and adds nothing.  It always does when `fetch_ohlcv` takes no `limit` |
| `Publish`, `PublishFails` | the status is set, then published or not |
| `HandleMarketStatus`, `SessionStarts`, `SessionEnds` | the trader: `_handle_market_status` in one step, sessions that start at GREEN |
| `SubscriptionEnds` | `listen()` raises outside the `try` of `RedisClient.subscribe`, in a task that nobody watches: no status is heard until the trader restarts |
| `GuardianCrash`, `TraderCrash` | restarts; the subscriber's messages are lost |

Two facts decide what the guardian can do at all, and are constants: `TakesLimit`
(the fetcher has a parameter `limit`) and `HasAtr` (the calculator adds a column
`atr`).  In the code both are false.  With `TakesLimit = FALSE` every check raises
and nothing else in the module can happen (`BlindStaysGreen`, run `blind`).  The
run `guard` and the theorems look at the scoring itself, with a fetcher that takes
the limit, which is the program the authors had in mind.

## How the analyst is modelled

| Variable | Code |
|---|---|
| `loop` | where `_analyze_and_publish` and `_process_pair_timeframe` stand, and their local variables |
| `applied` | `SignalAggregator._dynamic_weights` |
| `prev`, `local`, `global` | the keys `signal:prev_votes:<pair>`, `strategy:accuracy:<strategy>:<pair>` and `strategy:accuracy:<strategy>` |
| `backtest`, `weights` | the keys `strategy:backtest:<strategy>` and `strategy:weights:dynamic` |
| `scorer` | where `score_loop` stands, and the accuracies it has read |
| `lapsed` | a history: how many keys have expired, and with the counter of a strategy how many votes |
| `casts`, `blends`, `faults` | votes recorded, rounds of the scorer, failures |

| Action | Code |
|---|---|
| `ReadWeights`, `SelectPairs`, `NextPair` | a cycle of the signal loop |
| `CheckAccuracy`, `CountLocal`, `CountGlobal`, `Clear` | `check_accuracy`: votes against the price's move, one counter at a time, then the votes are removed |
| `Vote`, `Record` | strategies, `aggregate`, publication; `record_strategy_votes` |
| `PairFails` | a call raises: logged, next pair |
| `Backtest`, `ReadAccuracy`, `PublishWeights`, `ScoreFails` | a round of the score loop |
| `ExpireVotes`, `ExpireCounter`, `ExpireTotal`, `ExpireWeights` | Redis drops one key: votes, the counter of a pair, that of a strategy, or the weights.  Each key has a lifetime of its own and may go between any two calls, also between the two counters of one vote |
| `Crash` | the process restarts; Redis keeps what it has |

A counter in Redis says how many votes were judged since it last expired.  What was
judged in all is `JudgedSoFar`, the counter and the votes that lapsed with it, and
the properties are about this number.

A call that writes may raise although it took effect (`Answered`).  `Aggregate` is
the pure function of the three modes; `SignalsFollowVotes` evaluates it on every
set of results under every weight that arises.  Prices, indicators and the
outcome of a backtest are choices.  The composite score of a backtest is one of a
few values, so that weights become zero as well as equal.  `casts` counts a vote
when it is recorded; votes kept from an earlier cycle because all strategies hold
or the price is flat are judged later, and once.

## How the web process is modelled

| Variable | Code |
|---|---|
| `rows` | the table of users: the columns that the handlers check or that other parts read |
| `slots` | requests under way: the row loaded, the row wanted, and for a webhook its event |
| `subs`, `events` | Stripe: subscriptions, and the events it emitted (external) |
| `handled` | events that were answered with success |
| `expired`, `requests`, `faults` | reset tokens whose hour is over; counters of the bounds |
| `past` | a history for the properties: plans granted, tokens spent, those of them that another request had found in time (`raced`), wallets claimed twice at once, order of deliveries |

| Action | Code |
|---|---|
| `Handle` | a handler loads the row and checks it: `update_settings`, `update_selected_pairs`, `update_exchange_keys`, `control_bot`, `delete_wallet`, `delete_user_data` |
| `Wallet`, `CheckWallet` | `save_wallet`, `wallet_link`: the row is loaded, the wallet is looked up, then written |
| `ForgotPassword`, `ResetPassword`, `ExpireToken` | a token is made, is used to set a password, or grows old |
| `Register` | look-up and insertion; the email is unique in the table, so that the two are one step |
| `DebugUpdate`, `DebugCreate` | `debug_create_user`, which checks nothing: password and `bot_active` of a row there is, or a new row with the plan pro |
| `SeedAdmin` | `seed_admin` when the process starts again: the admin's row with the plan enterprise, or its `bot_active` |
| `Checkout`, `Pay`, `Change`, `Cancel` | what a customer does at Stripe |
| `Deliver` | `stripe_webhook` finds the user and loads the row; an event may be delivered again |
| `Commit` | the session writes |
| `Lose` | the process restarts or the database raises |

The heart of it is `Written`: a session of the ORM sends the columns that differ
from what it loaded and leaves the others to what has become of them.  Two
requests on one row therefore do not undo each other, but each has checked a row
that may be old.  Of a handler, what it may want is a set of rows.  A password, the
ciphers of keys and a reset token are named by the number of the request that made
them: no two requests make the same.

A row that was erased stays in the table and is nobody's: in the code its email is
anonymised, so that the same email could register, or be seeded, as another row.
The model has one row for each email and leaves that second life out.

## Runs

| Run | Checks | Instance and why it is enough |
|---|---|---|
| `books` | `TypeOK`, `BookIsSum`, `FilledInFull`, `CapsHold`, `MoneyConserved`, `OpensOnSoundEquity`, `ImplementsLedger` | three symbols, two of one group with one place, two pairs, three opens, one failing write, prices that double and halve, days that pass, three published levels (one unknown): losses reach the daily limit and the breaker, both tasks close, also the same list, and a symbol is reopened while the monitor holds it |
| `shortage` | `NeverOverdrawn`, `EngineWithinTracker`, `RowsAddUp`, `RedFlattens` | three symbols, positions of 70 %, so that the second is cut and the third is cut or rejected, at prices where the fee decides whether one unit more can be paid; one failing write; GREEN, ORANGE and RED at any time, fair tasks |
| `reconcile` | `BuysWhenAllowed`, `Converges`, `RedEmptiesTheAccount` | futures, two symbols, one of them perhaps held before the session starts, RED published at any moment; one signal, one fault, one position closed by the exchange: a lost answer to any call, the SELL of the monitor included, a stale listing, a stop, and a BUY that RED overtakes while its leverage is set, in every order |
| `alarm` | `TypeOK`, `BuysWhenAllowed` | spot, two symbols, four published levels at any moment, two signals, one fault, one restart: the level changes while the balance of a BUY is being fetched, the other symbol is still cooling down, the monitor dies of a failed SELL |
| `follow` | `TypeOK`, `SessionsWereWanted`, `SessionsFollowTheDatabase` | two users, two requests of any kind for either of them, started at any time: both for one user, overtaking each other, or one for each; one failed query or lost subscription, one restart, a refresh in every fourth pass as in the code |
| `guard` | `TypeOK`, `NoLoneAlarm`, `RedNeedsVolatility`, `StandingLevelIsHeard` | three pairs, so that a threshold of 15 or 20 % is rounded to nothing and set to one; a window of three correlations, full after three cycles; one fault (a check, a publication or the subscription), one restart, two statuses under way, a session that comes and goes |
| `vote` | `TypeOK`, `VotesCountOnce`, `CountersAgree`, `SignalsFollowVotes`, `BetterNeverOutweighed`, `NoPairIsStarved` | two strategies of equal weight, one pair with candles and one without, a confidence between the thresholds of paper and live mode and one above both, one vote each, one failure, one key that expires, one round of the scorer: votes judged again after a failure, a counter that expires between the two writes of one vote, weights that are missing, equal or zero |
| `web` | `TypeOK`, `SpentStaysSpent`, `LinkSetsOnePassword`, `SharedOnlyIfContested`, `EndedIsBasic`, `PlanWasGranted`, `ChecksHoldUnlessOvertaken` | two users, one of them the admin, one wallet, two requests at a time, two subscriptions, three requests, four events, one fault: both users claim the wallet, two requests hold one reset link or one that is replaced meanwhile, the debug route starts a live bot, the second subscription replaces the customer of the first, an update arrives after the deletion |

Sizes of the paper runs are scaled.  The code takes 10 % per position and the
basic plan allows 3 pairs; `books` takes 40 % and 2 pairs, with limits of 30 % for
the breaker and 15 % for the day.  What matters is that a few positions use up
most of the cash and a few losses reach the limits.  `FilledInFull` depends on
those shares: they satisfy `PlanHasRoom`, under which it is a theorem; with the ten
pairs of the pro plan it fails, as the run `phantom` shows at the real scale.

Bounds of the paper session: `MaxOpens` positions in a behaviour, `MaxDbErrors`
failed writes.  Bounds of the live session: `MaxSignals` signals that start a
trade, `MaxFaults` calls that fail or lose their answer, `MaxStops` positions
closed by the exchange, `MaxCrashes` restarts.  Two signals (`alarm`) are what it
takes to have one symbol bought and sold again, or two symbols in flight one after
the other; the tasks that disturb them (monitor, validation) are not bounded.
`reconcile` has a single signal and no restart, because liveness over RED and all
faults is expensive: what differs after a restart is a session that starts on
positions of the account, and every behaviour of the run may start like that.
Bounds of the lifecycle: the set `Requests`, `MaxFaults`, `MaxCrashes`.
Bounds of the guardian: `MaxFaults` checks or publications that fail for a reason
of their own, `MaxCrashes`, `MaxQueue` statuses under way.  Bounds of the analyst:
`MaxCasts` votes of a strategy, `MaxFaults` failures and restarts, `MaxExpiries` keys
that expire, `MaxBlends` rounds of the scorer; cycles are not bounded.  One expiry
and one failure are what a vote counted in one counter and not in the other takes,
and the theorems hold for any number of them.  Bounds of the web process:
`MaxRequests`, `MaxEvents`, `MaxFaults`, and `Room`, which trades requests for
events: three requests and no event, two and one, one and two, none and four.  Four events are a completion, an update, a deletion and one of
the other subscription; three requests are two that race for a row and one that
changed it before.
Symbols, users, slots and subscriptions that play the same part are symmetric in
the runs whose configuration says so, none of which has liveness.

Deadlock is checked in every run but two.  In `follow` the iteration may raise, and
in `web` nobody has to send another request; with the bounds used up the system
then really stands still.

Fairness: `FairSpec` of the paper session is weakly fair to the rest of a signal's
handling and to the monitor.  The loop resumes a task whose await has returned, and
the awaits do return: errors of Redis, of the database and of the notifier are
caught where they arise.  Nothing is assumed about signals or about the guardian.
The live session's `FairSpec` adds that a call is answered (`Serve`), which the
client's timeout ensures, and the same fairness for the validation task; a fault,
a stop or a crash is never assumed to happen.  `Converges` needs no assumption
that faults cease, since their number is bounded.  It and `RedEmptiesTheAccount`
suppose `MonitorLives`: a SELL of the monitor that fails, or whose answer is lost,
ends the monitor for good (`trader_bot.py:651`), and with it both the closing of
positions and the reconciliation.  The faults of `reconcile` include that one.
The lifecycle's `FairSpec` is weakly fair to what a web handler has begun, to the
control handler, the monitor and the boot.  Nobody has to make a request, and a
message may always be lost.  `SessionsFollowTheDatabase` supposes that the monitor
has not ended for good, since then nothing refreshes: the run `isolated` shows how
that happens.
The guardian's loop catches every error and sleeps 60 s, so that its next step
comes, and the trader's subscription hands over what it receives as long as it
lives; it may end at any moment, after which only a restart of the trader begins
another one.  `StandingLevelIsHeard` is therefore about behaviours in which there is
a subscription again and again.  Sessions need not start or stop.  The analyst's signal loop goes on after every error; nothing is
assumed about the score loop, about expiring keys or about which pair is taken up
first.  `Accounts` has no liveness: nothing retries what a request has lost.

## Disagreements with the documentation

Each of these runs checks a sentence of the documentation and finds a behaviour
of the code that contradicts it.

| Run | Sentence | Code |
|---|---|---|
| `phantom` | "Paper trading with realistic fill simulation (slippage, spread)" (`README.md:124`) | an order cut or rejected for lack of cash is tracked uncut, and its close sells more than was bought |
| `short` | "RED (close all)" (`README.md:97`) | the monitor and a SELL signal can both sell the same position, and the account goes short; a short is then closed with yet another SELL |
| `isolated` | "shared executor with per-user isolated sessions" (`README.md:134`) | a start or stop of one user while the monitor awaits inside its iteration changes the dict's size; the iteration raises, and no user's session is monitored any more |
| `blind` | "proactively halts trading before a crash hits" (`README.md:90`) | every check of the guardian passes `limit` to a `fetch_ohlcv` that does not take it; all raise, and the level stays GREEN with every pair in distress |

Other differences are plain from the code and have no run.

In the trader:

* The breaker of a live session compares free USDT with a peak that starts at the
  constant 10000 (`trader_bot.py:669`, `risk_manager.py:48`).  A smaller account
  is halted at its first balance, and a spot account by its first purchase of 10 %.
* One failed SELL at RED ends the monitor loop (`trader_bot.py:651`), and no
  position of any user is closed any more (`README.md:97`).
* A spot user's assets are not in the list of swap positions: each is taken for
  closed by the exchange, and a close is recorded for it (`README.md:115`).
* A BUY of a futures session may be sent at ORANGE or RED: the level is not looked at
  again after `set_leverage` (`trader_bot.py:517`).
* Orders are let through as soon as the credentials are good, before
  `recover_positions` has run (`trader_bot.py:79`): after a restart a BUY can add to a
  position that the account holds already.
* ORANGE closes no losing position (`README.md:97`): the monitor asks for
  `realized_pnl < 0`, which is 0 while a position is open (`trader_bot.py:647`).
* Stops protect no position (`Whitepaper.tsx:99`): `_on_price_update`, which would
  look at them, is registered nowhere (`trader_bot.py:291`).
* The breaker of a paper session sees realized losses only: open positions count
  at their entry price (`trader_bot.py:427`).
* A tripped breaker is not released "automatically the next day"
  (`Whitepaper.tsx:95`): no day resets the peak (`risk_manager.py:104`).

In guardian and analyst:

* Even with a fetcher that takes `limit`, RED is out of reach: no column `atr` is
  computed, and the other four caps add up to 70 (`RedNeedsVolatility`).
* "guardian crash → trade continues at GREEN" (`README.md:98`): a guardian that
  stops leaves the sessions at the last level they heard; only a session that
  starts afterwards is GREEN.
* A correlation that is not a number stays in the window for twenty cycles and
  makes every comparison false (`crash_detector.py:257`).
* A strategy whose dynamic weight has become 0 counts with its full static weight
  (`signal_aggregator.py:137`), against "poor performers naturally lose weight"
  (`README.md:83`).
* "checks price direction next cycle" (`README.md:80`): after a flat move, or when
  all strategies hold, older votes stay and are judged in a later cycle.

In the web process:

* "token bucket per user (60 requests/min)" (`README.md:137`): no route depends on
  the class in `web/rate_limiter.py`.
* `register` stores the plan that was chosen, without a payment.
* The column of the wallet is not unique: after two claims at once the look-up of
  `wallet_login` and of every later link finds two rows and raises.
* `update_settings` switches to live mode without asking for keys; a bot that runs
  already goes on.
* `debug_create_user` is mounted and checks nothing (`routers.py:308`): it sets
  password and `bot_active` of any row, also of a live one without keys, and
  writes new rows with a plan nobody paid for and a position beyond its limit.
* Two requests that have found one reset link both set their password, and a link
  that is replaced while it is being used sets one after the newer link exists: the
  token is not asked for again when the row is written (`auth_router.py:175`).
* A handler's checks are of the row it has loaded: a live bot may be started without
  keys, or futures chosen on the basic plan, by a request that another one, or a
  webhook, has overtaken (`user_router.py:90`).
* An erasure keeps the reset token and the customer of the row.
* The strategy scores of `platform_router.py` use a module `json` that is never
  imported.
* The delay of a withdrawal address is stored and enforced nowhere.

## Proofs

`PaperTradingProofs` proves, for every value of the constants that satisfies
`RiskAssumption` and `PaperAssumption`:

| Theorem | States | Rests on |
|---|---|---|
| `TypeCorrect` | `Spec => []TypeOK` | one step per action |
| `PaperMoneyIsNeverOverdrawn` | `Spec => []NeverOverdrawn` | `FilledIsPayable`: the rounded quantity and its rounded fee fit into the cash |
| `EngineStaysWithinTracker` | `Spec => []EngineWithinTracker` | the two above: without cash at zero or above a fill would not be a quantity |
| `CapsAlwaysHold` | `Spec => []CapsHold` | a BUY adds one symbol, a close removes one |
| `RowsAlwaysAddUp` | `Spec => []RowsAddUp` | `RowsInv`: a task outside close and write carries no gain |
| `OpensOnlyOnSoundEquity` | `Spec => OpensOnSoundEquity` | `EngineWithinTracker`, so that the signal's price does not enter the equity, and a peak above zero |
| `MoneyIsConserved` | `Spec /\ []FilledInFull => []MoneyConserved` | entry price and holding agree |
| `SessionIsALedger` | `Spec /\ []FilledInFull => ImplementsLedger` | the same, and `PricesAreQuoted`: the monitor's list holds prices of signals |
| `BookStaysTheSum` | `Spec => []BookIsSum` | a purchase and a close change one holding, hence one term of the sum |
| `RoomyPlansAreFilled` | `PlanHasRoom => (Spec => []FilledInFull)` | `BookIsSum`, a peak above zero, and `HoldingsWithinShare`: each holding was paid with at most `SizePct` of the peak |
| `RoomyPlansConserveMoney` | `PlanHasRoom => (Spec => []MoneyConserved)` | `RoomyPlansAreFilled` |
| `RoomyPlansAreLedgers` | `PlanHasRoom => (Spec => ImplementsLedger)` | `RoomyPlansAreFilled` |
| `RoomyPlansSellWhatIsHeld` | `PlanHasRoom => (Spec => SellsWhatIsHeld)` | `RoomyPlansAreFilled` |

Two lemmas carry the step proofs: `PricedSteps` reduces `Next` to a BUY, a close,
or a step that leaves engine and tracker alone, and `CloseMoves`/`BuyMoves` say
what a close and a BUY look like to the account.

The assumption `[]FilledInFull` of two of the theorems is not decoration: where it
fails, so does conservation, which is the run `phantom`.  `PlanHasRoom` says when
it holds.  An order is `SizePct` of the equity it was sized on, and the breaker
lets a session buy only while equity is at least `100 - BreakerPct` percent of the
peak; every open position was sized on an equity that was no larger than the peak,
so that cash is at least the equity less `MaxPairs - 1` such orders, and
`PlanHasRoom` is the inequality that leaves the next order and its fee.  The sum
of the holdings (`BookIsSum`) is what turns equity into cash.  `NinePairsFit`
evaluates it at the shares of the code (10 %, 10 %, a fee of one thousandth):
nine pairs have room.  The basic plan with 3 pairs is therefore sound at every
price, and the pro plan with 10 is the smallest that is not covered.

`SumsProofs` has the lemmas on `SumOver` that these proofs and those of the analyst
need: adding an element, changing one term, dropping terms that are zero,
comparing two sums.  They are inductions on finite sets; each is written as the
choice of a smallest counterexample, which needs no induction rule.

`LiveTradingProofs` proves, for every value of the constants that satisfies
`RiskAssumption` and `LiveAssumption`:

| Theorem | States | Rests on |
|---|---|---|
| `TypeCorrect` | `Spec => []TypeOK` | `TypeInv`, which adds that a task that awaits an order has a symbol to order |
| `BuysOnlyWhenAllowed` | `Spec => BuysWhenAllowed` | `BuyInv`: while the balance of a BUY is fetched, and its leverage set, its symbol does not cool down and the session is validated (`PlannedBuyStands`), only futures orders wait for their leverage (`LeverageIsOfFutures`), and `created` is never taken back within a session (`ValidationComesFirst`) |

`BuysWhenAllowed` is not inductive.  The handler checks level, cooldown and
validation, then suspends.  Cooldown and validation survive the suspension
because only the handler itself starts a cooldown and only the validation task
writes `created`, once; this is what `BuyInv` says.  The level does not survive
it: there the size, computed after the suspension, is zero at ORANGE and RED.  On
spot the order is sent in the same step.  On futures `set_leverage` is awaited in
between, and nobody looks at the level again: a BUY sized at GREEN may be sent at
RED (`trader_bot.py:517`), and the theorem says only that its size was computed at a
level that allows it.  What `reconcile` adds is that the monitor then sells what
such a BUY bought (`RedEmptiesTheAccount`).

`SessionLifecycleProofs` proves, for every value of the constants that satisfies
`LifecycleAssumption`, with any number of requests, faults and restarts:

| Theorem | States | Rests on |
|---|---|---|
| `TypeCorrect` | `Spec => []TypeOK` | one step per action; the counter of passes is reset in time |
| `SessionsAreWanted` | `Spec => []SessionsWereWanted` | `WantedInv`: whatever can still start a bot was wanted when it set out: the rows of a refresh, a start in the channel, a start that a handler has committed, a row that was loaded as active |

`WantedInv` is needed because a session is created from old news: from a message
or from rows that were read before an await.

`CrashGuardProofs` proves, for every value of the constants that satisfies
`GuardAssumption`, with any number of pairs, faults and restarts:

| Theorem | States | Rests on |
|---|---|---|
| `TypeCorrect` | `Spec => []TypeOK` | one step per action; `RecentShort` bounds the window |
| `NoCheckAloneAlarms` | `Spec => []NoLoneAlarm` | `Accounted` |
| `RedTakesVolatility` | `Spec => []RedNeedsVolatility` | `Accounted` |
| `BlindStaysGreen` | `Spec => [](status.level = "GREEN")`, assuming `~TakesLimit` | without a limit only `CheckFails` leaves a check |

`NoLoneAlarm` speaks of the published status, which is judged from a score that
five actions have added up.  `Accounted` says that the score is at most the sum of
the caps of the triggers there are, and that a check which has not run has no
trigger; `ShareBounded` proves that the rounded share of a check stays below its
cap, `ReachesOne` that a check triggers with at least one hit.

`SignalVoteProofs` proves, for every value of the constants that satisfies
`VoteAssumption`, for any number of strategies, pairs, votes and failures:

| Theorem | States | Rests on |
|---|---|---|
| `VotesAreJudgedOnce` | `Spec => []VotesCountOnce` | `VoteInv` |
| `AnalystTypes` | `Spec => []TypeOK` | `TypeInv`: `VoteInv`, the bounds, weights and scores as shares (`Weighed`), and no counter with more right votes than votes (`Judged`) |
| `TheBetterIsNotOutweighed` | `Spec => BetterNeverOutweighed` | `TypeInv`, and that the rounded quotient of a larger share by the same maximum is no smaller |
| `CountersNeverPart` | `Spec => []CountersAgree` | `TypeInv`, with which it is inductive: the sum over the pairs (`Tally`) moves with the one counter that is written |
| `SignalsComeFromVotes` | `Spec => []SignalsFollowVotes` | `AggregateFollows`: a fact about the function, for any set of results and any weights |

`VoteInv` is an account: what a strategy has been judged for, plus the
pairs where a vote of it waits to be judged (in Redis, or in the hands of the loop),
is at most the votes it cast plus the failures.  Each step moves a vote from one
side to the other, loses it, or pays for a second judgement with a failure.  A
strategy has been judged for what its counter says and for what the counter said
whenever it expired (`JudgedSoFar`), so that the account stands however often, and
in whatever order, the keys expire; the counter of a pair that expires only makes
the smaller side of `CountersAgree` smaller.

`AccountsProofs` proves, for every value of the constants that satisfies
`AccountsAssumption` and `NoRowAssumption`, with any number of users, wallets,
subscriptions and requests:

| Theorem | States | Rests on |
|---|---|---|
| `WalletsSharedOnlyIfContested` | `Spec => []SharedOnlyIfContested` | `ClaimedOnce`: of two slots or rows with one wallet, at most one has claimed it, or the wallet is contested |
| `PlansWereGranted` | `Spec => []PlanWasGranted` | `PlanInv`: the plan of every row, of every row that a request has loaded or wants, and of every event was chosen, given or paid by the user concerned |
| `SpentTokensStaySpent` | `Spec => []SpentStaysSpent` | `TokenInv`: tokens are numbers of past requests, each belongs to one user, and a request that would write a token is the one that made it |
| `LinksSetOnePassword` | `Spec => LinkSetsOnePassword` | `Found`: a request about to set a password with a token that is spent by now had found the token while it was good |
| `ChecksHold` | `Spec => ChecksHoldUnlessOvertaken` | `Checked`: what a request wants is allowed by the row it loaded, touches nothing that is checked, or comes by the debug route |
| `WebTypesHold` | `Spec => []TypeOK` | `WebInv`: events are numbered without a gap, whatever names an event names one that was emitted, and `Room` keeps both bounds |
| `EndedSubscriptionsAreBasic` (in `SubscriptionProofs`) | `Spec => []EndedIsBasic` | `EndInv` |

All stand on `NextKinds`, which reduces the actions to a few kinds of step (a
slot is taken, ended or lost, a row is written, inserted or reactivated by the
seeding, Stripe moves), and on
`Base`: the slots are typed (`Shape`), and a request changes only the columns of its
kind (`Wants`).  None of the first five properties is inductive, because the rows that
requests hold are older than the table; each invariant says of an old row what the
property says of the table.  `AccountsAssumption` asks for at least one request and
one event: with a bound of zero `Room` would not bound the other.

`EndedIsBasic` speaks of all deliveries since the beginning, and `EndInv` of what
they have left behind.  Its first part is what the events say of the subscriptions
(`EventLog`: the checkout is the first event of a subscription, its end the last,
and both are there if its status says so).  The second is that a request which is
no webhook leaves plan and customer alone (`Plain`).  The third holds while the
webhooks were in order (`InOrder`): at most one is under way and it is about the
event delivered last (`InFlight`), and the row of a user follows what was handled
(`Follows`): after a checkout there is a customer, it is a subscription of this user
whose checkout was handled, and if its end was handled too, the plan is basic.  A
second checkout replaces the customer, after which the end of the first subscription
finds nobody; the property survives that because the subscription that replaced it
has to end as well.  TLC checked `EndInv` on the instance of `web` before it was
proved.

Only model-checked: `Converges`, `RedEmptiesTheAccount`, `RedFlattens`, `SessionsFollowTheDatabase`,
`StandingLevelIsHeard` and `NoPairIsStarved`.  They are liveness under fairness,
which rests on `ENABLED` and is out of the prover's reach.  Every invariant and every
action property of a passing run is a theorem; `FilledInFull`, `MoneyConserved` and
`ImplementsLedger` for plans with room, as they must be.

## What is not modelled

`PROJECT.json` names each part with the reason.

* *Numbers from market data*: the fifteen strategies, the indicators, the backtests,
  the ranking of pairs.  They share no state; what they return is chosen freely.
* *Rate limiters*: the one of an exchange client admits 20 calls a second and
  belongs to one session, whose three tasks have one call each under way; the one of
  the web process is used by no route.
* *Backtest, front end, tickers, configuration, notifier*: no trading decision
  reads them, or they only read.
* In the sessions: limit orders and `PaperEngine.update_price` are called by nothing;
  stop loss and take profit are stored and never used; `_daily_peak` is written and
  never read; log lines, notifications and the heartbeat of the analyst (`_standby`
  is set and never consulted before a trade) have no effect on trading.  The orders
  that `stop()` sends when the trader shuts down are left out.
* In the web process: logins, verification of emails, the admin's user list, API
  keys, preferences, strategy settings and withdrawal addresses: columns that no
  other handler checks.

## Plan

Done: the paper session with its ledger, the live session, the session lifecycle,
the guardian, the analyst's votes and weights, and the web process.  Next:

1. Composition of the lifecycle with a session: what a dropped or restarted session
   loses, orders for a session that is no longer in the dict, the orders of `stop()`.
2. `RateWindow` (`shared/rate_limiter.py`): callers that sleep and do not look again
   when they wake, for a client that is shared by more than one session.
3. Proof that `LiveTrading`'s tracker changes only as an abstract account allows.
