------------------------------ MODULE SignalVote ------------------------------
(***************************************************************************)
(* The analyst: a loop that has the strategies vote on every selected pair *)
(* and publishes the signal the votes add up to; and the scorer, which     *)
(* counts in Redis how often each strategy was right, rates it on past     *)
(* prices, and blends both into the weights of the next votes.             *)
(*                                                                         *)
(* Both are tasks of one event loop: they interleave at every call to      *)
(* Redis, each of which may raise, before or after it took effect.  A      *)
(* timeframe of a symbol is a pair here, as it is for every key of Redis.  *)
(***************************************************************************)
EXTENDS Integers, FiniteSets, Sums

CONSTANTS
  Strategies,   (* enabled strategies                                       *)
  Weight,       (* strategy -> weight of strategies.yaml, in per cent       *)
  Pairs,        (* symbol and timeframe                                     *)
  Broken,       (* pairs without candles                                    *)
  Confidences,  (* confidences of a vote, in per cent                       *)
  NoPair,       (* no pair                                                  *)
  NoStrategy,   (* no strategy                                              *)
  Composites,   (* strategy -> composite scores of backtests, in per mille  *)
  MaxBlends,    (* bound of the model: rounds of the scorer                 *)
  MaxCasts,     (* bound of the model: votes cast per strategy              *)
  MaxFaults,    (* bound of the model: failing calls and restarts           *)
  MaxExpiries   (* bound of the model: keys of Redis that expire            *)

(* Scores and accuracies are in per mille, published weights in 1/10000.    *)
Thousandths == 0..1000
TenThousandths == 0..10000

ASSUME VoteAssumption ==
  /\ IsFiniteSet(Strategies)
  /\ IsFiniteSet(Pairs)
  /\ Weight \in [Strategies -> 1..100]
  /\ Broken \subseteq Pairs
  /\ Confidences \subseteq 1..100
  /\ Composites \in [Strategies -> SUBSET Thousandths]
  /\ MaxBlends \in Nat
  /\ MaxCasts \in Nat
  /\ MaxFaults \in Nat
  /\ MaxExpiries \in Nat

VARIABLES
  loop,      (* the signal loop: where it is, and its local variables       *)
  applied,   (* SignalAggregator._dynamic_weights                           *)
  prev,      (* signal:prev_votes:<pair>: strategy -> vote                  *)
  local,     (* strategy:accuracy:<strategy>:<pair>                         *)
  global,    (* strategy:accuracy:<strategy>                                *)
  backtest,  (* strategy:backtest:<strategy>, its composite score           *)
  weights,   (* strategy:weights:dynamic, in 1/10000                        *)
  scorer,    (* the score loop: where it is, and the accuracies it has read *)
  lapsed,    (* what expired: the number of keys, and of each strategy the  *)
             (* votes in its own counter                                    *)
  casts,     (* strategy -> votes recorded so far                           *)
  blends,    (* rounds of the scorer so far                                 *)
  faults     (* failures so far                                             *)

keys == <<prev, local, global, lapsed>>
vars == <<loop, applied, prev, local, global, lapsed, backtest, weights, scorer,
          casts, blends, faults>>

------------------------------------------------------------------------------
(* Data.                                                                   *)

Directions == {"buy", "sell"}
Modes == {"weighted", "strict", "majority"}

NoVotes  == [n \in {} |-> "buy"]
NoScore  == -1
Unscored == [n \in {} |-> 0]
Counter  == [correct : Nat, total : Nat]
Zero     == [correct |-> 0, total |-> 0]

(* A strategy holds, without confidence, or votes with some.               *)
Opinion == [action : {"hold"}, confidence : {0}]
           \cup [action : Directions, confidence : Confidences]

(* A strategy that raises has no result.                                   *)
Results == UNION {[S -> Opinion] : S \in SUBSET Strategies}

Voters(results) == {n \in DOMAIN results : results[n].action # "hold"}

------------------------------------------------------------------------------
(* The aggregator.                                                         *)

(* strategies.yaml: confidence and action thresholds in per cent.          *)
ConfidenceThreshold(paper) == IF paper THEN 15 ELSE 50
ActionThreshold(paper)     == IF paper THEN 5 ELSE 15
MinSignals(paper)          == IF paper THEN 1 ELSE 2

Confident(results, paper, action) ==
  {n \in DOMAIN results : /\ results[n].action = action
                          /\ results[n].confidence >= ConfidenceThreshold(paper)}

(* Slip: a dynamic weight of 0 is taken as it is.                          *)
WeightOfZero(n) == IF n \in DOMAIN applied THEN applied[n] ELSE Weight[n] * 100

(* dynamic.get(name) or static.get(name): 0 counts as missing.             *)
WeightOf(n) ==
  IF n \in DOMAIN applied /\ applied[n] # 0 THEN applied[n] ELSE Weight[n] * 100

Worth(results) ==
  [n \in DOMAIN results |-> WeightOf(n) * results[n].confidence]

For(results, action) ==
  SumOver(Worth(results), {n \in DOMAIN results : results[n].action = action})

(* The score is divided by the weight of all results; what holds has no    *)
(* confidence, and no weight.                                              *)
Weighted(results, paper) ==
  LET buy   == For(results, "buy")
      sell  == For(results, "sell")
      limit == ActionThreshold(paper) * (buy + sell)
  IN IF (buy - sell) * 100 > limit THEN "buy"
     ELSE IF (sell - buy) * 100 > limit THEN "sell" ELSE "hold"

Majority(results, paper) ==
  LET buys  == Cardinality(Confident(results, paper, "buy"))
      sells == Cardinality(Confident(results, paper, "sell"))
  IN IF buys > sells THEN "buy" ELSE IF sells > buys THEN "sell" ELSE "hold"

Strict(results, paper) ==
  IF Confident(results, paper, "sell") # {} THEN "sell"
  ELSE Weighted(results, paper)

(* aggregate: the action of the signal.                                    *)
Aggregate(mode, results, paper) ==
  IF Cardinality(DOMAIN results) < MinSignals(paper) THEN "hold"
  ELSE IF mode = "strict" THEN Strict(results, paper)
  ELSE IF mode = "majority" THEN Majority(results, paper)
  ELSE Weighted(results, paper)

------------------------------------------------------------------------------
(* The signal loop.                                                        *)

(* counting are the strategies of votes still to be counted, turn the one  *)
(* whose vote is being counted.                                            *)
Asleep == [at |-> "sleep", todo |-> {}, pair |-> NoPair, move |-> "flat",
           counting |-> {}, turn |-> NoStrategy, votes |-> NoVotes]

At(place) == loop.at = place
Goes(place) == loop' = [loop EXCEPT !.at = place]
Leaves == loop' = [Asleep EXCEPT !.at = "next", !.todo = loop.todo]
Fails == faults < MaxFaults /\ faults' = faults + 1

(* The call returns, or raises although it took effect.                    *)
Answered(go) ==
  \/ go /\ UNCHANGED faults
  \/ Fails /\ Leaves

(* A call of _process_pair_timeframe raises before it took effect: the     *)
(* error is logged, the next pair follows.                                 *)
PairFails ==
  /\ loop.at \in {"check", "count", "global", "vote", "record"}
  /\ Fails
  /\ Leaves
  /\ UNCHANGED <<applied, keys, backtest, weights, scorer, casts, blends>>

(* _analyze_and_publish reads the weights; an error ends the cycle.        *)
ReadWeights ==
  /\ At("sleep")
  /\ \/ applied' = weights /\ Goes("pairs") /\ UNCHANGED faults
     \/ Fails /\ UNCHANGED <<loop, applied>>
  /\ UNCHANGED <<keys, backtest, weights, scorer, casts, blends>>

(* The pairs of the largest volume, or the default ones.                   *)
SelectPairs ==
  /\ At("pairs")
  /\ \E S \in SUBSET Pairs : loop' = [loop EXCEPT !.at = "next", !.todo = S]
  /\ UNCHANGED <<applied, keys, backtest, weights, scorer, casts, blends, faults>>

(* Slip: a pair without candles ends the cycle.                            *)
NextPairOrEnd ==
  /\ At("next")
  /\ \/ loop.todo = {} /\ loop' = Asleep
     \/ \E p \in loop.todo :
          \/ loop' = [Asleep EXCEPT !.pair = p]
          \/ /\ p \notin Broken
             /\ \E move \in Directions \cup {"flat"} :
                  loop' = [loop EXCEPT !.at = "check", !.pair = p,
                                       !.todo = @ \ {p}, !.move = move]
  /\ UNCHANGED <<applied, keys, backtest, weights, scorer, casts, blends, faults>>

(* The price has moved since the last vote by more than 0.1 %, or not.  A  *)
(* pair without candles is passed over.                                    *)
NextPair ==
  /\ At("next")
  /\ \/ loop.todo = {} /\ loop' = Asleep
     \/ \E p \in loop.todo :
          \/ loop' = [loop EXCEPT !.pair = p, !.todo = @ \ {p}]
          \/ /\ p \notin Broken
             /\ \E move \in Directions \cup {"flat"} :
                  loop' = [loop EXCEPT !.at = "check", !.pair = p,
                                       !.todo = @ \ {p}, !.move = move]
  /\ UNCHANGED <<applied, keys, backtest, weights, scorer, casts, blends, faults>>

(* check_accuracy: without votes, or without a move, nothing is counted    *)
(* and the votes are left as they are.                                     *)
CheckAccuracy ==
  /\ At("check")
  /\ loop' = IF prev[loop.pair] = NoVotes \/ loop.move = "flat"
             THEN [loop EXCEPT !.at = "vote", !.move = "flat"]
             ELSE [loop EXCEPT !.at = "count", !.votes = prev[loop.pair],
                               !.counting = DOMAIN prev[loop.pair]]
  /\ UNCHANGED <<applied, keys, backtest, weights, scorer, casts, blends, faults>>

(* Slip: the two numbers of a counter are mixed up.                        *)
CountedMixedUp(counter, vote) ==
  [correct |-> counter.correct + 1,
   total   |-> counter.total + (IF vote = loop.move THEN 1 ELSE 0)]

Counted(counter, vote) ==
  [correct |-> counter.correct + (IF vote = loop.move THEN 1 ELSE 0),
   total   |-> counter.total + 1]

(* GET and SET of the counter of strategy and pair, then of that of the    *)
(* strategy: the loop is the only one that writes them.                    *)
CountLocal(n) ==
  /\ At("count")
  /\ n \in loop.counting
  /\ local' = [local EXCEPT ![n][loop.pair] = Counted(@, loop.votes[n])]
  /\ Answered(loop' = [loop EXCEPT !.at = "global", !.turn = n])
  /\ UNCHANGED <<applied, prev, global, lapsed, backtest, weights, scorer, casts, blends>>

(* Slip: only votes that were right are counted for the strategy.          *)
CountGlobalRight(n) ==
  /\ At("global")
  /\ n = loop.turn
  /\ global' = IF loop.votes[n] = loop.move
               THEN [global EXCEPT ![n] = Counted(@, loop.votes[n])]
               ELSE global
  /\ Answered(loop' = [loop EXCEPT !.at = "count", !.counting = @ \ {n},
                                   !.turn = NoStrategy])
  /\ UNCHANGED <<applied, prev, local, lapsed, backtest, weights, scorer, casts, blends>>

CountGlobal(n) ==
  /\ At("global")
  /\ n = loop.turn
  /\ global' = [global EXCEPT ![n] = Counted(@, loop.votes[n])]
  /\ Answered(loop' = [loop EXCEPT !.at = "count", !.counting = @ \ {n},
                                   !.turn = NoStrategy])
  /\ UNCHANGED <<applied, prev, local, lapsed, backtest, weights, scorer, casts, blends>>

(* Slip: the votes that were counted are kept.                             *)
ClearNothing ==
  /\ At("count")
  /\ loop.counting = {}
  /\ Answered(loop' = [loop EXCEPT !.at = "vote", !.move = "flat",
                                   !.votes = NoVotes])
  /\ UNCHANGED <<applied, keys, backtest, weights, scorer, casts, blends>>

(* What was counted is replaced by nothing.                                *)
Clear ==
  /\ At("count")
  /\ loop.counting = {}
  /\ prev' = [prev EXCEPT ![loop.pair] = NoVotes]
  /\ Answered(loop' = [loop EXCEPT !.at = "vote", !.move = "flat",
                                   !.votes = NoVotes])
  /\ UNCHANGED <<applied, local, global, lapsed, backtest, weights, scorer, casts, blends>>

(* The strategies vote and the signal is published.  Without indicators or *)
(* results the pair is passed over.  Of the results, the votes are kept.   *)
Vote ==
  /\ At("vote")
  /\ \/ Leaves
     \/ \E results \in Results :
          /\ DOMAIN results # {}
          /\ \A n \in Voters(results) : casts[n] < MaxCasts
          /\ loop' = [loop EXCEPT
                        !.at = "record",
                        !.votes = [n \in Voters(results) |-> results[n].action]]
  /\ UNCHANGED <<applied, keys, backtest, weights, scorer, casts, blends, faults>>

(* record_strategy_votes: if all hold, the votes before them are left.     *)
Record ==
  /\ At("record")
  /\ prev' = IF loop.votes = NoVotes THEN prev
             ELSE [prev EXCEPT ![loop.pair] = loop.votes]
  /\ casts' = [n \in Strategies |->
                 IF n \in DOMAIN loop.votes THEN casts[n] + 1 ELSE casts[n]]
  /\ Answered(Leaves)
  /\ UNCHANGED <<applied, local, global, lapsed, backtest, weights, scorer, blends>>

------------------------------------------------------------------------------
(* The score loop.                                                         *)

Resting == [at |-> "sleep", todo |-> {}, read |-> Unscored]

Rated == {n \in Strategies : backtest[n] # NoScore}

(* A share of the best, in per mille; one half if the best is nothing.     *)
ShareOfBest(x, S) == IF Max(S) > 0 THEN (x * 1000) \div Max(S) ELSE 500

BacktestShare(n) == ShareOfBest(backtest[n], {backtest[m] : m \in Rated})

AccuracyShare(n) ==
  ShareOfBest(scorer.read[n], {scorer.read[m] : m \in DOMAIN scorer.read})

(* Slip: the blend subtracts the accuracy.                                 *)
BlendedAgainst(n) ==
  IF n \in Rated
  THEN IF n \in DOMAIN scorer.read
       THEN (7 * BacktestShare(n) + 3 * (1000 - AccuracyShare(n))) \div 10
       ELSE BacktestShare(n)
  ELSE IF n \in DOMAIN scorer.read THEN AccuracyShare(n) ELSE 1000

(* 0.7 of the backtest and 0.3 of the accuracy; what is missing is left    *)
(* out, and a strategy of which nothing is known counts in full.           *)
Blended(n) ==
  IF n \in Rated
  THEN IF n \in DOMAIN scorer.read
       THEN (7 * BacktestShare(n) + 3 * AccuracyShare(n)) \div 10
       ELSE BacktestShare(n)
  ELSE IF n \in DOMAIN scorer.read THEN AccuracyShare(n) ELSE 1000

Dynamic(n) == Weight[n] * Blended(n)

(* Normalised to a sum of one, and rounded.                                *)
NewWeights ==
  LET sum == SumOver([n \in Strategies |-> Dynamic(n)], Strategies)
  IN [n \in Strategies |-> IF sum > 0 THEN (Dynamic(n) * 10000) \div sum
                                      ELSE Dynamic(n)]

Scores(tested) ==
  {score \in [tested -> UNION {Composites[n] : n \in tested}] :
     \A n \in tested : score[n] \in Composites[n]}

(* run_backtest_scores: some strategies get a score.                       *)
Backtest ==
  /\ scorer.at = "sleep"
  /\ blends < MaxBlends
  /\ blends' = blends + 1
  /\ \E tested \in SUBSET Strategies : \E score \in Scores(tested) :
       backtest' = [n \in Strategies |-> IF n \in tested THEN score[n] ELSE backtest[n]]
  /\ \/ scorer' = [Resting EXCEPT !.at = "read", !.todo = Strategies] /\ UNCHANGED faults
     \/ Fails /\ UNCHANGED scorer
  /\ UNCHANGED <<loop, applied, keys, weights, casts>>

(* _blend_and_publish_weights reads one counter at a time.                 *)
ReadAccuracy(n) ==
  /\ scorer.at = "read"
  /\ n \in scorer.todo
  /\ scorer' =
       [scorer EXCEPT
          !.todo = @ \ {n},
          !.read = IF global[n].total = 0 THEN @
                   ELSE [m \in {n} \cup DOMAIN @ |->
                           IF m = n THEN (global[n].correct * 1000) \div global[n].total
                           ELSE scorer.read[m]]]
  /\ UNCHANGED <<loop, applied, keys, backtest, weights, casts, blends, faults>>

PublishWeights ==
  /\ scorer.at = "read"
  /\ scorer.todo = {}
  /\ weights' = NewWeights
  /\ scorer' = Resting
  /\ UNCHANGED faults \/ Fails
  /\ UNCHANGED <<loop, applied, keys, backtest, casts, blends>>

ScoreFails ==
  /\ scorer.at = "read"
  /\ Fails
  /\ scorer' = Resting
  /\ UNCHANGED <<loop, applied, keys, backtest, weights, casts, blends>>

------------------------------------------------------------------------------
(* Redis drops a key when its time is over, an hour for votes and a day for*)
(* the rest: the counter of a strategy and those of its pairs each on its  *)
(* own, between any two calls of the loops.  The scores of the backtests,  *)
(* renewed every six hours, stay.                                          *)

(* A key expires, and with it so many votes of a strategy's counter.       *)
Expires(votes) ==
  /\ lapsed.keys < MaxExpiries
  /\ lapsed' = [keys |-> lapsed.keys + 1, votes |-> votes]

ExpireVotes(p) ==
  /\ prev[p] # NoVotes
  /\ prev' = [prev EXCEPT ![p] = NoVotes]
  /\ Expires(lapsed.votes)
  /\ UNCHANGED <<loop, applied, local, global, backtest, weights, scorer, casts, blends, faults>>

ExpireCounter(n, p) ==
  /\ local[n][p] # Zero
  /\ local' = [local EXCEPT ![n][p] = Zero]
  /\ Expires(lapsed.votes)
  /\ UNCHANGED <<loop, applied, prev, global, backtest, weights, scorer, casts, blends, faults>>

ExpireTotal(n) ==
  /\ global[n] # Zero
  /\ global' = [global EXCEPT ![n] = Zero]
  /\ Expires([lapsed.votes EXCEPT ![n] = @ + global[n].total])
  /\ UNCHANGED <<loop, applied, prev, local, backtest, weights, scorer, casts, blends, faults>>

ExpireWeights ==
  /\ weights # Unscored
  /\ weights' = Unscored
  /\ Expires(lapsed.votes)
  /\ UNCHANGED <<loop, applied, prev, local, global, backtest, scorer, casts, blends, faults>>

Crash ==
  /\ Fails
  /\ loop' = Asleep
  /\ applied' = Unscored
  /\ scorer' = Resting
  /\ UNCHANGED <<keys, backtest, weights, casts, blends>>

------------------------------------------------------------------------------
Init ==
  /\ loop = Asleep
  /\ applied = Unscored
  /\ prev = [p \in Pairs |-> NoVotes]
  /\ local = [n \in Strategies |-> [p \in Pairs |-> Zero]]
  /\ global = [n \in Strategies |-> Zero]
  /\ lapsed = [keys |-> 0, votes |-> [n \in Strategies |-> 0]]
  /\ backtest = [n \in Strategies |-> NoScore]
  /\ weights = Unscored
  /\ scorer = Resting
  /\ casts = [n \in Strategies |-> 0]
  /\ blends = 0
  /\ faults = 0

SignalLoop ==
  \/ ReadWeights \/ SelectPairs \/ NextPair \/ CheckAccuracy
  \/ \E n \in Strategies : CountLocal(n) \/ CountGlobal(n)
  \/ Clear \/ Vote \/ Record \/ PairFails

ScoreLoop ==
  \/ Backtest \/ PublishWeights \/ ScoreFails
  \/ \E n \in Strategies : ReadAccuracy(n)

Redis ==
  \/ \E p \in Pairs : ExpireVotes(p)
  \/ \E n \in Strategies : ExpireTotal(n) \/ \E p \in Pairs : ExpireCounter(n, p)
  \/ ExpireWeights

Next == SignalLoop \/ ScoreLoop \/ Redis \/ Crash

Spec == Init /\ [][Next]_vars

(* The signal loop goes on after every error and every sleep of 300 s.     *)
FairSpec == Spec /\ WF_vars(SignalLoop)

------------------------------------------------------------------------------
Partial(f, S, T) == DOMAIN f \subseteq S /\ f \in [DOMAIN f -> T]

LoopPlaces == {"sleep", "pairs", "next", "check", "count", "global", "vote",
               "record"}

LoopTypes ==
  /\ loop = [at |-> loop.at, todo |-> loop.todo, pair |-> loop.pair,
             move |-> loop.move, counting |-> loop.counting,
             turn |-> loop.turn, votes |-> loop.votes]
  /\ loop.at \in LoopPlaces
  /\ loop.todo \subseteq Pairs
  /\ loop.pair \in Pairs \cup {NoPair}
  /\ loop.move \in Directions \cup {"flat"}
  /\ loop.counting \subseteq Strategies
  /\ loop.turn \in Strategies \cup {NoStrategy}
  /\ Partial(loop.votes, Strategies, Directions)

VoteTypes ==
  /\ DOMAIN prev = Pairs
  /\ \A p \in Pairs : Partial(prev[p], Strategies, Directions)
  /\ local \in [Strategies -> [Pairs -> Counter]]
  /\ global \in [Strategies -> Counter]
  /\ \A n \in Strategies : global[n].correct <= global[n].total
  /\ lapsed \in [keys : 0..MaxExpiries, votes : [Strategies -> Nat]]

WeightTypes ==
  /\ Partial(applied, Strategies, TenThousandths)
  /\ Partial(weights, Strategies, TenThousandths)
  /\ backtest \in [Strategies -> Thousandths \cup {NoScore}]
  /\ scorer.at \in {"sleep", "read"}
  /\ scorer.todo \subseteq Strategies
  /\ Partial(scorer.read, Strategies, Thousandths)

TypeOK ==
  /\ LoopTypes
  /\ VoteTypes
  /\ WeightTypes
  /\ casts \in [Strategies -> 0..MaxCasts]
  /\ blends \in 0..MaxBlends
  /\ faults \in 0..MaxFaults

------------------------------------------------------------------------------
(* Safety.                                                                 *)

(* Votes judged for a strategy so far, those included that its counter has *)
(* forgotten.                                                              *)
JudgedSoFar(n) == global[n].total + lapsed.votes[n]

(* A vote is judged at most once, over all interleavings of the cycles and *)
(* of the expiry of keys: a strategy has been judged as often as it voted  *)
(* at most, and once more for each failure, after which the votes of the   *)
(* pair are judged again.                                                  *)
VotesCountOnce ==
  \A n \in Strategies : JudgedSoFar(n) <= casts[n] + faults

(* What was counted for the pairs was counted for the strategy, up to one  *)
(* vote for each failure and the one that is being counted; its counter    *)
(* may have expired since, that of a pair too, each in its time.           *)
Uncounted(n) == IF loop.at = "global" /\ loop.turn = n THEN 1 ELSE 0

CountersAgree ==
  \A n \in Strategies :
    SumOver([p \in Pairs |-> local[n][p].total], Pairs)
      <= JudgedSoFar(n) + faults + Uncounted(n)

(* Whatever the weights, the mode and the thresholds: no BUY or SELL       *)
(* without a strategy that votes for it, and strategies that all vote the  *)
(* same, confident and in sufficient number, are followed, even one whose  *)
(* weight has become 0.  In strict mode a confident SELL is never outvoted.*)
SignalsFollowVotes ==
  At("pairs") =>
    \A results \in Results, mode \in Modes, paper \in BOOLEAN :
      LET signal == Aggregate(mode, results, paper)
          enough == Cardinality(DOMAIN results) >= MinSignals(paper)
      IN /\ signal # "hold" => \E n \in DOMAIN results : results[n].action = signal
         /\ \A action \in Directions :
              (enough /\ Confident(results, paper, action) = DOMAIN results)
                => signal = action
         /\ (mode = "strict" /\ Confident(results, paper, "sell") # {})
              => signal # "buy"

(* Of two strategies of the same weight in strategies.yaml, the one that   *)
(* did no worse, on past prices and in its votes as far as they were read, *)
(* is not published with the smaller weight.                               *)
BetterNeverOutweighed ==
  [][(PublishWeights /\ weights' # weights) =>
       \A a, b \in Rated \cap DOMAIN scorer.read :
         (/\ Weight[a] = Weight[b]
          /\ backtest[a] >= backtest[b]
          /\ scorer.read[a] >= scorer.read[b]) => weights'[a] >= weights'[b]]_vars

------------------------------------------------------------------------------
(* Liveness.                                                               *)

(* A pair that is selected again and again is looked at again and again,   *)
(* although other pairs have no candles and calls fail.                    *)
NoPairIsStarved ==
  \A p \in Pairs \ Broken : []<>(p \in loop.todo) => []<>(loop.pair = p)

==============================================================================
