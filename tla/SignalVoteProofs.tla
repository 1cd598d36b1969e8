--------------------------- MODULE SignalVoteProofs ---------------------------
(***************************************************************************)
(* Theorems about the analyst, for any number of strategies and pairs and  *)
(* over every interleaving of its loops, every failing call and restart: a *)
(* vote is judged once, and once more for each failure; the counters of    *)
(* pairs and strategy agree up to failures; signals follow the votes; and  *)
(* the better of two strategies is not outweighed.                         *)
(***************************************************************************)
EXTENDS SignalVote, SumsProofs

------------------------------------------------------------------------------
(* The strengthening.                                                      *)

VoteSet == UNION {[D -> Directions] : D \in SUBSET Strategies}

LoopSet == [at : LoopPlaces, todo : SUBSET Pairs, pair : Pairs \cup {NoPair},
            move : Directions \cup {"flat"}, counting : SUBSET Strategies,
            turn : Strategies \cup {NoStrategy}, votes : VoteSet]

Shape ==
  /\ loop \in LoopSet
  /\ prev \in [Pairs -> VoteSet]
  /\ global \in [Strategies -> Counter]
  /\ lapsed \in [keys : 0..MaxExpiries, votes : [Strategies -> Nat]]
  /\ casts \in [Strategies -> Nat]
  /\ faults \in Nat

Counting == loop.at \in {"count", "global"}

Placed ==
  /\ loop.at \in {"check", "count", "global", "vote", "record"} => loop.pair \in Pairs
  /\ loop.at = "global" => loop.turn \in loop.counting

(* Pairs with a vote of the strategy that is still to be judged: of the    *)
(* pair whose votes are being counted, those not yet counted.              *)
Waiting(n) ==
  {p \in Pairs : IF Counting /\ p = loop.pair THEN n \in loop.counting
                                              ELSE n \in DOMAIN prev[p]}

Account ==
  \A n \in Strategies :
    JudgedSoFar(n) + Cardinality(Waiting(n)) <= casts[n] + faults

VoteInv == Shape /\ Placed /\ Account

------------------------------------------------------------------------------
(* Cardinalities of sets of pairs.                                         *)

LEMMA PairsFinite ==
  ASSUME NEW S \in SUBSET Pairs
  PROVE  IsFiniteSet(S) /\ Cardinality(S) \in Nat
BY VoteAssumption, FS_Subset, FS_CardinalityType

LEMMA NoMore ==
  ASSUME NEW T \in SUBSET Pairs, NEW S \in SUBSET T
  PROVE  Cardinality(S) <= Cardinality(T)
BY PairsFinite, FS_Subset

LEMMA OneMore ==
  ASSUME NEW T \in SUBSET Pairs, NEW S \in SUBSET Pairs, NEW p, S \subseteq T \cup {p}
  PROVE  Cardinality(S) <= Cardinality(T) + 1
<1>1. IsFiniteSet(T) /\ Cardinality(T) \in Nat
  BY PairsFinite
<1>2. IsFiniteSet(T \cup {p}) /\ Cardinality(T \cup {p}) <= Cardinality(T) + 1
  BY <1>1, FS_AddElement
<1>3. Cardinality(S) <= Cardinality(T \cup {p})
  BY <1>2, FS_Subset
<1>4. Cardinality(S) \in Nat /\ Cardinality(T \cup {p}) \in Nat
  BY <1>2, PairsFinite, FS_CardinalityType
<1> QED
  BY <1>1, <1>2, <1>3, <1>4

LEMMA OneLess ==
  ASSUME NEW T \in SUBSET Pairs, NEW p \in T, NEW S \in SUBSET (T \ {p})
  PROVE  Cardinality(S) + 1 <= Cardinality(T)
<1>1. IsFiniteSet(T) /\ Cardinality(T) \in Nat
  BY PairsFinite
<1>2. IsFiniteSet(T \ {p}) /\ Cardinality(T \ {p}) = Cardinality(T) - 1
  BY <1>1, FS_RemoveElement
<1>3. Cardinality(S) <= Cardinality(T \ {p})
  BY <1>2, FS_Subset
<1>4. Cardinality(S) \in Nat
  BY PairsFinite
<1> QED
  BY <1>1, <1>2, <1>3, <1>4

LEMMA JudgedNumbers ==
  ASSUME Shape
  PROVE  \A n \in Strategies : JudgedSoFar(n) \in Nat
BY DEF Shape, Counter, JudgedSoFar

LEMMA JudgedNumbersAfter ==
  ASSUME Shape'
  PROVE  \A n \in Strategies : JudgedSoFar(n)' \in Nat
BY DEF Shape, Counter, JudgedSoFar

LEMMA SameJudged ==
  ASSUME UNCHANGED <<global, lapsed>>
  PROVE  \A n : JudgedSoFar(n)' = JudgedSoFar(n)
BY DEF JudgedSoFar

LEMMA WaitingPairs == \A n : Waiting(n) \subseteq Pairs
BY DEF Waiting

------------------------------------------------------------------------------
(* The books of one strategy over a step.                                  *)

LEMMA Booked ==
  ASSUME VoteInv, Shape', NEW n \in Strategies,
         NEW S \in SUBSET Pairs, S = Waiting(n)', NEW p,
         \/ /\ S \subseteq Waiting(n)
            /\ JudgedSoFar(n)' + casts[n] + faults
                 <= JudgedSoFar(n) + casts'[n] + faults'
         \/ /\ S \subseteq Waiting(n) \cup {p}
            /\ JudgedSoFar(n)' + casts[n] + faults + 1
                 <= JudgedSoFar(n) + casts'[n] + faults'
         \/ /\ p \in Waiting(n)
            /\ S \subseteq Waiting(n) \ {p}
            /\ JudgedSoFar(n)' + casts[n] + faults
                 <= JudgedSoFar(n) + 1 + casts'[n] + faults'
  PROVE  JudgedSoFar(n)' + Cardinality(S) <= casts'[n] + faults'
<1> DEFINE W == Waiting(n)
<1>1. W \in SUBSET Pairs
  BY WaitingPairs
<1>2. Cardinality(W) \in Nat /\ Cardinality(S) \in Nat
  BY <1>1, PairsFinite
<1>3. /\ JudgedSoFar(n) \in Nat /\ JudgedSoFar(n)' \in Nat
      /\ casts[n] \in Nat /\ casts'[n] \in Nat
      /\ faults \in Nat /\ faults' \in Nat
  BY JudgedNumbers, JudgedNumbersAfter DEF VoteInv, Shape
<1>4. JudgedSoFar(n) + Cardinality(W) <= casts[n] + faults
  BY DEF VoteInv, Account
<1> HIDE DEF W
<1>5. CASE /\ S \subseteq W
           /\ JudgedSoFar(n)' + casts[n] + faults
                <= JudgedSoFar(n) + casts'[n] + faults'
  <2>1. Cardinality(S) <= Cardinality(W)
    BY <1>1, <1>5, NoMore
  <2> QED
    BY <1>2, <1>3, <1>4, <1>5, <2>1
<1>6. CASE /\ S \subseteq W \cup {p}
           /\ JudgedSoFar(n)' + casts[n] + faults + 1
                <= JudgedSoFar(n) + casts'[n] + faults'
  <2>1. Cardinality(S) <= Cardinality(W) + 1
    BY <1>1, <1>6, OneMore
  <2> QED
    BY <1>2, <1>3, <1>4, <1>6, <2>1
<1>7. CASE /\ p \in W
           /\ S \subseteq W \ {p}
           /\ JudgedSoFar(n)' + casts[n] + faults
                <= JudgedSoFar(n) + 1 + casts'[n] + faults'
  <2>1. Cardinality(S) + 1 <= Cardinality(W)
    BY <1>1, <1>7, OneLess
  <2> QED
    BY <1>2, <1>3, <1>4, <1>7, <2>1
<1> QED
  BY <1>5, <1>6, <1>7 DEF W

------------------------------------------------------------------------------
(* Every step keeps the shape of the state.                                *)

LEMMA EmptyVotes == NoVotes \in VoteSet
BY DEF NoVotes, VoteSet

LEMMA KeptVotes ==
  ASSUME NEW results \in Results
  PROVE  [n \in Voters(results) |-> results[n].action] \in VoteSet
<1>1. PICK S \in SUBSET Strategies : results \in [S -> Opinion]
  BY DEF Results
<1>2. Voters(results) \in SUBSET Strategies
  BY <1>1 DEF Voters
<1>3. \A n \in Voters(results) : results[n].action \in Directions
  BY <1>1 DEF Voters, Opinion, Directions
<1> QED
  BY <1>2, <1>3 DEF VoteSet

LEMMA CountedIsCounter ==
  ASSUME NEW counter \in Counter, NEW vote
  PROVE  /\ Counted(counter, vote) \in Counter
         /\ Counted(counter, vote).total = counter.total + 1
BY DEF Counted, Counter

LEMMA AfterFailure ==
  ASSUME VoteInv, Fails, Leaves
  PROVE  /\ faults' \in Nat /\ faults' = faults + 1
         /\ loop' \in [at : {"next"}, todo : SUBSET Pairs, pair : {NoPair},
                      move : {"flat"}, counting : {{}}, turn : {NoStrategy},
                      votes : {NoVotes}]
<1>1. faults \in Nat /\ loop.todo \in SUBSET Pairs
  BY DEF VoteInv, Shape, LoopSet
<1>2. loop' = [at |-> "next", todo |-> loop.todo, pair |-> NoPair, move |-> "flat",
               counting |-> {}, turn |-> NoStrategy, votes |-> NoVotes]
  BY DEF Leaves, Asleep
<1>3. faults' = faults + 1
  BY DEF Fails
<1> QED
  BY <1>1, <1>2, <1>3

LEMMA FailureKept ==
  ASSUME VoteInv, Fails, Leaves
  PROVE  loop' \in LoopSet /\ loop'.at = "next" /\ Placed'
<1>1. /\ loop' \in [at : {"next"}, todo : SUBSET Pairs, pair : {NoPair},
                    move : {"flat"}, counting : {{}}, turn : {NoStrategy},
                    votes : {NoVotes}]
  BY AfterFailure
<1> QED
  BY <1>1, EmptyVotes DEF LoopPlaces, LoopSet, Placed

------------------------------------------------------------------------------
(* Every step keeps the account.                                           *)

LEMMA AllBooked ==
  ASSUME VoteInv, Shape', NEW p,
         \A n \in Strategies :
           \/ /\ Waiting(n)' \subseteq Waiting(n)
              /\ JudgedSoFar(n)' + casts[n] + faults
                   <= JudgedSoFar(n) + casts'[n] + faults'
           \/ /\ Waiting(n)' \subseteq Waiting(n) \cup {p}
              /\ JudgedSoFar(n)' + casts[n] + faults + 1
                   <= JudgedSoFar(n) + casts'[n] + faults'
           \/ /\ p \in Waiting(n)
              /\ Waiting(n)' \subseteq Waiting(n) \ {p}
              /\ JudgedSoFar(n)' + casts[n] + faults
                   <= JudgedSoFar(n) + 1 + casts'[n] + faults'
  PROVE  Account'
<1> SUFFICES ASSUME NEW n \in Strategies
             PROVE  JudgedSoFar(n)' + Cardinality(Waiting(n)') <= casts'[n] + faults'
  BY DEF Account
<1>1. Waiting(n)' \in SUBSET Pairs
  BY DEF Waiting
<1> QED
  BY <1>1, Booked

(* The loop moves on without counting: nothing waits longer or shorter.    *)
LEMMA Moved ==
  ASSUME VoteInv, loop' \in LoopSet, Placed', ~Counting, ~Counting',
         UNCHANGED <<prev, global, lapsed, casts>>, faults' \in {faults, faults + 1}
  PROVE  VoteInv'
<1>1. Shape'
  BY DEF VoteInv, Shape
<1>2. \A n \in Strategies : Waiting(n)' \subseteq Waiting(n)
  BY DEF Waiting, Counting
<1>3. \A n \in Strategies : /\ JudgedSoFar(n) \in Nat /\ casts[n] \in Nat
                             /\ JudgedSoFar(n)' = JudgedSoFar(n)
  BY JudgedNumbers, SameJudged DEF VoteInv, Shape
<1>4. faults \in Nat
  BY DEF VoteInv, Shape
<1>5. Account'
  <2>1. \A n \in Strategies : JudgedSoFar(n)' + casts[n] + faults
                               <= JudgedSoFar(n) + casts'[n] + faults'
    BY <1>3, <1>4
  <2> QED
    BY <1>1, <1>2, <2>1, AllBooked
<1> QED
  BY <1>1, <1>5 DEF VoteInv

(* A step that leaves the loop and what the account is about.              *)
LEMMA Aside ==
  ASSUME VoteInv, UNCHANGED <<loop, prev, global, lapsed, casts>>,
         faults' \in {faults, faults + 1}
  PROVE  VoteInv'
<1>1. Shape' /\ Placed'
  BY DEF VoteInv, Shape, Placed
<1>2. \A n \in Strategies : Waiting(n)' \subseteq Waiting(n)
  BY DEF Waiting, Counting
<1>3. \A n \in Strategies : /\ JudgedSoFar(n) \in Nat /\ casts[n] \in Nat
                             /\ JudgedSoFar(n)' = JudgedSoFar(n)
  BY JudgedNumbers, SameJudged DEF VoteInv, Shape
<1>4. faults \in Nat
  BY DEF VoteInv, Shape
<1>5. Account'
  <2>1. \A n \in Strategies : JudgedSoFar(n)' + casts[n] + faults
                               <= JudgedSoFar(n) + casts'[n] + faults'
    BY <1>3, <1>4
  <2> QED
    BY <1>1, <1>2, <2>1, AllBooked
<1> QED
  BY <1>1, <1>5 DEF VoteInv

(* The loop gives up, wherever it was: the votes of the pair it was on are *)
(* to be judged again, which the failure pays for.                         *)
LEMMA GaveUp ==
  ASSUME VoteInv, loop' \in LoopSet, Placed', ~Counting',
         UNCHANGED <<prev, global, lapsed, casts>>, faults' = faults + 1
  PROVE  VoteInv'
<1>1. Shape'
  BY DEF VoteInv, Shape
<1>2. \A n \in Strategies : Waiting(n)' \subseteq Waiting(n) \cup {loop.pair}
  BY DEF Waiting, Counting
<1>3. \A n \in Strategies : /\ JudgedSoFar(n) \in Nat /\ casts[n] \in Nat
                             /\ JudgedSoFar(n)' = JudgedSoFar(n)
  BY JudgedNumbers, SameJudged DEF VoteInv, Shape
<1>4. faults \in Nat
  BY DEF VoteInv, Shape
<1>5. Account'
  <2>1. \A n \in Strategies : JudgedSoFar(n)' + casts[n] + faults + 1
                               <= JudgedSoFar(n) + casts'[n] + faults'
    BY <1>3, <1>4
  <2> QED
    BY <1>1, <1>2, <2>1, AllBooked
<1> QED
  BY <1>1, <1>5 DEF VoteInv

------------------------------------------------------------------------------
(* The actions.                                                            *)

LEMMA Failed ==
  ASSUME VoteInv, Fails, Leaves, UNCHANGED <<prev, global, lapsed, casts>>
  PROVE  VoteInv'
<1>1. loop' \in LoopSet /\ Placed' /\ ~Counting'
  BY FailureKept DEF Counting
<1>2. faults' = faults + 1
  BY DEF Fails
<1> QED
  BY <1>1, <1>2, GaveUp

LEMMA AsleepKept == Asleep \in LoopSet
BY EmptyVotes DEF Asleep, LoopSet, LoopPlaces

LEMMA StepReadWeights == ASSUME VoteInv, ReadWeights PROVE VoteInv'
<1>1. loop' \in LoopSet /\ Placed' /\ ~Counting /\ ~Counting'
  BY DEF ReadWeights, At, Goes, VoteInv, Shape, LoopSet, LoopPlaces, Placed, Counting
<1>2. UNCHANGED <<prev, global, lapsed, casts>> /\ faults' \in {faults, faults + 1}
  BY DEF ReadWeights, Fails, keys
<1> QED
  BY <1>1, <1>2, Moved

LEMMA StepSelectPairs == ASSUME VoteInv, SelectPairs PROVE VoteInv'
<1>1. PICK S \in SUBSET Pairs : loop' = [loop EXCEPT !.at = "next", !.todo = S]
  BY DEF SelectPairs
<1>2. loop' \in LoopSet /\ Placed' /\ ~Counting /\ ~Counting'
  BY <1>1 DEF SelectPairs, At, VoteInv, Shape, LoopSet, LoopPlaces, Placed, Counting
<1>3. UNCHANGED <<prev, global, lapsed, casts>> /\ faults' \in {faults, faults + 1}
  BY DEF SelectPairs, keys
<1> QED
  BY <1>2, <1>3, Moved

LEMMA StepNextPair == ASSUME VoteInv, NextPair PROVE VoteInv'
<1>1. UNCHANGED <<prev, global, lapsed, casts>> /\ faults' \in {faults, faults + 1} /\ ~Counting
  BY DEF NextPair, keys, At, Counting
<1>2. loop' \in LoopSet /\ Placed' /\ ~Counting'
  <2>1. CASE loop' = Asleep
    BY <2>1, AsleepKept DEF Asleep, Placed, Counting
  <2>2. ASSUME NEW p \in loop.todo, loop' = [loop EXCEPT !.pair = p, !.todo = @ \ {p}]
        PROVE  loop' \in LoopSet /\ Placed' /\ ~Counting'
    BY <2>2 DEF NextPair, At, VoteInv, Shape, LoopSet, Placed, Counting
  <2>3. ASSUME NEW p \in loop.todo, NEW move \in Directions \cup {"flat"},
               loop' = [loop EXCEPT !.at = "check", !.pair = p,
                                    !.todo = @ \ {p}, !.move = move]
        PROVE  loop' \in LoopSet /\ Placed' /\ ~Counting'
    BY <2>3 DEF VoteInv, Shape, LoopSet, LoopPlaces, Placed, Counting
  <2> QED
    BY <2>1, <2>2, <2>3 DEF NextPair
<1> QED
  BY <1>1, <1>2, Moved

LEMMA StepVote == ASSUME VoteInv, Vote PROVE VoteInv'
<1>1. UNCHANGED <<prev, global, lapsed, casts>> /\ faults' \in {faults, faults + 1} /\ ~Counting
  BY DEF Vote, keys, At, Counting
<1>2. loop' \in LoopSet /\ Placed' /\ ~Counting'
  <2>1. CASE Leaves
    <3>1. loop' = [at |-> "next", todo |-> loop.todo, pair |-> NoPair, move |-> "flat",
                   counting |-> {}, turn |-> NoStrategy, votes |-> NoVotes]
      BY <2>1 DEF Leaves, Asleep
    <3>2. loop.todo \in SUBSET Pairs
      BY DEF VoteInv, Shape, LoopSet
    <3> QED
      BY <3>1, <3>2, EmptyVotes DEF LoopSet, LoopPlaces, Placed, Counting
  <2>2. ASSUME NEW votes \in VoteSet,
               loop' = [loop EXCEPT !.at = "record", !.votes = votes]
        PROVE  loop' \in LoopSet /\ Placed' /\ ~Counting'
    <3>1. loop \in LoopSet /\ loop.at = "vote" /\ Placed
      BY DEF VoteInv, Shape, Vote, At
    <3> QED
      BY <2>2, <3>1 DEF LoopSet, LoopPlaces, Placed, Counting
  <2> QED
    BY <2>1, <2>2, KeptVotes DEF Vote
<1> QED
  BY <1>1, <1>2, Moved

LEMMA StepPairFails == ASSUME VoteInv, PairFails PROVE VoteInv'
BY Failed DEF PairFails, keys

LEMMA StepCrash == ASSUME VoteInv, Crash PROVE VoteInv'
<1>1. UNCHANGED <<prev, global, lapsed, casts>> /\ faults' = faults + 1
  BY DEF Crash, Fails, keys
<1>2. loop' \in LoopSet /\ Placed' /\ ~Counting'
  BY AsleepKept DEF Crash, Asleep, Placed, Counting
<1> QED
  BY <1>1, <1>2, GaveUp

LEMMA StepAside ==
  ASSUME VoteInv,
         ScoreLoop
  PROVE  VoteInv'
<1>1. UNCHANGED <<loop, prev, global, lapsed, casts>>
  BY DEF ScoreLoop, Backtest, PublishWeights, ScoreFails, ReadAccuracy, keys
<1>2. faults' \in {faults, faults + 1}
  BY DEF ScoreLoop, Backtest, PublishWeights, ScoreFails, ReadAccuracy, Fails
<1> QED
  BY <1>1, <1>2, Aside

LEMMA Numbers ==
  ASSUME VoteInv
  PROVE  /\ faults \in Nat
         /\ \A n \in Strategies : global[n] \in Counter /\ JudgedSoFar(n) \in Nat
                                   /\ casts[n] \in Nat
BY JudgedNumbers DEF VoteInv, Shape

(* The votes of the pair are the ones to be counted.                       *)
LEMMA StepCheckAccuracy == ASSUME VoteInv, CheckAccuracy PROVE VoteInv'
<1>1. UNCHANGED <<prev, global, lapsed, casts, faults>> /\ loop.at = "check"
  BY DEF CheckAccuracy, keys, At
<1>2. loop \in LoopSet /\ loop.pair \in Pairs
  BY <1>1 DEF VoteInv, Shape, Placed
<1>3. prev[loop.pair] \in VoteSet /\ DOMAIN prev[loop.pair] \in SUBSET Strategies
  BY <1>2 DEF VoteInv, Shape, VoteSet
<1>4. CASE loop' = [loop EXCEPT !.at = "vote", !.move = "flat"]
  <2>1. loop' \in LoopSet /\ Placed' /\ ~Counting /\ ~Counting'
    BY <1>1, <1>2, <1>4 DEF LoopSet, LoopPlaces, Placed, Counting
  <2> QED
    BY <1>1, <2>1, Moved
<1>5. CASE loop' = [loop EXCEPT !.at = "count", !.votes = prev[loop.pair],
                                !.counting = DOMAIN prev[loop.pair]]
  <2>1. loop' \in LoopSet
    BY <1>2, <1>3, <1>5 DEF LoopSet, LoopPlaces
  <2>2. loop'.at = "count" /\ loop'.pair = loop.pair
        /\ loop'.counting = DOMAIN prev[loop.pair]
    BY <1>2, <1>5 DEF LoopSet
  <2>3. Shape' /\ Placed'
    BY <1>1, <1>2, <2>1, <2>2 DEF VoteInv, Shape, Placed
  <2>4. \A n \in Strategies : Waiting(n)' \subseteq Waiting(n)
    BY <1>1, <2>2 DEF Waiting, Counting
  <2>5. \A n \in Strategies : JudgedSoFar(n)' + casts[n] + faults
                               <= JudgedSoFar(n) + casts'[n] + faults'
    BY <1>1, Numbers, SameJudged
  <2>6. Account'
    BY <2>3, <2>4, <2>5, AllBooked
  <2> QED
    BY <2>3, <2>6 DEF VoteInv
<1> QED
  BY <1>4, <1>5 DEF CheckAccuracy

LEMMA StepCountLocal ==
  ASSUME VoteInv, NEW n \in Strategies, CountLocal(n)
  PROVE  VoteInv'
<1>1. UNCHANGED <<prev, global, lapsed, casts>> /\ loop.at = "count" /\ n \in loop.counting
  BY DEF CountLocal, At
<1>2. CASE Fails /\ Leaves
  BY <1>1, <1>2, Failed
<1>3. CASE loop' = [loop EXCEPT !.at = "global", !.turn = n] /\ UNCHANGED faults
  <2>1. loop \in LoopSet /\ loop.pair \in Pairs
    BY <1>1 DEF VoteInv, Shape, Placed
  <2>2. loop' \in LoopSet /\ loop'.at = "global" /\ loop'.turn = n
        /\ loop'.pair = loop.pair /\ loop'.counting = loop.counting
    BY <1>3, <2>1 DEF LoopSet, LoopPlaces
  <2>3. Shape' /\ Placed'
    BY <1>1, <1>3, <2>1, <2>2 DEF VoteInv, Shape, Placed
  <2>4. \A m \in Strategies : Waiting(m)' \subseteq Waiting(m)
    BY <1>1, <2>2 DEF Waiting, Counting
  <2>5. \A m \in Strategies : JudgedSoFar(m)' + casts[m] + faults
                               <= JudgedSoFar(m) + casts'[m] + faults'
    BY <1>1, <1>3, Numbers, SameJudged
  <2>6. Account'
    BY <2>3, <2>4, <2>5, AllBooked
  <2> QED
    BY <2>3, <2>6 DEF VoteInv
<1> QED
  BY <1>2, <1>3 DEF CountLocal, Answered

(* The vote is judged, and waits no longer; if the call fails after it took*)
(* effect, it waits again, which the failure pays for.                     *)
LEMMA StepCountGlobal ==
  ASSUME VoteInv, NEW n \in Strategies, CountGlobal(n)
  PROVE  VoteInv'
<1>1. UNCHANGED <<prev, lapsed, casts>> /\ loop.at = "global" /\ n = loop.turn
      /\ global' = [global EXCEPT ![n] = Counted(@, loop.votes[n])]
  BY DEF CountGlobal, At
<1>2. loop \in LoopSet /\ loop.pair \in Pairs /\ n \in loop.counting
  BY <1>1 DEF VoteInv, Shape, Placed
<1>3. global \in [Strategies -> Counter]
  BY DEF VoteInv, Shape
<1>4. /\ global' \in [Strategies -> Counter]
      /\ JudgedSoFar(n)' = JudgedSoFar(n) + 1
      /\ \A m \in Strategies \ {n} : JudgedSoFar(m)' = JudgedSoFar(m)
  <2>1. /\ Counted(global[n], loop.votes[n]) \in Counter
        /\ Counted(global[n], loop.votes[n]).total = global[n].total + 1
    BY <1>3, CountedIsCounter
  <2> HIDE DEF Counted
  <2>2. /\ global' \in [Strategies -> Counter]
        /\ global'[n].total = global[n].total + 1
        /\ \A m \in Strategies \ {n} : global'[m] = global[m]
    BY <1>1, <1>3, <2>1
  <2>3. global[n].total \in Nat /\ lapsed.votes[n] \in Nat
    BY DEF VoteInv, Shape, Counter
  <2> QED
    BY <1>1, <2>2, <2>3 DEF JudgedSoFar
<1>5. loop.pair \in Waiting(n)
  BY <1>1, <1>2 DEF Waiting, Counting
<1>6. CASE Fails /\ Leaves
  <2>1. loop' \in LoopSet /\ Placed' /\ ~Counting' /\ faults' = faults + 1
    BY <1>6, FailureKept DEF Counting, Fails
  <2>2. Shape'
    BY <1>1, <1>4, <2>1 DEF VoteInv, Shape
  <2>3. \A m \in Strategies : Waiting(m)' \subseteq Waiting(m) \cup {loop.pair}
    BY <1>1, <2>1 DEF Waiting
  <2>4. Waiting(n)' \subseteq Waiting(n)
    BY <1>5, <2>3
  <2>5. JudgedSoFar(n)' + casts[n] + faults <= JudgedSoFar(n) + casts'[n] + faults'
    BY <1>1, <1>4, <2>1, Numbers
  <2>6. \A m \in Strategies \ {n} : JudgedSoFar(m)' + casts[m] + faults + 1
                                     <= JudgedSoFar(m) + casts'[m] + faults'
    BY <1>1, <1>4, <2>1, Numbers
  <2>7. Account'
    BY <2>2, <2>3, <2>4, <2>5, <2>6, AllBooked
  <2> QED
    BY <2>1, <2>2, <2>7 DEF VoteInv
<1>7. CASE /\ loop' = [loop EXCEPT !.at = "count", !.counting = @ \ {n},
                                   !.turn = NoStrategy]
           /\ UNCHANGED faults
  <2>1. loop' \in LoopSet /\ loop'.at = "count" /\ loop'.pair = loop.pair
        /\ loop'.counting = loop.counting \ {n}
    BY <1>2, <1>7 DEF LoopSet, LoopPlaces
  <2>2. Shape' /\ Placed'
    BY <1>1, <1>2, <1>4, <1>7, <2>1 DEF VoteInv, Shape, Placed
  <2>3. \A m \in Strategies : Waiting(m)' \subseteq Waiting(m)
    BY <1>1, <2>1 DEF Waiting, Counting
  <2>4. Waiting(n)' \subseteq Waiting(n) \ {loop.pair}
    BY <1>1, <2>1 DEF Waiting, Counting
  <2>5. JudgedSoFar(n)' + casts[n] + faults
          <= JudgedSoFar(n) + 1 + casts'[n] + faults'
    BY <1>1, <1>4, <1>7, Numbers
  <2>6. \A m \in Strategies \ {n} : JudgedSoFar(m)' + casts[m] + faults
                                     <= JudgedSoFar(m) + casts'[m] + faults'
    BY <1>1, <1>4, <1>7, Numbers
  <2>7. Account'
    BY <1>5, <2>2, <2>3, <2>4, <2>5, <2>6, AllBooked
  <2> QED
    BY <2>2, <2>7 DEF VoteInv
<1> QED
  BY <1>6, <1>7 DEF CountGlobal, Answered

LEMMA StepClear == ASSUME VoteInv, Clear PROVE VoteInv'
<1>1. /\ UNCHANGED <<global, lapsed, casts>> /\ loop.at = "count" /\ loop.counting = {}
      /\ prev' = [prev EXCEPT ![loop.pair] = NoVotes]
  BY DEF Clear, At
<1>2. loop \in LoopSet /\ loop.pair \in Pairs /\ prev \in [Pairs -> VoteSet]
  BY <1>1 DEF VoteInv, Shape, Placed
<1>3. loop' \in LoopSet /\ Placed' /\ ~Counting' /\ faults' \in {faults, faults + 1}
  <2>1. CASE Fails /\ Leaves
    BY <2>1, FailureKept DEF Counting, Fails
  <2>2. CASE /\ loop' = [loop EXCEPT !.at = "vote", !.move = "flat", !.votes = NoVotes]
             /\ UNCHANGED faults
    BY <1>2, <2>2, EmptyVotes DEF LoopSet, LoopPlaces, Placed, Counting
  <2> QED
    BY <2>1, <2>2 DEF Clear, Answered
<1>4. prev' \in [Pairs -> VoteSet] /\ DOMAIN prev'[loop.pair] = {}
      /\ \A p \in Pairs \ {loop.pair} : prev'[p] = prev[p]
  BY <1>1, <1>2, EmptyVotes DEF NoVotes
<1>5. Shape'
  BY <1>1, <1>3, <1>4 DEF VoteInv, Shape
<1>6. \A n \in Strategies : Waiting(n)' \subseteq Waiting(n)
  BY <1>3, <1>4 DEF Waiting
<1>7. \A n \in Strategies : JudgedSoFar(n)' + casts[n] + faults
                             <= JudgedSoFar(n) + casts'[n] + faults'
  BY <1>1, <1>3, Numbers, SameJudged
<1>8. Account'
  BY <1>5, <1>6, <1>7, AllBooked
<1> QED
  BY <1>3, <1>5, <1>8 DEF VoteInv

(* Each vote recorded waits, and was cast.                                 *)
LEMMA StepRecord == ASSUME VoteInv, Record PROVE VoteInv'
<1>1. /\ UNCHANGED <<global, lapsed>> /\ loop.at = "record"
      /\ casts' = [n \in Strategies |->
                     IF n \in DOMAIN loop.votes THEN casts[n] + 1 ELSE casts[n]]
  BY DEF Record, At
<1>2. loop \in LoopSet /\ loop.pair \in Pairs /\ loop.votes \in VoteSet
      /\ prev \in [Pairs -> VoteSet]
  BY <1>1 DEF VoteInv, Shape, Placed, LoopSet
<1>3. loop' \in LoopSet /\ Placed' /\ ~Counting' /\ faults' \in {faults, faults + 1}
  <2>1. CASE Fails /\ Leaves
    BY <2>1, FailureKept DEF Counting, Fails
  <2>2. CASE Leaves /\ UNCHANGED faults
    <3>1. loop' = [at |-> "next", todo |-> loop.todo, pair |-> NoPair, move |-> "flat",
                   counting |-> {}, turn |-> NoStrategy, votes |-> NoVotes]
      BY <2>2 DEF Leaves, Asleep
    <3> QED
      BY <1>2, <2>2, <3>1, EmptyVotes DEF LoopSet, LoopPlaces, Placed, Counting
  <2> QED
    BY <2>1, <2>2 DEF Record, Answered
<1>4. /\ prev' \in [Pairs -> VoteSet]
      /\ \A p \in Pairs \ {loop.pair} : prev'[p] = prev[p]
      /\ prev'[loop.pair] \in {prev[loop.pair], loop.votes}
  BY <1>2 DEF Record
<1>5. casts' \in [Strategies -> Nat]
  BY <1>1, Numbers
<1>6. Shape'
  BY <1>1, <1>3, <1>4, <1>5, Numbers DEF VoteInv, Shape
<1>7. ~Counting
  BY <1>1 DEF Counting
<1>8. ASSUME NEW n \in Strategies, n \in DOMAIN loop.votes
      PROVE  /\ Waiting(n)' \subseteq Waiting(n) \cup {loop.pair}
             /\ JudgedSoFar(n)' + casts[n] + faults + 1
                  <= JudgedSoFar(n) + casts'[n] + faults'
  <2>1. Waiting(n)' \subseteq Waiting(n) \cup {loop.pair}
    BY <1>3, <1>4, <1>7 DEF Waiting
  <2>2. casts'[n] = casts[n] + 1
    BY <1>1, <1>8
  <2> QED
    BY <1>1, <1>3, <2>1, <2>2, Numbers, SameJudged
<1>9. ASSUME NEW n \in Strategies, n \notin DOMAIN loop.votes
      PROVE  /\ Waiting(n)' \subseteq Waiting(n)
             /\ JudgedSoFar(n)' + casts[n] + faults
                  <= JudgedSoFar(n) + casts'[n] + faults'
  <2>1. Waiting(n)' \subseteq Waiting(n)
    BY <1>3, <1>4, <1>7, <1>9 DEF Waiting
  <2>2. casts'[n] = casts[n]
    BY <1>1, <1>9
  <2> QED
    BY <1>1, <1>3, <2>1, <2>2, Numbers, SameJudged
<1>10. Account'
  BY <1>6, <1>8, <1>9, AllBooked
<1> QED
  BY <1>3, <1>6, <1>10 DEF VoteInv

LEMMA Expired ==
  ASSUME VoteInv, NEW votes, Expires(votes), votes \in [Strategies -> Nat]
  PROVE  /\ lapsed' \in [keys : 0..MaxExpiries, votes : [Strategies -> Nat]]
         /\ lapsed'.votes = votes
BY VoteAssumption DEF Expires, VoteInv, Shape

LEMMA KeyExpired ==
  ASSUME VoteInv, Expires(lapsed.votes)
  PROVE  /\ lapsed' \in [keys : 0..MaxExpiries, votes : [Strategies -> Nat]]
         /\ lapsed'.votes = lapsed.votes
<1>1. lapsed.votes \in [Strategies -> Nat]
  BY DEF VoteInv, Shape
<1> QED
  BY <1>1, Expired

LEMMA StepExpireVotes ==
  ASSUME VoteInv, NEW p \in Pairs, ExpireVotes(p)
  PROVE  VoteInv'
<1>1. /\ UNCHANGED <<loop, global, casts, faults>>
      /\ prev' = [prev EXCEPT ![p] = NoVotes]
      /\ lapsed' \in [keys : 0..MaxExpiries, votes : [Strategies -> Nat]]
      /\ lapsed'.votes = lapsed.votes
  BY KeyExpired DEF ExpireVotes
<1>2. prev' \in [Pairs -> VoteSet] /\ DOMAIN prev'[p] = {}
      /\ \A q \in Pairs \ {p} : prev'[q] = prev[q]
  BY <1>1, EmptyVotes DEF NoVotes, VoteInv, Shape
<1>3. Shape' /\ Placed'
  BY <1>1, <1>2 DEF VoteInv, Shape, Placed
<1>4. \A n \in Strategies : Waiting(n)' \subseteq Waiting(n)
  BY <1>1, <1>2 DEF Waiting, Counting
<1>5. \A n \in Strategies : JudgedSoFar(n)' = JudgedSoFar(n)
  BY <1>1 DEF JudgedSoFar
<1>6. \A n \in Strategies : JudgedSoFar(n)' + casts[n] + faults
                             <= JudgedSoFar(n) + casts'[n] + faults'
  BY <1>1, <1>5, Numbers
<1>7. Account'
  BY <1>3, <1>4, <1>6, AllBooked
<1> QED
  BY <1>3, <1>7 DEF VoteInv

LEMMA StepKeyExpires ==
  ASSUME VoteInv, UNCHANGED <<loop, prev, global, casts, faults>>, Expires(lapsed.votes)
  PROVE  VoteInv'
<1>1. /\ lapsed' \in [keys : 0..MaxExpiries, votes : [Strategies -> Nat]]
      /\ lapsed'.votes = lapsed.votes
  BY KeyExpired
<1>2. Shape' /\ Placed'
  BY <1>1 DEF VoteInv, Shape, Placed
<1>3. \A n \in Strategies : Waiting(n)' \subseteq Waiting(n)
  BY DEF Waiting, Counting
<1>4. \A n \in Strategies : JudgedSoFar(n)' = JudgedSoFar(n)
  BY <1>1 DEF JudgedSoFar
<1>5. \A n \in Strategies : JudgedSoFar(n)' + casts[n] + faults
                             <= JudgedSoFar(n) + casts'[n] + faults'
  BY <1>4, Numbers
<1>6. Account'
  BY <1>2, <1>3, <1>5, AllBooked
<1> QED
  BY <1>2, <1>6 DEF VoteInv

(* What the counter held is not forgotten: it has lapsed.                  *)
LEMMA TotalExpired ==
  ASSUME VoteInv, NEW n \in Strategies, ExpireTotal(n)
  PROVE  /\ lapsed' \in [keys : 0..MaxExpiries, votes : [Strategies -> Nat]]
         /\ global' \in [Strategies -> Counter]
         /\ \A m \in Strategies : JudgedSoFar(m)' = JudgedSoFar(m)
<1> DEFINE votes == [lapsed.votes EXCEPT ![n] = @ + global[n].total]
<1>1. /\ global \in [Strategies -> Counter] /\ lapsed.votes \in [Strategies -> Nat]
      /\ global[n].total \in Nat /\ lapsed.votes[n] \in Nat
  BY DEF VoteInv, Shape, Counter
<1>2. votes \in [Strategies -> Nat] /\ votes[n] = lapsed.votes[n] + global[n].total
      /\ \A m \in Strategies \ {n} : votes[m] = lapsed.votes[m]
  BY <1>1
<1>3. Expires(votes) /\ global' = [global EXCEPT ![n] = Zero]
  BY DEF ExpireTotal
<1> HIDE DEF votes
<1>4. /\ lapsed' \in [keys : 0..MaxExpiries, votes : [Strategies -> Nat]]
      /\ lapsed'.votes = votes
  BY <1>2, <1>3, Expired
<1>5. Zero \in Counter /\ Zero.total = 0
  BY DEF Zero, Counter
<1>6. /\ global' \in [Strategies -> Counter] /\ global'[n].total = 0
      /\ \A m \in Strategies \ {n} : global'[m] = global[m]
  BY <1>1, <1>3, <1>5
<1>7. JudgedSoFar(n)' = JudgedSoFar(n)
  BY <1>1, <1>2, <1>4, <1>6 DEF JudgedSoFar
<1>8. \A m \in Strategies \ {n} : JudgedSoFar(m)' = JudgedSoFar(m)
  BY <1>2, <1>4, <1>6 DEF JudgedSoFar
<1> QED
  BY <1>4, <1>6, <1>7, <1>8

LEMMA StepExpireTotal ==
  ASSUME VoteInv, NEW n \in Strategies, ExpireTotal(n)
  PROVE  VoteInv'
<1>1. UNCHANGED <<loop, prev, casts, faults>>
  BY DEF ExpireTotal
<1>2. Shape' /\ Placed'
  BY <1>1, TotalExpired DEF VoteInv, Shape, Placed
<1>3. \A m \in Strategies : Waiting(m)' \subseteq Waiting(m)
  BY <1>1 DEF Waiting, Counting
<1>4. \A m \in Strategies : JudgedSoFar(m)' + casts[m] + faults
                             <= JudgedSoFar(m) + casts'[m] + faults'
  BY <1>1, TotalExpired, Numbers
<1>5. Account'
  BY <1>2, <1>3, <1>4, AllBooked
<1> QED
  BY <1>2, <1>5 DEF VoteInv

LEMMA StepRedis == ASSUME VoteInv, Redis PROVE VoteInv'
<1>1. ASSUME NEW n \in Strategies, NEW p \in Pairs, ExpireCounter(n, p)
      PROVE  VoteInv'
  BY <1>1, StepKeyExpires DEF ExpireCounter
<1>2. ASSUME ExpireWeights PROVE VoteInv'
  BY <1>2, StepKeyExpires DEF ExpireWeights
<1> QED
  BY <1>1, <1>2, StepExpireVotes, StepExpireTotal DEF Redis

------------------------------------------------------------------------------
(* The theorem.                                                            *)

LEMMA InitAccounts == Init => VoteInv
<1> SUFFICES ASSUME Init PROVE VoteInv
  OBVIOUS
<1>1. Shape
  <2>1. loop \in LoopSet
    BY AsleepKept DEF Init
  <2>2. prev \in [Pairs -> VoteSet]
    BY EmptyVotes DEF Init
  <2>3. lapsed \in [keys : 0..MaxExpiries, votes : [Strategies -> Nat]]
    BY VoteAssumption DEF Init
  <2> QED
    BY <2>1, <2>2, <2>3 DEF Init, Shape, Zero, Counter
<1>2. Placed
  BY DEF Init, Asleep, Placed
<1>3. \A n \in Strategies : Waiting(n) = {}
  BY DEF Init, Waiting, Counting, Asleep, NoVotes
<1>4. Account
  <2>1. \A n \in Strategies : Cardinality(Waiting(n)) = 0
    BY <1>3, FS_EmptySet
  <2>2. \A n \in Strategies : JudgedSoFar(n) = 0 /\ casts[n] = 0
    BY DEF Init, Zero, JudgedSoFar
  <2>3. faults = 0
    BY DEF Init
  <2> QED
    BY <2>1, <2>2, <2>3 DEF Account
<1> QED
  BY <1>1, <1>2, <1>4 DEF VoteInv

LEMMA NextAccounts == VoteInv /\ [Next]_vars => VoteInv'
<1> SUFFICES ASSUME VoteInv, [Next]_vars PROVE VoteInv'
  OBVIOUS
<1>1. CASE SignalLoop
  BY <1>1, StepReadWeights, StepSelectPairs, StepNextPair, StepCheckAccuracy,
     StepCountLocal, StepCountGlobal, StepClear, StepVote, StepRecord, StepPairFails
     DEF SignalLoop
<1>2. CASE ScoreLoop
  BY <1>2, StepAside
<1>3. CASE Redis
  BY <1>3, StepRedis
<1>4. CASE Crash
  BY <1>4, StepCrash
<1>5. CASE UNCHANGED vars
  BY <1>5, Aside DEF vars
<1> QED
  BY <1>1, <1>2, <1>3, <1>4, <1>5 DEF Next

(* A vote is judged at most once, and once more for each failing call or   *)
(* restart: StrategyScorer.check_accuracy never counts votes it has        *)
(* counted, whatever the scorer and the expiry of keys do meanwhile.       *)
THEOREM VotesAreJudgedOnce == Spec => []VotesCountOnce
<1>1. VoteInv => VotesCountOnce
  <2> SUFFICES ASSUME VoteInv, NEW n \in Strategies
               PROVE  JudgedSoFar(n) <= casts[n] + faults
    BY DEF VotesCountOnce
  <2>1. Waiting(n) \in SUBSET Pairs
    BY WaitingPairs
  <2>2. Cardinality(Waiting(n)) \in Nat
    BY <2>1, PairsFinite
  <2>3. JudgedSoFar(n) + Cardinality(Waiting(n)) <= casts[n] + faults
    BY DEF VoteInv, Account
  <2> QED
    BY <2>2, <2>3, Numbers
<1> QED
  BY <1>1, InitAccounts, NextAccounts, PTL DEF Spec

------------------------------------------------------------------------------
(* Shares and weights.                                                     *)

(* A set of scores that is not empty has a largest one.                    *)
LEMMA MaxIsBest ==
  ASSUME NEW S \in SUBSET Thousandths, S # {}
  PROVE  Max(S) \in S /\ \A y \in S : y <= Max(S)
<1> DEFINE T == {m \in Nat : \A y \in S : y <= m}
<1>1. 1000 \in T
  BY DEF Thousandths
<1>2. PICK m \in T : \A k \in T : m <= k
  <2>1. T \in SUBSET Nat /\ T # {}
    BY <1>1
  <2> HIDE DEF T
  <2> QED
    BY <2>1, LeastNumber
<1>3. m \in Nat /\ \A y \in S : y <= m
  BY <1>2
<1>4. m \in S
  <2> SUFFICES ASSUME m \notin S PROVE FALSE
    OBVIOUS
  <2>1. \A y \in S : y \in Nat /\ y <= m - 1
    BY <1>3 DEF Thousandths
  <2>2. m - 1 \in T
    <3>1. PICK y \in S : TRUE
      OBVIOUS
    <3>2. m - 1 \in Nat
      BY <1>3, <2>1, <3>1
    <3> QED
      BY <2>1, <3>2
  <2> HIDE DEF T
  <2> QED
    BY <1>2, <1>3, <2>2
<1>5. \E x \in S : \A y \in S : x >= y
  BY <1>3, <1>4 DEF Thousandths
<1>6. Max(S) \in S /\ \A y \in S : Max(S) >= y
  BY <1>5 DEF Max
<1> HIDE DEF T
<1>7. S \subseteq Int
  BY DEF Thousandths
<1> QED
  BY <1>6, <1>7

(* Shares are of a thousand, and grow with what is shared.                 *)
LEMMA ShareType ==
  ASSUME NEW S \in SUBSET Thousandths, NEW x \in S
  PROVE  ShareOfBest(x, S) \in Thousandths
<1> DEFINE M == Max(S)
<1>0. M \in Thousandths /\ x <= M /\ x \in Thousandths
  <2>1. S # {}
    OBVIOUS
  <2>2. Max(S) \in S /\ x <= Max(S)
    BY <2>1, MaxIsBest, Zenon
  <2> QED
    BY <2>2, Zenon
<1> HIDE DEF M
<1>1. M \in 0..1000 /\ x <= M /\ x \in 0..1000
  BY <1>0 DEF Thousandths
<1>2. CASE M > 0
  <2> DEFINE d == (x * 1000) \div M
  <2>1. d \in Nat /\ M * d <= x * 1000
    BY <1>1, <1>2
  <2>2. M * d <= M * 1000
    BY <1>1, <2>1
  <2> HIDE DEF d
  <2>3. d <= 1000
    BY <1>1, <1>2, <2>1, <2>2
  <2> QED
    BY <1>2, <2>1, <2>3 DEF ShareOfBest, M, d, Thousandths
<1>3. CASE ~(M > 0)
  BY <1>3 DEF ShareOfBest, M, Thousandths
<1> QED
  BY <1>2, <1>3

(* Division keeps the order.                                               *)
LEMMA DivMonotone ==
  ASSUME NEW x \in Nat, NEW y \in Nat, x >= y, NEW d \in Nat \ {0}
  PROVE  x \div d \in Nat /\ y \div d \in Nat /\ x \div d >= y \div d
  OBVIOUS

LEMMA ShareMonotone ==
  ASSUME NEW S \in SUBSET Thousandths, NEW x \in S, NEW y \in S, x >= y
  PROVE  ShareOfBest(x, S) >= ShareOfBest(y, S)
<1> DEFINE M == Max(S)
<1>1. M \in Nat /\ x \in Nat /\ y \in Nat
  <2>1. S # {}
    OBVIOUS
  <2>2. Max(S) \in S
    BY <2>1, MaxIsBest
  <2>3. M \in Thousandths /\ x \in Thousandths /\ y \in Thousandths
    BY <2>2
  <2> HIDE DEF M
  <2> QED
    BY <2>3 DEF Thousandths
<1> HIDE DEF M
<1>2. CASE M > 0
  <2>1. x * 1000 \in Nat /\ y * 1000 \in Nat /\ x * 1000 >= y * 1000 /\ M \in Nat \ {0}
    BY <1>1, <1>2
  <2>2. (x * 1000) \div M >= (y * 1000) \div M
    BY <2>1, DivMonotone
  <2> QED
    BY <1>2, <2>2 DEF ShareOfBest, M
<1>3. CASE ~(M > 0)
  BY <1>3 DEF ShareOfBest, M
<1> QED
  BY <1>2, <1>3

-------------------------------------------------------------------------------
(* What the scorer knows.                                                  *)

MapsTo(T) == UNION {[D -> T] : D \in SUBSET Strategies}

ScoreMaps == MapsTo(Thousandths)
WeightMaps == MapsTo(TenThousandths)

ScorerSet == [at : {"sleep", "read"}, todo : SUBSET Strategies, read : ScoreMaps]

LEMMA MapIsIn ==
  ASSUME NEW T, NEW D \in SUBSET Strategies, NEW f \in [D -> T]
  PROVE  f \in MapsTo(T)
BY DEF MapsTo

LEMMA MapIsPartial ==
  ASSUME NEW T, NEW f \in MapsTo(T)
  PROVE  /\ Partial(f, Strategies, T)
         /\ \A n \in DOMAIN f : n \in Strategies /\ f[n] \in T
BY DEF MapsTo, Partial

Scored ==
  /\ backtest \in [Strategies -> Thousandths \cup {NoScore}]
  /\ scorer \in ScorerSet

(* Scores and accuracies are numbers of 0 to 1000.                         *)
LEMMA SetsOfScores ==
  ASSUME Scored
  PROVE  /\ {backtest[m] : m \in Rated} \in SUBSET Thousandths
         /\ {scorer.read[m] : m \in DOMAIN scorer.read} \in SUBSET Thousandths
<1> DEFINE B == {backtest[m] : m \in Rated}
           A == {scorer.read[m] : m \in DOMAIN scorer.read}
<1>1. \A m \in Rated : backtest[m] \in Thousandths
  BY DEF Scored, Rated, Thousandths
<1>2. scorer.read \in ScoreMaps
  BY DEF Scored, ScorerSet
<1>3. \A m \in DOMAIN scorer.read : scorer.read[m] \in Thousandths
  BY <1>2, MapIsPartial, Zenon DEF ScoreMaps
<1>4. \A x \in A : x \in Thousandths
  BY <1>3, Zenon
<1>5. \A x \in B : x \in Thousandths
  BY <1>1, Zenon
<1> HIDE DEF A, B
<1>6. B \in SUBSET Thousandths /\ A \in SUBSET Thousandths
  BY <1>4, <1>5
<1> QED
  BY <1>6 DEF A, B

LEMMA BlendType ==
  ASSUME Scored, NEW n \in Strategies
  PROVE  Blended(n) \in Thousandths
<1> DEFINE B == {backtest[m] : m \in Rated}
           A == {scorer.read[m] : m \in DOMAIN scorer.read}
<1>1. B \in SUBSET Thousandths /\ A \in SUBSET Thousandths
  BY SetsOfScores
<1>2. n \in Rated => BacktestShare(n) \in Thousandths
  <2>1. n \in Rated => backtest[n] \in B
    OBVIOUS
  <2> HIDE DEF B
  <2> QED
    BY <1>1, <2>1, ShareType, Zenon DEF BacktestShare, B
<1>3. n \in DOMAIN scorer.read => AccuracyShare(n) \in Thousandths
  <2>1. n \in DOMAIN scorer.read => scorer.read[n] \in A
    OBVIOUS
  <2> HIDE DEF A
  <2> QED
    BY <1>1, <2>1, ShareType, Zenon DEF AccuracyShare, A
<1> HIDE DEF A, B
<1>4. ASSUME NEW x \in Thousandths, NEW y \in Thousandths
      PROVE  (7 * x + 3 * y) \div 10 \in Thousandths
  BY DEF Thousandths
<1>5. n \in Rated /\ n \in DOMAIN scorer.read
        => (7 * BacktestShare(n) + 3 * AccuracyShare(n)) \div 10 \in Thousandths
  BY <1>2, <1>3, <1>4
<1>6. CASE n \in Rated /\ n \in DOMAIN scorer.read
  BY <1>5, <1>6 DEF Blended
<1>7. CASE n \in Rated /\ n \notin DOMAIN scorer.read
  BY <1>2, <1>7 DEF Blended
<1>8. CASE n \notin Rated /\ n \in DOMAIN scorer.read
  BY <1>3, <1>8 DEF Blended
<1>9. CASE n \notin Rated /\ n \notin DOMAIN scorer.read
  BY <1>9 DEF Blended, Thousandths
<1> QED
  BY <1>6, <1>7, <1>8, <1>9

LEMMA DynamicType ==
  ASSUME Scored
  PROVE  /\ \A n \in Strategies : Dynamic(n) \in Nat
         /\ SumOver([n \in Strategies |-> Dynamic(n)], Strategies) \in Nat
         /\ \A n \in Strategies :
              Dynamic(n) <= SumOver([m \in Strategies |-> Dynamic(m)], Strategies)
<1> DEFINE f == [n \in Strategies |-> Dynamic(n)]
<1>1. \A n \in Strategies : Dynamic(n) \in Nat
  <2> SUFFICES ASSUME NEW n \in Strategies PROVE Dynamic(n) \in Nat
    OBVIOUS
  <2>1. Blended(n) \in Thousandths /\ Weight[n] \in 1..100
    BY BlendType, VoteAssumption
  <2>2. Dynamic(n) = Weight[n] * Blended(n)
    BY DEF Dynamic
  <2>3. Blended(n) \in Nat /\ Weight[n] \in Nat
    BY <2>1 DEF Thousandths
  <2> QED
    BY <2>2, <2>3
<1>2. \A n \in Strategies : f[n] \in Nat /\ f[n] = Dynamic(n)
  BY <1>1
<1> HIDE DEF f
<1>3. IsFiniteSet(Strategies)
  BY VoteAssumption
<1>4. SumOver(f, Strategies) \in Nat /\ \A n \in Strategies : f[n] <= SumOver(f, Strategies)
  BY <1>2, <1>3, SumOfNats, TermWithinSum
<1> QED
  BY <1>1, <1>2, <1>4 DEF f

(* A part of a sum, in ten thousandths, and the sum of which weights are.  *)
Part(x, sum) == (x * 10000) \div sum

Total == SumOver([n \in Strategies |-> Dynamic(n)], Strategies)

LEMMA PartType ==
  ASSUME NEW sum \in Nat \ {0}, NEW x \in Nat, x <= sum
  PROVE  Part(x, sum) \in TenThousandths
<1> DEFINE d == (x * 10000) \div sum
<1>1. d \in Nat /\ sum * d <= x * 10000
  OBVIOUS
<1>2. sum * d <= sum * 10000
  BY <1>1
<1> HIDE DEF d
<1>3. d <= 10000
  BY <1>1, <1>2
<1>4. d \in TenThousandths
  BY <1>1, <1>3 DEF TenThousandths
<1>5. Part(x, sum) = d
  BY DEF d, Part
<1> QED
  BY <1>4, <1>5

LEMMA NewWeightsAreParts ==
  NewWeights = [n \in Strategies |-> IF Total > 0 THEN Part(Dynamic(n), Total)
                                                 ELSE Dynamic(n)]
BY DEF NewWeights, Part, Total

(* The weights published are shares of ten thousand.                       *)
LEMMA NewWeightsType ==
  ASSUME Scored
  PROVE  NewWeights \in [Strategies -> TenThousandths]
<1>1. Total \in Nat /\ \A n \in Strategies : Dynamic(n) \in Nat /\ Dynamic(n) <= Total
  BY DynamicType DEF Total
<1>2. CASE Total > 0
  <2>1. ASSUME NEW n \in Strategies PROVE Part(Dynamic(n), Total) \in TenThousandths
    <3> DEFINE x == Dynamic(n)
               t == Total
    <3>1. t \in Nat \ {0} /\ x \in Nat /\ x <= t
      BY <1>1, <1>2
    <3> HIDE DEF x, t
    <3>2. Part(x, t) \in TenThousandths
      BY <3>1, PartType, Zenon
    <3> QED
      BY <3>2 DEF x, t
  <2> QED
    BY <1>2, <2>1, NewWeightsAreParts
<1>3. CASE ~(Total > 0)
  <2>1. \A n \in Strategies : Dynamic(n) = 0
    BY <1>1, <1>3
  <2>2. 0 \in TenThousandths
    BY DEF TenThousandths
  <2> QED
    BY <1>3, <2>1, <2>2, NewWeightsAreParts
<1> QED
  BY <1>2, <1>3

-------------------------------------------------------------------------------
(* The better strategy.                                                    *)

LEMMA BlendMonotone ==
  ASSUME Scored,
         NEW a \in Rated \cap DOMAIN scorer.read, NEW b \in Rated \cap DOMAIN scorer.read,
         backtest[a] >= backtest[b], scorer.read[a] >= scorer.read[b]
  PROVE  Blended(a) >= Blended(b)
<1> DEFINE B == {backtest[m] : m \in Rated}
           A == {scorer.read[m] : m \in DOMAIN scorer.read}
<1>1. B \in SUBSET Thousandths /\ A \in SUBSET Thousandths
  BY SetsOfScores
<1>2. /\ backtest[a] \in B /\ backtest[b] \in B
      /\ scorer.read[a] \in A /\ scorer.read[b] \in A
  OBVIOUS
<1> HIDE DEF A, B
<1>3. /\ BacktestShare(a) \in Thousandths /\ BacktestShare(b) \in Thousandths
      /\ BacktestShare(a) >= BacktestShare(b)
  <2>1. /\ BacktestShare(a) = ShareOfBest(backtest[a], B)
        /\ BacktestShare(b) = ShareOfBest(backtest[b], B)
    BY DEF BacktestShare, B
  <2>2. ShareOfBest(backtest[a], B) \in Thousandths
    <3>1. B \in SUBSET Thousandths /\ backtest[a] \in B
      BY <1>1, <1>2
    <3> QED
      BY <3>1, ShareType, Zenon
  <2>3. ShareOfBest(backtest[b], B) \in Thousandths
    <3>1. B \in SUBSET Thousandths /\ backtest[b] \in B
      BY <1>1, <1>2
    <3> QED
      BY <3>1, ShareType, Zenon
  <2>4. ShareOfBest(backtest[a], B) >= ShareOfBest(backtest[b], B)
    BY <1>1, <1>2, ShareMonotone
  <2> QED
    BY <2>1, <2>2, <2>3, <2>4
<1>4. /\ AccuracyShare(a) \in Thousandths /\ AccuracyShare(b) \in Thousandths
      /\ AccuracyShare(a) >= AccuracyShare(b)
  <2>1. /\ AccuracyShare(a) = ShareOfBest(scorer.read[a], A)
        /\ AccuracyShare(b) = ShareOfBest(scorer.read[b], A)
    BY DEF AccuracyShare, A
  <2>2. ShareOfBest(scorer.read[a], A) \in Thousandths
    <3>1. A \in SUBSET Thousandths /\ scorer.read[a] \in A
      BY <1>1, <1>2
    <3> QED
      BY <3>1, ShareType, Zenon
  <2>3. ShareOfBest(scorer.read[b], A) \in Thousandths
    <3>1. A \in SUBSET Thousandths /\ scorer.read[b] \in A
      BY <1>1, <1>2
    <3> QED
      BY <3>1, ShareType, Zenon
  <2>4. ShareOfBest(scorer.read[a], A) >= ShareOfBest(scorer.read[b], A)
    BY <1>1, <1>2, ShareMonotone
  <2> QED
    BY <2>1, <2>2, <2>3, <2>4
<1> DEFINE x == 7 * BacktestShare(a) + 3 * AccuracyShare(a)
           y == 7 * BacktestShare(b) + 3 * AccuracyShare(b)
<1>5. x \in Nat /\ y \in Nat /\ x >= y
  <2> DEFINE k == BacktestShare(a)
             l == BacktestShare(b)
             m == AccuracyShare(a)
             n == AccuracyShare(b)
  <2>1. /\ k \in Thousandths /\ l \in Thousandths /\ m \in Thousandths /\ n \in Thousandths
        /\ k >= l /\ m >= n
    BY <1>3, <1>4
  <2> HIDE DEF k, l, m, n
  <2>2. k \in Nat /\ l \in Nat /\ m \in Nat /\ n \in Nat
    BY <2>1 DEF Thousandths
  <2>3. /\ 7 * k + 3 * m \in Nat /\ 7 * l + 3 * n \in Nat
        /\ 7 * k + 3 * m >= 7 * l + 3 * n
    BY <2>1, <2>2
  <2> QED
    BY <2>3 DEF k, l, m, n
<1>6. Blended(a) = x \div 10 /\ Blended(b) = y \div 10
  BY DEF Blended
<1> HIDE DEF x, y
<1> QED
  BY <1>5, <1>6, DivMonotone

LEMMA WeightMonotone ==
  ASSUME Scored,
         NEW a \in Rated \cap DOMAIN scorer.read, NEW b \in Rated \cap DOMAIN scorer.read,
         Weight[a] = Weight[b],
         backtest[a] >= backtest[b], scorer.read[a] >= scorer.read[b]
  PROVE  NewWeights[a] >= NewWeights[b]
<1>1. a \in Strategies /\ b \in Strategies
  BY DEF Rated
<1>2. Weight[a] \in Nat /\ Weight[b] \in Nat
  <2>1. Weight[a] \in 1..100 /\ Weight[b] \in 1..100
    BY <1>1, VoteAssumption
  <2> QED
    BY <2>1
<1>3. Blended(a) \in Thousandths /\ Blended(b) \in Thousandths /\ Blended(a) >= Blended(b)
  BY <1>1, BlendType, BlendMonotone
<1>4. Dynamic(a) = Weight[a] * Blended(a) /\ Dynamic(b) = Weight[a] * Blended(b)
  BY DEF Dynamic
<1> DEFINE x == Dynamic(a)
           y == Dynamic(b)
<1>5. x \in Nat /\ y \in Nat /\ x >= y
  <2> DEFINE k == Blended(a)
             l == Blended(b)
             w == Weight[a]
  <2>1. k \in Thousandths /\ l \in Thousandths /\ k >= l /\ w \in Nat
    BY <1>2, <1>3
  <2>2. x = w * k /\ y = w * l
    BY <1>4
  <2> HIDE DEF k, l, w, x, y
  <2>3. k \in Nat /\ l \in Nat
    BY <2>1 DEF Thousandths
  <2> QED
    BY <2>1, <2>2, <2>3
<1>6. Total \in Nat
  BY DynamicType DEF Total
<1> HIDE DEF x, y
<1>7. Total > 0 => Part(x, Total) >= Part(y, Total)
  <2>1. x * 10000 \in Nat /\ y * 10000 \in Nat /\ x * 10000 >= y * 10000
    BY <1>5
  <2> QED
    BY <1>6, <2>1, DivMonotone DEF Part
<1>8. /\ NewWeights[a] = IF Total > 0 THEN Part(x, Total) ELSE x
      /\ NewWeights[b] = IF Total > 0 THEN Part(y, Total) ELSE y
  BY <1>1, NewWeightsAreParts DEF x, y
<1> QED
  BY <1>5, <1>7, <1>8

-------------------------------------------------------------------------------
(* Types.  Beyond the shape of the loop: what is bounded, what the scorer  *)
(* publishes, and what the counters hold.                                  *)

Bounds ==
  /\ casts \in [Strategies -> 0..MaxCasts]
  /\ loop.at = "record" => \A n \in DOMAIN loop.votes : casts[n] < MaxCasts
  /\ blends \in 0..MaxBlends
  /\ faults \in 0..MaxFaults

Weighed == Scored /\ applied \in WeightMaps /\ weights \in WeightMaps

Judged ==
  /\ local \in [Strategies -> [Pairs -> Counter]]
  /\ \A n \in Strategies : global[n].correct <= global[n].total

LEMMA FaultSteps ==
  ASSUME [Next]_vars
  PROVE  faults' = faults \/ (faults < MaxFaults /\ faults' = faults + 1)
<1>1. CASE SignalLoop
  BY <1>1 DEF SignalLoop, ReadWeights, SelectPairs, NextPair, CheckAccuracy, CountLocal,
     CountGlobal, Clear, Vote, Record, PairFails, Answered, Fails
<1>2. CASE ScoreLoop
  BY <1>2 DEF ScoreLoop, Backtest, PublishWeights, ScoreFails, ReadAccuracy, Fails
<1>3. CASE Redis
  BY <1>3 DEF Redis, ExpireVotes, ExpireCounter, ExpireTotal, ExpireWeights
<1>4. CASE Crash \/ UNCHANGED vars
  BY <1>4 DEF Crash, Fails, vars
<1> QED
  BY <1>1, <1>2, <1>3, <1>4 DEF Next

(* Only a vote brings the loop to a record, and only a record casts votes. *)
LEMMA RecordSteps ==
  ASSUME VoteInv, [Next]_vars, ~Vote, ~Record
  PROVE  casts' = casts /\ (loop' = loop \/ loop'.at # "record")
<1>1. loop \in LoopSet
  BY DEF VoteInv, Shape
<1>2. ASSUME Leaves PROVE loop'.at = "next"
  BY <1>2 DEF Leaves, Asleep
<1>3. CASE ReadWeights \/ SelectPairs \/ CheckAccuracy
  BY <1>1, <1>3 DEF ReadWeights, SelectPairs, CheckAccuracy, Goes, Fails, LoopSet
<1>4. CASE NextPair
  <2>1. loop.at = "next" /\ casts' = casts
    BY <1>4 DEF NextPair, At
  <2>2. CASE loop' = Asleep
    BY <2>1, <2>2 DEF Asleep
  <2>3. ASSUME NEW p, loop' = [loop EXCEPT !.pair = p, !.todo = @ \ {p}]
        PROVE  loop'.at # "record"
    BY <1>1, <2>1, <2>3 DEF LoopSet
  <2>4. ASSUME NEW p, NEW move,
               loop' = [loop EXCEPT !.at = "check", !.pair = p,
                                    !.todo = @ \ {p}, !.move = move]
        PROVE  loop'.at # "record"
    BY <1>1, <2>1, <2>4 DEF LoopSet
  <2> QED
    BY <1>4, <2>1, <2>2, <2>3, <2>4 DEF NextPair
<1>5. CASE \E n \in Strategies : CountLocal(n) \/ CountGlobal(n)
  BY <1>1, <1>2, <1>5 DEF CountLocal, CountGlobal, Answered, LoopSet
<1>6. CASE Clear \/ PairFails
  BY <1>1, <1>2, <1>6 DEF Clear, PairFails, Answered, LoopSet
<1>7. CASE ScoreLoop
  BY <1>7 DEF ScoreLoop, Backtest, PublishWeights, ScoreFails, ReadAccuracy
<1>8. CASE Redis \/ UNCHANGED vars
  BY <1>8 DEF Redis, ExpireVotes, ExpireCounter, ExpireTotal, ExpireWeights, vars
<1>9. CASE Crash
  BY <1>9 DEF Crash, Asleep
<1> QED
  BY <1>3, <1>4, <1>5, <1>6, <1>7, <1>8, <1>9 DEF Next, SignalLoop

LEMMA BoundsKept == VoteInv /\ Bounds /\ [Next]_vars => Bounds'
<1> SUFFICES ASSUME VoteInv, Bounds, [Next]_vars PROVE Bounds'
  OBVIOUS
<1>1. faults' \in 0..MaxFaults
  <2>1. faults \in 0..MaxFaults /\ MaxFaults \in Nat
    BY VoteAssumption DEF Bounds
  <2> QED
    BY <2>1, FaultSteps
<1>2. blends' \in 0..MaxBlends
  <2>1. blends \in 0..MaxBlends /\ MaxBlends \in Nat
    BY VoteAssumption DEF Bounds
  <2>2. blends' = blends \/ (blends < MaxBlends /\ blends' = blends + 1)
    <3>1. CASE SignalLoop
      BY <3>1 DEF SignalLoop, ReadWeights, SelectPairs, NextPair, CheckAccuracy, CountLocal,
         CountGlobal, Clear, Vote, Record, PairFails
    <3>2. CASE ScoreLoop
      BY <3>2 DEF ScoreLoop, Backtest, PublishWeights, ScoreFails, ReadAccuracy
    <3>3. CASE Redis \/ Crash \/ UNCHANGED vars
      BY <3>3 DEF Redis, ExpireVotes, ExpireCounter, ExpireTotal, ExpireWeights, Crash, vars
    <3> QED
      BY <3>1, <3>2, <3>3 DEF Next
  <2> QED
    BY <2>1, <2>2
<1>3. /\ casts' \in [Strategies -> 0..MaxCasts]
      /\ loop'.at = "record" => \A n \in DOMAIN loop'.votes : casts'[n] < MaxCasts
  <2>1. loop \in LoopSet /\ casts \in [Strategies -> 0..MaxCasts]
    BY DEF VoteInv, Shape, Bounds
  <2>2. CASE Vote
    <3>1. casts' = casts
      BY <2>2 DEF Vote
    <3>2. CASE Leaves
      BY <2>1, <3>1, <3>2 DEF Leaves, Asleep
    <3>3. ASSUME NEW results \in Results,
                 \A n \in Voters(results) : casts[n] < MaxCasts,
                 loop' = [loop EXCEPT
                            !.at = "record",
                            !.votes = [n \in Voters(results) |-> results[n].action]]
          PROVE  \A n \in DOMAIN loop'.votes : casts'[n] < MaxCasts
      <4>1. loop'.votes = [n \in Voters(results) |-> results[n].action]
        BY <2>1, <3>3 DEF LoopSet
      <4> QED
        BY <3>1, <3>3, <4>1
    <3> QED
      BY <2>1, <2>2, <3>1, <3>2, <3>3 DEF Vote
  <2>3. CASE Record
    <3>1. /\ loop.at = "record"
          /\ casts' = [n \in Strategies |->
                         IF n \in DOMAIN loop.votes THEN casts[n] + 1 ELSE casts[n]]
      BY <2>3 DEF Record, At
    <3>2. loop'.at = "next"
      BY <2>3 DEF Record, Answered, Leaves, Asleep
    <3>3. \A n \in DOMAIN loop.votes : casts[n] < MaxCasts
      BY <3>1 DEF Bounds
    <3>4. ASSUME NEW n \in Strategies PROVE casts'[n] \in 0..MaxCasts
      <4>1. casts[n] \in 0..MaxCasts /\ MaxCasts \in Nat
        BY <2>1, VoteAssumption
      <4>2. CASE n \in DOMAIN loop.votes
        BY <3>1, <3>3, <4>1, <4>2
      <4>3. CASE n \notin DOMAIN loop.votes
        BY <3>1, <4>1, <4>3
      <4> QED
        BY <4>2, <4>3
    <3> QED
      BY <3>1, <3>2, <3>4
  <2>4. CASE ~Vote /\ ~Record
    BY <2>1, <2>4, RecordSteps DEF Bounds
  <2> QED
    BY <2>2, <2>3, <2>4
<1> QED
  BY <1>1, <1>2, <1>3 DEF Bounds

-------------------------------------------------------------------------------
(* What the scorer publishes.                                              *)

LEMMA IsScores ==
  ASSUME NEW D \in SUBSET Strategies, NEW f \in [D -> Thousandths]
  PROVE  f \in ScoreMaps
BY MapIsIn DEF ScoreMaps

LEMMA IsWeights ==
  ASSUME NEW D \in SUBSET Strategies, NEW f \in [D -> TenThousandths]
  PROVE  f \in WeightMaps
BY MapIsIn DEF WeightMaps

LEMMA NothingScored == Unscored \in ScoreMaps /\ Unscored \in WeightMaps
<1>1. \A T : Unscored \in MapsTo(T)
  BY DEF Unscored, MapsTo
<1> QED
  BY <1>1 DEF ScoreMaps, WeightMaps

LEMMA RestingScorer == Resting \in ScorerSet
BY NothingScored DEF Resting, ScorerSet

(* The accuracy of a counter.                                              *)
AccuracyOf(counter) == (counter.correct * 1000) \div counter.total

(* An accuracy is a share of a thousand: a strategy is right at most as    *)
(* often as it is judged.                                                  *)
LEMMA AccuracyType ==
  ASSUME NEW counter \in Counter, counter.correct <= counter.total, counter.total # 0
  PROVE  AccuracyOf(counter) \in Thousandths
<1> DEFINE c == counter.correct
           t == counter.total
           d == (c * 1000) \div t
<1>1. c \in Nat /\ t \in Nat \ {0} /\ c <= t
  BY DEF Counter
<1> HIDE DEF c, t
<1>2. d \in Nat /\ t * d <= c * 1000
  BY <1>1
<1>3. t * d <= t * 1000
  BY <1>1, <1>2
<1> HIDE DEF d
<1>4. d <= 1000
  BY <1>1, <1>2, <1>3
<1>5. d \in Thousandths
  BY <1>2, <1>4 DEF Thousandths
<1> QED
  BY <1>5 DEF AccuracyOf, d, c, t

LEMMA ReadKept ==
  ASSUME VoteInv, Weighed, Judged, NEW n \in Strategies, ReadAccuracy(n)
  PROVE  scorer' \in ScorerSet
<1> DEFINE accuracy == AccuracyOf(global[n])
           read == [m \in {n} \cup DOMAIN scorer.read |->
                      IF m = n THEN accuracy ELSE scorer.read[m]]
<1>1. scorer \in ScorerSet
  BY DEF Weighed, Scored
<1> DEFINE D == DOMAIN scorer.read
<1>2. D \in SUBSET Strategies /\ scorer.read \in [D -> Thousandths]
  <2>1. scorer.read \in ScoreMaps
    BY <1>1 DEF ScorerSet
  <2>2. Partial(scorer.read, Strategies, Thousandths)
    BY <2>1, MapIsPartial, Zenon DEF ScoreMaps
  <2> QED
    BY <2>2, Zenon DEF Partial
<1>3. global[n] \in Counter /\ global[n].correct <= global[n].total
  BY DEF VoteInv, Shape, Judged
<1>4. global[n].total # 0 => accuracy \in Thousandths
  BY <1>3, AccuracyType, Zenon
<1> HIDE DEF accuracy
<1>5. global[n].total # 0 => read \in [{n} \cup D -> Thousandths]
  BY <1>2, <1>4
<1>6. {n} \cup D \in SUBSET Strategies
  BY <1>2
<1>7. global[n].total # 0 => read \in ScoreMaps
  BY <1>5, <1>6, IsScores
<1>8. scorer' = [scorer EXCEPT !.todo = @ \ {n},
                               !.read = IF global[n].total = 0 THEN @ ELSE read]
  BY DEF ReadAccuracy, AccuracyOf, accuracy
<1> HIDE DEF read
<1> QED
  BY <1>1, <1>7, <1>8 DEF ScorerSet

LEMMA TestedKept ==
  ASSUME Weighed, Backtest
  PROVE  backtest' \in [Strategies -> Thousandths \cup {NoScore}]
<1>1. PICK tested \in SUBSET Strategies : \E score \in Scores(tested) :
        backtest' = [n \in Strategies |-> IF n \in tested THEN score[n] ELSE backtest[n]]
  BY DEF Backtest
<1>2. PICK score \in Scores(tested) :
        backtest' = [n \in Strategies |-> IF n \in tested THEN score[n] ELSE backtest[n]]
  BY <1>1
<1>3. \A n \in tested : score[n] \in Thousandths
  <2>1. \A n \in tested : score[n] \in Composites[n]
    BY <1>2 DEF Scores
  <2>2. \A n \in Strategies : Composites[n] \subseteq Thousandths
    BY VoteAssumption
  <2> QED
    BY <2>1, <2>2
<1>4. backtest \in [Strategies -> Thousandths \cup {NoScore}]
  BY DEF Weighed, Scored
<1> QED
  BY <1>2, <1>3, <1>4

LEMMA WeighedKept == VoteInv /\ Weighed /\ Judged /\ [Next]_vars => Weighed'
<1> SUFFICES ASSUME VoteInv, Weighed, Judged, [Next]_vars PROVE Weighed'
  OBVIOUS
<1>1. CASE SignalLoop
  <2>1. UNCHANGED <<backtest, scorer, weights>>
    BY <1>1 DEF SignalLoop, ReadWeights, SelectPairs, NextPair, CheckAccuracy, CountLocal,
       CountGlobal, Clear, Vote, Record, PairFails
  <2>2. applied' = applied \/ applied' = weights
    BY <1>1 DEF SignalLoop, ReadWeights, SelectPairs, NextPair, CheckAccuracy, CountLocal,
       CountGlobal, Clear, Vote, Record, PairFails
  <2> QED
    BY <2>1, <2>2 DEF Weighed, Scored
<1>2. CASE Backtest
  <2>1. backtest' \in [Strategies -> Thousandths \cup {NoScore}]
    BY <1>2, TestedKept
  <2>2. scorer' \in ScorerSet
    <3>1. [Resting EXCEPT !.at = "read", !.todo = Strategies] \in ScorerSet
      BY NothingScored DEF Resting, ScorerSet
    <3> QED
      BY <1>2, <3>1 DEF Backtest, Weighed, Scored
  <2>3. UNCHANGED <<applied, weights>>
    BY <1>2 DEF Backtest
  <2> QED
    BY <2>1, <2>2, <2>3 DEF Weighed, Scored
<1>3. CASE PublishWeights
  <2>1. NewWeights \in [Strategies -> TenThousandths]
    BY NewWeightsType DEF Weighed
  <2>2. NewWeights \in WeightMaps
    BY <2>1, IsWeights
  <2>3. weights' = NewWeights /\ scorer' = Resting /\ UNCHANGED <<applied, backtest>>
    BY <1>3 DEF PublishWeights
  <2> QED
    BY <2>2, <2>3, RestingScorer DEF Weighed, Scored
<1>4. CASE ScoreFails
  BY <1>4, RestingScorer DEF ScoreFails, Weighed, Scored
<1>5. ASSUME NEW n \in Strategies, ReadAccuracy(n) PROVE Weighed'
  <2>1. scorer' \in ScorerSet
    BY <1>5, ReadKept
  <2>2. UNCHANGED <<applied, weights, backtest>>
    BY <1>5 DEF ReadAccuracy
  <2> QED
    BY <2>1, <2>2 DEF Weighed, Scored
<1>6. CASE Redis
  BY <1>6, NothingScored DEF Redis, ExpireVotes, ExpireCounter, ExpireTotal, ExpireWeights, Weighed, Scored
<1>7. CASE Crash
  BY <1>7, NothingScored, RestingScorer DEF Crash, Weighed, Scored
<1>8. CASE UNCHANGED vars
  BY <1>8 DEF vars, Weighed, Scored
<1> QED
  BY <1>1, <1>2, <1>3, <1>4, <1>5, <1>6, <1>7, <1>8 DEF Next, ScoreLoop

-------------------------------------------------------------------------------
(* What the counters hold.                                                 *)

LEMMA ZeroCounter == Zero \in Counter /\ Zero.total = 0 /\ Zero.correct = 0
BY DEF Zero, Counter

LEMMA CountedType ==
  ASSUME NEW counter \in Counter, NEW vote
  PROVE  /\ Counted(counter, vote) \in Counter
         /\ Counted(counter, vote).total = counter.total + 1
         /\ counter.correct <= counter.total
              => Counted(counter, vote).correct <= Counted(counter, vote).total
<1> DEFINE k == IF vote = loop.move THEN 1 ELSE 0
           c == counter.correct + k
           t == counter.total + 1
<1>1. k \in {0, 1} /\ counter.correct \in Nat /\ counter.total \in Nat
  BY DEF Counter
<1> HIDE DEF k
<1>2. c \in Nat /\ t \in Nat /\ (counter.correct <= counter.total => c <= t)
  BY <1>1
<1>3. Counted(counter, vote) = [correct |-> c, total |-> t]
  BY DEF Counted, k
<1> HIDE DEF c
<1> QED
  BY <1>2, <1>3 DEF Counter

LEMMA JudgedKept == VoteInv /\ Judged /\ [Next]_vars => Judged'
<1> SUFFICES ASSUME VoteInv, Judged, [Next]_vars PROVE Judged'
  OBVIOUS
<1>1. local \in [Strategies -> [Pairs -> Counter]] /\ global \in [Strategies -> Counter]
  BY DEF VoteInv, Shape, Judged
<1>2. ASSUME NEW n \in Strategies, CountLocal(n) PROVE Judged'
  <2>1. /\ UNCHANGED global /\ loop.pair \in Pairs
        /\ local' = [local EXCEPT ![n][loop.pair] = Counted(@, loop.votes[n])]
    BY <1>2 DEF CountLocal, At, VoteInv, Placed
  <2>2. Counted(local[n][loop.pair], loop.votes[n]) \in Counter
    BY <1>1, <2>1, CountedType
  <2> HIDE DEF Counted
  <2>3. local' \in [Strategies -> [Pairs -> Counter]]
    BY <1>1, <2>1, <2>2
  <2> QED
    BY <2>1, <2>3 DEF Judged
<1>3. ASSUME NEW n \in Strategies, CountGlobal(n) PROVE Judged'
  <2>1. /\ UNCHANGED local
        /\ global' = [global EXCEPT ![n] = Counted(@, loop.votes[n])]
    BY <1>3 DEF CountGlobal
  <2>2. global'[n] = Counted(global[n], loop.votes[n])
        /\ \A m \in Strategies \ {n} : global'[m] = global[m]
    BY <1>1, <2>1
  <2>3. global'[n].correct <= global'[n].total
    BY <1>1, <2>2, CountedType DEF Judged
  <2> QED
    BY <2>1, <2>2, <2>3 DEF Judged
<1>4. ASSUME NEW n \in Strategies, NEW p \in Pairs, ExpireCounter(n, p) PROVE Judged'
  <2>1. local' = [local EXCEPT ![n][p] = Zero] /\ UNCHANGED global
    BY <1>4 DEF ExpireCounter
  <2>2. local' \in [Strategies -> [Pairs -> Counter]]
    BY <1>1, <2>1, ZeroCounter
  <2> QED
    BY <2>1, <2>2 DEF Judged
<1>9. ASSUME NEW n \in Strategies, ExpireTotal(n) PROVE Judged'
  <2>1. global' = [global EXCEPT ![n] = Zero] /\ UNCHANGED local
    BY <1>9 DEF ExpireTotal
  <2>2. global'[n] = Zero /\ \A m \in Strategies \ {n} : global'[m] = global[m]
    BY <1>1, <2>1
  <2> QED
    BY <2>1, <2>2, ZeroCounter DEF Judged
<1>5. CASE ReadWeights \/ SelectPairs \/ NextPair \/ CheckAccuracy
           \/ Clear \/ Vote \/ Record \/ PairFails
  BY <1>5 DEF ReadWeights, SelectPairs, NextPair, CheckAccuracy, Clear, Vote, Record,
     PairFails, keys, Judged
<1>6. CASE ScoreLoop
  BY <1>6 DEF ScoreLoop, Backtest, PublishWeights, ScoreFails, ReadAccuracy, keys, Judged
<1>7. CASE (\E p \in Pairs : ExpireVotes(p)) \/ ExpireWeights \/ Crash \/ UNCHANGED vars
  BY <1>7 DEF ExpireVotes, ExpireWeights, Crash, vars, keys, Judged
<1> QED
  BY <1>2, <1>3, <1>4, <1>5, <1>6, <1>7, <1>9 DEF Next, SignalLoop, Redis

-------------------------------------------------------------------------------
(* The types, together.                                                    *)

TypeInv == VoteInv /\ Bounds /\ Weighed /\ Judged

LEMMA InitTypes == Init => TypeInv
<1> SUFFICES ASSUME Init PROVE TypeInv
  OBVIOUS
<1>1. VoteInv
  BY InitAccounts
<1>2. Bounds
  BY VoteAssumption DEF Init, Bounds, Asleep
<1>3. Weighed
  <2>1. backtest \in [Strategies -> Thousandths \cup {NoScore}]
    BY DEF Init
  <2> QED
    BY <2>1, NothingScored, RestingScorer DEF Init, Weighed, Scored
<1>4. Judged
  BY ZeroCounter DEF Init, Judged
<1> QED
  BY <1>1, <1>2, <1>3, <1>4 DEF TypeInv

LEMMA NextTypes == TypeInv /\ [Next]_vars => TypeInv'
BY NextAccounts, BoundsKept, WeighedKept, JudgedKept DEF TypeInv

LEMMA AlwaysTypes == Spec => []TypeInv
BY InitTypes, NextTypes, PTL DEF Spec

LEMMA PartialVotes ==
  ASSUME NEW f \in VoteSet
  PROVE  Partial(f, Strategies, Directions)
BY DEF VoteSet, Partial

LEMMA PartialWeights ==
  ASSUME NEW f \in WeightMaps
  PROVE  Partial(f, Strategies, TenThousandths)
BY MapIsPartial DEF WeightMaps

LEMMA PartialScores ==
  ASSUME NEW f \in ScoreMaps
  PROVE  Partial(f, Strategies, Thousandths)
BY MapIsPartial, Zenon DEF ScoreMaps

LEMMA TypesHold == TypeInv => TypeOK
<1> SUFFICES ASSUME TypeInv PROVE TypeOK
  OBVIOUS
<1>1. /\ loop = [at |-> loop.at, todo |-> loop.todo, pair |-> loop.pair,
                 move |-> loop.move, counting |-> loop.counting,
                 turn |-> loop.turn, votes |-> loop.votes]
      /\ loop.at \in LoopPlaces /\ loop.todo \subseteq Pairs
      /\ loop.pair \in Pairs \cup {NoPair} /\ loop.move \in Directions \cup {"flat"}
      /\ loop.counting \subseteq Strategies /\ loop.turn \in Strategies \cup {NoStrategy}
      /\ loop.votes \in VoteSet
  BY DEF TypeInv, VoteInv, Shape, LoopSet
<1>2. LoopTypes
  <2>1. Partial(loop.votes, Strategies, Directions)
    BY <1>1, PartialVotes
  <2> QED
    BY ONLY <1>1, <2>1 DEF LoopTypes
<1>3. VoteTypes
  <2>1. DOMAIN prev = Pairs /\ \A p \in Pairs : Partial(prev[p], Strategies, Directions)
    BY PartialVotes DEF TypeInv, VoteInv, Shape
  <2>2. /\ local \in [Strategies -> [Pairs -> Counter]]
        /\ global \in [Strategies -> Counter]
        /\ \A n \in Strategies : global[n].correct <= global[n].total
        /\ lapsed \in [keys : 0..MaxExpiries, votes : [Strategies -> Nat]]
    BY DEF TypeInv, VoteInv, Shape, Judged
  <2> QED
    BY ONLY <2>1, <2>2 DEF VoteTypes
<1>4. WeightTypes
  <2>1. Partial(applied, Strategies, TenThousandths)
    BY PartialWeights DEF TypeInv, Weighed
  <2>2. Partial(weights, Strategies, TenThousandths)
    BY PartialWeights DEF TypeInv, Weighed
  <2>3. backtest \in [Strategies -> Thousandths \cup {NoScore}]
    BY DEF TypeInv, Weighed, Scored
  <2>4. /\ scorer.at \in {"sleep", "read"} /\ scorer.todo \subseteq Strategies
        /\ scorer.read \in ScoreMaps
    BY DEF TypeInv, Weighed, Scored, ScorerSet
  <2>5. Partial(scorer.read, Strategies, Thousandths)
    BY <2>4, PartialScores DEF Thousandths
  <2> QED
    BY ONLY <2>1, <2>2, <2>3, <2>4, <2>5 DEF WeightTypes
<1>5. casts \in [Strategies -> 0..MaxCasts] /\ blends \in 0..MaxBlends /\ faults \in 0..MaxFaults
  BY DEF TypeInv, Bounds
<1> HIDE DEF TypeInv
<1> QED
  BY <1>2, <1>3, <1>4, <1>5 DEF TypeOK

(* Types: votes are of enabled strategies, a strategy is right at most as  *)
(* often as it was judged, so that the accuracy StrategyScorer divides out *)
(* is a share, and every dynamic weight that _blend_and_publish_weights    *)
(* writes is one of ten thousandths.                                       *)
THEOREM AnalystTypes == Spec => []TypeOK
BY AlwaysTypes, TypesHold, PTL

(* Of two strategies of the same configured weight, the one that did no    *)
(* worse is not published with a smaller weight by                         *)
(* _blend_and_publish_weights, however scores and accuracies are rounded.  *)
THEOREM TheBetterIsNotOutweighed == Spec => BetterNeverOutweighed
<1>1. ASSUME TypeInv, PublishWeights,
             NEW a \in Rated \cap DOMAIN scorer.read, NEW b \in Rated \cap DOMAIN scorer.read,
             Weight[a] = Weight[b], backtest[a] >= backtest[b],
             scorer.read[a] >= scorer.read[b]
      PROVE  weights'[a] >= weights'[b]
  <2>1. NewWeights[a] >= NewWeights[b]
    BY <1>1, WeightMonotone DEF TypeInv, Weighed
  <2>2. weights' = NewWeights
    BY <1>1 DEF PublishWeights
  <2> QED
    BY <2>1, <2>2
<1>2. TypeInv /\ [Next]_vars =>
        [(PublishWeights /\ weights' # weights) =>
           \A a, b \in Rated \cap DOMAIN scorer.read :
             (/\ Weight[a] = Weight[b]
              /\ backtest[a] >= backtest[b]
              /\ scorer.read[a] >= scorer.read[b]) => weights'[a] >= weights'[b]]_vars
  BY <1>1
<1> QED
  BY <1>2, AlwaysTypes, PTL DEF Spec, BetterNeverOutweighed

-------------------------------------------------------------------------------
(* The counters of pairs and strategy.                                     *)

Totals(row) == [p \in Pairs |-> row[p].total]
Tally(row) == SumOver(Totals(row), Pairs)

LEMMA TotalsAreInts ==
  ASSUME NEW row \in [Pairs -> Counter]
  PROVE  Ints(Totals(row), Pairs) /\ \A p \in Pairs : Totals(row)[p] = row[p].total
BY VoteAssumption DEF Totals, Ints, Counter

LEMMA TallyType ==
  ASSUME NEW row \in [Pairs -> Counter]
  PROVE  Tally(row) \in Nat
<1>1. \A p \in Pairs : Totals(row)[p] \in Nat
  BY DEF Totals, Counter
<1> QED
  BY <1>1, VoteAssumption, SumOfNats DEF Tally

(* The tally moves with the one counter that is written.                   *)
LEMMA TallyMoves ==
  ASSUME NEW row \in [Pairs -> Counter], NEW p \in Pairs, NEW counter \in Counter
  PROVE  Tally([row EXCEPT ![p] = counter]) = Tally(row) - row[p].total + counter.total
<1> DEFINE after == [row EXCEPT ![p] = counter]
           f == Totals(row)
           g == Totals(after)
<1>1. after \in [Pairs -> Counter] /\ after[p] = counter
      /\ \A q \in Pairs \ {p} : after[q] = row[q]
  OBVIOUS
<1> HIDE DEF after
<1>2. Ints(f, Pairs) /\ \A q \in Pairs : f[q] = row[q].total
  BY TotalsAreInts
<1>3. Ints(g, Pairs) /\ \A q \in Pairs : g[q] = after[q].total
  BY <1>1, TotalsAreInts
<1> HIDE DEF f, g
<1>4. g[p] \in Int /\ \A q \in Pairs \ {p} : g[q] = f[q]
  BY <1>1, <1>2, <1>3 DEF Ints
<1>5. SumOver(g, Pairs) = SumOver(f, Pairs) - f[p] + g[p]
  BY <1>2, <1>4, SumUpdate
<1>6. f[p] = row[p].total /\ g[p] = counter.total
  BY <1>1, <1>2, <1>3
<1>7. Tally(row) = SumOver(f, Pairs) /\ Tally(after) = SumOver(g, Pairs)
  BY DEF Tally, f, g
<1> QED
  BY <1>5, <1>6, <1>7 DEF after

LEMMA NothingTallied ==
  ASSUME NEW row, \A p \in Pairs : row[p] = Zero
  PROVE  Tally(row) = 0
<1>1. Ints(Totals(row), Pairs) /\ \A p \in Pairs : Totals(row)[p] = 0
  BY VoteAssumption DEF Totals, Ints, Zero
<1>2. Ints(Totals(row), {}) /\ {} \in SUBSET Pairs
  BY FS_EmptySet DEF Ints
<1>3. SumOver(Totals(row), Pairs) = SumOver(Totals(row), {})
  BY <1>1, <1>2, SumDropsZeros
<1> QED
  BY <1>3, SumEmpty DEF Tally

Agree ==
  \A n \in Strategies : Tally(local[n]) <= JudgedSoFar(n) + faults + Uncounted(n)

LEMMA AgreeIsCounters == Agree <=> CountersAgree
BY DEF Agree, CountersAgree, Tally, Totals

LEMMA Amounts ==
  ASSUME TypeInv, NEW n \in Strategies
  PROVE  /\ Tally(local[n]) \in Nat /\ JudgedSoFar(n) \in Nat
         /\ faults \in Nat /\ Uncounted(n) \in {0, 1}
<1>1. local[n] \in [Pairs -> Counter] /\ faults \in Nat /\ JudgedSoFar(n) \in Nat
  BY JudgedNumbers DEF TypeInv, VoteInv, Shape, Judged
<1> QED
  BY <1>1, TallyType DEF Uncounted

LEMMA StillWithin ==
  ASSUME NEW t \in Nat, NEW g \in Nat, NEW e \in Nat, NEW u \in Nat,
         NEW f \in Nat, NEW v \in Nat,
         t <= g + e + u, e + u <= f + v
  PROVE  t <= g + f + v
OBVIOUS

(* No counter is written, and what was not yet counted for the strategy is *)
(* paid for by a failure.                                                  *)
LEMMA AgreeAside ==
  ASSUME TypeInv, TypeInv', Agree, UNCHANGED <<local, global, lapsed>>,
         \A n \in Strategies : faults + Uncounted(n) <= faults' + Uncounted(n)'
  PROVE  Agree'
<1> SUFFICES ASSUME NEW n \in Strategies
             PROVE  Tally(local'[n]) <= JudgedSoFar(n)' + faults' + Uncounted(n)'
  BY DEF Agree
<1> DEFINE u == Uncounted(n)
           v == Uncounted(n)'
           t == Tally(local[n])
           g == JudgedSoFar(n)
<1>1. t \in Nat /\ g \in Nat /\ faults \in Nat /\ u \in {0, 1}
  BY Amounts
<1>2. faults' \in Nat /\ v \in {0, 1}
  BY DEF TypeInv, VoteInv, Shape, Uncounted
<1>3. t <= g + faults + u /\ faults + u <= faults' + v
  BY DEF Agree
<1>4. t = Tally(local'[n]) /\ g = JudgedSoFar(n)'
  BY SameJudged
<1> HIDE DEF u, v, t, g
<1>5. u \in Nat /\ v \in Nat
  BY <1>1, <1>2
<1>6. t <= g + faults' + v
  BY <1>1, <1>2, <1>3, <1>5, StillWithin, Zenon
<1> QED
  BY <1>4, <1>6 DEF v

LEMMA AgreeCountLocal ==
  ASSUME TypeInv, TypeInv', Agree, NEW n \in Strategies, CountLocal(n)
  PROVE  Agree'
<1> SUFFICES ASSUME NEW m \in Strategies
             PROVE  Tally(local'[m]) <= JudgedSoFar(m)' + faults' + Uncounted(m)'
  BY DEF Agree
<1>1. /\ UNCHANGED <<global, lapsed>> /\ loop.at = "count" /\ loop.pair \in Pairs
      /\ JudgedSoFar(m)' = JudgedSoFar(m)
      /\ local' = [local EXCEPT ![n][loop.pair] = Counted(@, loop.votes[n])]
      /\ local \in [Strategies -> [Pairs -> Counter]] /\ loop \in LoopSet
  BY SameJudged DEF CountLocal, At, TypeInv, VoteInv, Placed, Judged, Shape
<1>2. Uncounted(m) = 0 /\ faults \in Nat /\ JudgedSoFar(m) \in Nat
      /\ Tally(local[m]) \in Nat /\ Tally(local[m]) <= JudgedSoFar(m) + faults
  <2>1. Uncounted(m) = 0
    BY <1>1 DEF Uncounted
  <2>2. Tally(local[m]) <= JudgedSoFar(m) + faults + Uncounted(m)
    BY DEF Agree
  <2> QED
    BY <2>1, <2>2, Amounts
<1>3. \/ faults' = faults + 1
      \/ faults' = faults /\ loop'.at = "global" /\ loop'.turn = n
  BY <1>1 DEF CountLocal, Answered, Fails, LoopSet
<1>4. Uncounted(m)' \in {0, 1} /\ faults' \in Nat /\ faults <= faults'
  BY <1>2, <1>3 DEF Uncounted
<1>5. CASE m = n
  <2> DEFINE c == Counted(local[n][loop.pair], loop.votes[n])
  <2>1. c \in Counter /\ c.total = local[n][loop.pair].total + 1
    BY <1>1, CountedType
  <2>2. local'[n] = [local[n] EXCEPT ![loop.pair] = c] /\ local[n] \in [Pairs -> Counter]
    BY <1>1
  <2> HIDE DEF c
  <2>3. Tally(local'[n]) = Tally(local[n]) - local[n][loop.pair].total + c.total
    <3> DEFINE row == local[n]
               p == loop.pair
    <3>1. row \in [Pairs -> Counter] /\ p \in Pairs
      BY <1>1, <2>2
    <3> HIDE DEF row, p
    <3>2. Tally([row EXCEPT ![p] = c]) = Tally(row) - row[p].total + c.total
      BY <2>1, <3>1, TallyMoves
    <3> QED
      BY <2>2, <3>2 DEF row, p
  <2>4. local[n][loop.pair].total \in Nat
    BY <1>1 DEF Counter
  <2>5. Tally(local'[n]) = Tally(local[n]) + 1
    BY <1>2, <1>5, <2>1, <2>3, <2>4
  <2>6. faults + 1 <= faults' + Uncounted(n)'
    <3>1. loop'.at = "global" /\ loop'.turn = n => Uncounted(n)' = 1
      BY DEF Uncounted
    <3> QED
      BY <1>2, <1>3, <1>4, <1>5, <3>1
  <2> QED
    BY <1>1, <1>2, <1>4, <1>5, <2>5, <2>6
<1>6. CASE m # n
  <2>1. Tally(local'[m]) = Tally(local[m]) /\ JudgedSoFar(m)' = JudgedSoFar(m)
    BY <1>1, <1>6
  <2>2. Tally(local[m]) <= JudgedSoFar(m) + faults' + Uncounted(m)'
    BY <1>2, <1>4
  <2> QED
    BY <2>1, <2>2
<1> QED
  BY <1>5, <1>6

LEMMA AgreeCountGlobal ==
  ASSUME TypeInv, TypeInv', Agree, NEW n \in Strategies, CountGlobal(n)
  PROVE  Agree'
<1> SUFFICES ASSUME NEW m \in Strategies
             PROVE  Tally(local'[m]) <= JudgedSoFar(m)' + faults' + Uncounted(m)'
  BY DEF Agree
<1>1. /\ UNCHANGED <<local, lapsed>> /\ loop.turn = n /\ global \in [Strategies -> Counter]
      /\ global' = [global EXCEPT ![n] = Counted(@, loop.votes[n])]
  BY DEF CountGlobal, TypeInv, VoteInv, Shape
<1>2. /\ faults \in Nat /\ JudgedSoFar(m) \in Nat /\ Tally(local[m]) \in Nat
      /\ Uncounted(m) \in {0, 1}
      /\ Tally(local[m]) <= JudgedSoFar(m) + faults + Uncounted(m)
  BY Amounts DEF Agree
<1>3. faults' \in Nat /\ faults <= faults' /\ Uncounted(m)' \in {0, 1}
  <2>1. faults' = faults \/ faults' = faults + 1
    BY DEF CountGlobal, Answered, Fails
  <2> QED
    BY <1>2, <2>1 DEF Uncounted
<1>4. JudgedSoFar(m)' \in Nat /\ JudgedSoFar(m) + Uncounted(m) <= JudgedSoFar(m)'
  <2>1. global[m].total \in Nat /\ lapsed.votes[m] \in Nat
    BY DEF TypeInv, VoteInv, Shape, Counter
  <2>2. CASE m = n
    <3>1. global'[n] = Counted(global[n], loop.votes[n])
      BY <1>1
    <3>2. global'[n].total = global[n].total + 1
      BY <1>1, <3>1, CountedType
    <3> QED
      BY <1>1, <1>2, <2>1, <2>2, <3>2 DEF JudgedSoFar
  <2>3. CASE m # n
    <3>1. global'[m] = global[m] /\ Uncounted(m) = 0
      BY <1>1, <2>3 DEF Uncounted
    <3> QED
      BY <1>1, <1>2, <3>1 DEF JudgedSoFar
  <2> QED
    BY <2>2, <2>3
<1>5. Tally(local'[m]) = Tally(local[m])
  BY <1>1
<1> QED
  BY <1>2, <1>3, <1>4, <1>5

(* The counter of a pair that expires only makes the tally smaller.        *)
LEMMA AgreeExpire ==
  ASSUME TypeInv, TypeInv', Agree, NEW n \in Strategies, NEW p \in Pairs,
         ExpireCounter(n, p)
  PROVE  Agree'
<1> SUFFICES ASSUME NEW m \in Strategies
             PROVE  Tally(local'[m]) <= JudgedSoFar(m)' + faults' + Uncounted(m)'
  BY DEF Agree
<1>1. /\ local \in [Strategies -> [Pairs -> Counter]]
      /\ local' = [local EXCEPT ![n][p] = Zero]
      /\ faults' = faults /\ Uncounted(m)' = Uncounted(m)
  BY DEF ExpireCounter, TypeInv, Judged, Uncounted
<1>2. JudgedSoFar(m)' = JudgedSoFar(m)
  BY KeyExpired DEF TypeInv, ExpireCounter, JudgedSoFar
<1>3. /\ faults \in Nat /\ JudgedSoFar(m) \in Nat /\ Tally(local[m]) \in Nat
      /\ Uncounted(m) \in {0, 1}
      /\ Tally(local[m]) <= JudgedSoFar(m) + faults + Uncounted(m)
  BY Amounts DEF Agree
<1>4. Tally(local'[m]) \in Nat /\ Tally(local'[m]) <= Tally(local[m])
  <2>1. CASE m = n
    <3>1. local'[n] = [local[n] EXCEPT ![p] = Zero] /\ local[n] \in [Pairs -> Counter]
      BY <1>1
    <3>2. Tally(local'[n]) = Tally(local[n]) - local[n][p].total + Zero.total
      BY <3>1, ZeroCounter, TallyMoves
    <3>3. local[n][p].total \in Nat
      BY <3>1 DEF Counter
    <3>4. local'[n] \in [Pairs -> Counter]
      BY <3>1, ZeroCounter
    <3>5. Tally(local'[n]) \in Nat
      BY <3>4, TallyType
    <3> QED
      BY <1>3, <2>1, <3>2, <3>3, <3>5, ZeroCounter
  <2>2. CASE m # n
    <3>1. local'[m] = local[m]
      BY <1>1, <2>2
    <3> QED
      BY <1>3, <3>1
  <2> QED
    BY <2>1, <2>2
<1> QED
  BY <1>1, <1>2, <1>3, <1>4

(* What was judged so far stays, whatever the strategy's counter says.     *)
LEMMA AgreeStays ==
  ASSUME Agree, UNCHANGED <<local, loop, faults>>,
         \A n \in Strategies : JudgedSoFar(n)' = JudgedSoFar(n)
  PROVE  Agree'
<1> SUFFICES ASSUME NEW n \in Strategies
             PROVE  Tally(local'[n]) <= JudgedSoFar(n)' + faults' + Uncounted(n)'
  BY DEF Agree
<1>1. Uncounted(n)' = Uncounted(n)
  BY DEF Uncounted
<1> QED
  BY <1>1 DEF Agree

LEMMA AgreeKept == TypeInv /\ TypeInv' /\ Agree /\ [Next]_vars => Agree'
<1> SUFFICES ASSUME TypeInv, TypeInv', Agree, [Next]_vars PROVE Agree'
  OBVIOUS
<1>1. faults \in Nat /\ loop \in LoopSet
  BY DEF TypeInv, VoteInv, Shape
<1>2. faults' \in {faults, faults + 1}
  BY FaultSteps
<1>3. CASE ReadWeights \/ SelectPairs \/ NextPair \/ CheckAccuracy
           \/ Clear \/ Vote \/ Record
  <2>1. UNCHANGED <<local, global, lapsed>> /\ loop.at # "global"
    BY <1>3 DEF ReadWeights, SelectPairs, NextPair, CheckAccuracy, Clear, Vote, Record,
       keys, At
  <2>2. \A n \in Strategies : faults + Uncounted(n) <= faults' + Uncounted(n)'
    <3>1. \A n \in Strategies : Uncounted(n) = 0 /\ Uncounted(n)' \in {0, 1}
      BY <2>1 DEF Uncounted
    <3> QED
      BY <1>1, <1>2, <3>1
  <2> QED
    BY <2>1, <2>2, AgreeAside
<1>4. CASE PairFails \/ Crash
  <2>1. UNCHANGED <<local, global, lapsed>> /\ faults' = faults + 1
    BY <1>4 DEF PairFails, Crash, Fails, keys
  <2>2. \A n \in Strategies : faults + Uncounted(n) <= faults' + Uncounted(n)'
    <3>1. \A n \in Strategies : Uncounted(n) \in {0, 1} /\ Uncounted(n)' \in {0, 1}
      BY DEF Uncounted
    <3> QED
      BY <1>1, <2>1, <3>1
  <2> QED
    BY <2>1, <2>2, AgreeAside
<1>5. CASE ScoreLoop \/ UNCHANGED vars
  <2>1. UNCHANGED <<local, global, lapsed, loop>>
    BY <1>5 DEF ScoreLoop, Backtest, PublishWeights, ScoreFails, ReadAccuracy, vars, keys
  <2>2. \A n \in Strategies : faults + Uncounted(n) <= faults' + Uncounted(n)'
    <3>1. \A n \in Strategies : Uncounted(n) \in {0, 1} /\ Uncounted(n)' = Uncounted(n)
      BY <2>1 DEF Uncounted
    <3> QED
      BY <1>1, <1>2, <3>1
  <2> QED
    BY <2>1, <2>2, AgreeAside
<1>6. ASSUME NEW n \in Strategies, CountLocal(n) \/ CountGlobal(n)
      PROVE  Agree'
  BY <1>6, AgreeCountLocal, AgreeCountGlobal
<1>7. CASE (\E p \in Pairs : ExpireVotes(p)) \/ ExpireWeights
  <2>1. UNCHANGED <<local, global, loop, faults>> /\ Expires(lapsed.votes)
    BY <1>7 DEF ExpireVotes, ExpireWeights
  <2>2. \A n \in Strategies : JudgedSoFar(n)' = JudgedSoFar(n)
    BY <2>1, KeyExpired DEF TypeInv, JudgedSoFar
  <2> QED
    BY <2>1, <2>2, AgreeStays
<1>8. ASSUME NEW n \in Strategies, ExpireTotal(n) PROVE Agree'
  <2>1. UNCHANGED <<local, loop, faults>>
    BY <1>8 DEF ExpireTotal
  <2>2. \A m \in Strategies : JudgedSoFar(m)' = JudgedSoFar(m)
    BY <1>8, TotalExpired DEF TypeInv
  <2> QED
    BY <2>1, <2>2, AgreeStays
<1> QED
  BY <1>3, <1>4, <1>5, <1>6, <1>7, <1>8, AgreeExpire DEF Next, SignalLoop, Redis

LEMMA InitAgree == Init => Agree
<1> SUFFICES ASSUME Init, NEW n \in Strategies
             PROVE  Tally(local[n]) <= JudgedSoFar(n) + faults + Uncounted(n)
  BY DEF Agree
<1>1. local[n] = [p \in Pairs |-> Zero] /\ global[n] = Zero /\ faults = 0
      /\ lapsed.votes[n] = 0 /\ Uncounted(n) \in {0, 1}
  BY DEF Init, Uncounted
<1>2. Tally(local[n]) = 0
  BY <1>1, NothingTallied
<1> QED
  BY <1>1, <1>2, ZeroCounter DEF JudgedSoFar

(* What check_accuracy counted for the pairs of a strategy it counted for  *)
(* the strategy, but for one vote for each failing call or restart and the *)
(* one it is counting, although the two keys are written one after the     *)
(* other and each expires at a moment of its own.                          *)
THEOREM CountersNeverPart == Spec => []CountersAgree
BY AgreeIsCounters, InitAgree, AgreeKept, InitTypes, NextTypes, PTL DEF Spec

-------------------------------------------------------------------------------
(* The signal.                                                             *)

(* Whether a strategy votes, and for what, and with which confidence.      *)
LEMMA ResultType ==
  ASSUME NEW results \in Results
  PROVE  /\ DOMAIN results \in SUBSET Strategies
         /\ IsFiniteSet(DOMAIN results)
         /\ \A n \in DOMAIN results : results[n] \in Opinion
<1>1. PICK S \in SUBSET Strategies : results \in [S -> Opinion]
  BY DEF Results
<1>2. IsFiniteSet(S)
  BY VoteAssumption, FS_Subset
<1> QED
  BY <1>1, <1>2

LEMMA OpinionType ==
  ASSUME NEW opinion \in Opinion
  PROVE  /\ opinion.confidence \in Nat
         /\ opinion.action \in {"hold", "buy", "sell"}
<1>1. \A c \in Confidences : c \in Nat
  BY VoteAssumption
<1> QED
  BY <1>1 DEF Opinion, Directions

(* No weight is 0: one that became 0 is replaced by the configured one.    *)
LEMMA WeightsArePositive ==
  ASSUME Weighed, NEW n \in Strategies
  PROVE  WeightOf(n) \in Nat \ {0}
<1>1. Weight[n] \in 1..100
  BY VoteAssumption
<1>2. Weight[n] * 100 \in Nat \ {0}
  BY <1>1
<1>3. \A m \in DOMAIN applied : applied[m] \in TenThousandths
  BY MapIsPartial DEF Weighed, WeightMaps
<1>4. n \in DOMAIN applied => applied[n] \in Nat
  <2> DEFINE w == applied[n]
  <2>1. n \in DOMAIN applied => w \in TenThousandths
    BY <1>3
  <2> HIDE DEF w
  <2>2. w \in TenThousandths => w \in Nat
    BY DEF TenThousandths
  <2> QED
    BY <2>1, <2>2 DEF w
<1> QED
  BY <1>2, <1>4 DEF WeightOf

LEMMA WorthType ==
  ASSUME Weighed, NEW results \in Results, NEW n \in DOMAIN results
  PROVE  /\ Worth(results)[n] \in Nat
         /\ results[n].confidence > 0 => Worth(results)[n] > 0
<1> DEFINE w == WeightOf(n)
           c == results[n].confidence
<1>1. w \in Nat \ {0} /\ c \in Nat
  BY ResultType, OpinionType, WeightsArePositive
<1>2. Worth(results)[n] = w * c
  BY DEF Worth
<1> HIDE DEF w, c
<1>3. w * c \in Nat /\ (c > 0 => w * c > 0)
  BY <1>1
<1> QED
  BY <1>2, <1>3 DEF c

Side(results, action) == {n \in DOMAIN results : results[n].action = action}

LEMMA ForType ==
  ASSUME Weighed, NEW results \in Results, NEW action
  PROVE  /\ For(results, action) \in Nat
         /\ Side(results, action) = {} => For(results, action) = 0
         /\ \A n \in Side(results, action) :
              results[n].confidence > 0 => For(results, action) > 0
<1> DEFINE f == Worth(results)
           T == Side(results, action)
<1>1. IsFiniteSet(T) /\ T \subseteq DOMAIN results
  BY ResultType, FS_Subset DEF Side
<1>2. \A n \in T : f[n] \in Nat /\ (results[n].confidence > 0 => f[n] > 0)
  BY <1>1, WorthType
<1>3. For(results, action) = SumOver(f, T)
  BY DEF For, Side
<1> HIDE DEF f, T
<1>4. SumOver(f, T) \in Nat
  BY <1>1, <1>2, SumOfNats
<1>5. T = {} => SumOver(f, T) = 0
  BY SumEmpty, Zenon
<1>6. \A n \in T : results[n].confidence > 0 => SumOver(f, T) > 0
  <2> SUFFICES ASSUME NEW n \in T, results[n].confidence > 0 PROVE SumOver(f, T) > 0
    OBVIOUS
  <2>1. f[n] <= SumOver(f, T)
    BY <1>1, <1>2, TermWithinSum
  <2> QED
    BY <1>2, <1>4, <2>1
<1> QED
  BY <1>3, <1>4, <1>5, <1>6 DEF T

LEMMA Thresholds ==
  ASSUME NEW paper \in BOOLEAN
  PROVE  /\ ConfidenceThreshold(paper) \in {15, 50}
         /\ ActionThreshold(paper) \in {5, 15}
         /\ MinSignals(paper) \in {1, 2}
BY DEF ConfidenceThreshold, ActionThreshold, MinSignals

LEMMA ConfidentSide ==
  ASSUME NEW results \in Results, NEW paper \in BOOLEAN, NEW action
  PROVE  /\ Confident(results, paper, action) \subseteq Side(results, action)
         /\ \A n \in Confident(results, paper, action) : results[n].confidence > 0
<1>1. ConfidenceThreshold(paper) \in {15, 50}
  BY Thresholds
<1>2. \A n \in DOMAIN results : results[n].confidence \in Nat
  BY ResultType, OpinionType
<1> QED
  BY <1>1, <1>2 DEF Confident, Side

(* The weighted vote follows a side that has some weight.                  *)
LEMMA WeightedFollows ==
  ASSUME Weighed, NEW results \in Results, NEW paper \in BOOLEAN
  PROVE  /\ Weighted(results, paper) \in {"buy", "sell", "hold"}
         /\ Weighted(results, paper) # "hold"
              => Side(results, Weighted(results, paper)) # {}
         /\ For(results, "buy") > 0 /\ For(results, "sell") = 0
              => Weighted(results, paper) = "buy"
         /\ For(results, "sell") > 0 /\ For(results, "buy") = 0
              => Weighted(results, paper) = "sell"
<1> DEFINE b == For(results, "buy")
           s == For(results, "sell")
           t == ActionThreshold(paper)
           signal == Weighted(results, paper)
<1>1. b \in Nat /\ s \in Nat /\ t \in {5, 15}
  BY ForType, Thresholds
<1>2. signal = IF (b - s) * 100 > t * (b + s) THEN "buy"
               ELSE IF (s - b) * 100 > t * (b + s) THEN "sell" ELSE "hold"
  BY DEF Weighted
<1>3. /\ Side(results, "buy") = {} => b = 0
      /\ Side(results, "sell") = {} => s = 0
  BY ForType
<1> HIDE DEF b, s, t, signal
<1>4. /\ (b - s) * 100 > t * (b + s) => b > 0
      /\ (s - b) * 100 > t * (b + s) => s > 0
      /\ b > 0 /\ s = 0 => (b - s) * 100 > t * (b + s)
      /\ s > 0 /\ b = 0 => ~((b - s) * 100 > t * (b + s))
      /\ s > 0 /\ b = 0 => (s - b) * 100 > t * (b + s)
  <2>1. CASE t = 5
    BY <1>1, <2>1
  <2>2. CASE t = 15
    BY <1>1, <2>2
  <2> QED
    BY <1>1, <2>1, <2>2
<1>5. signal \in {"buy", "sell", "hold"}
  BY <1>2
<1>6. (signal = "buy" => b > 0) /\ (signal = "sell" => s > 0)
  BY <1>2, <1>4
<1>7. signal # "hold" => Side(results, signal) # {}
  BY <1>3, <1>5, <1>6
<1>8. (b > 0 /\ s = 0 => signal = "buy") /\ (s > 0 /\ b = 0 => signal = "sell")
  BY <1>2, <1>4
<1> QED
  BY <1>5, <1>7, <1>8 DEF b, s, signal

LEMMA MajorityFollows ==
  ASSUME NEW results \in Results, NEW paper \in BOOLEAN
  PROVE  /\ Majority(results, paper) \in {"buy", "sell", "hold"}
         /\ Majority(results, paper) # "hold"
              => Side(results, Majority(results, paper)) # {}
         /\ (/\ Confident(results, paper, "buy") # {}
             /\ Confident(results, paper, "sell") = {})
              => Majority(results, paper) = "buy"
         /\ (/\ Confident(results, paper, "sell") # {}
             /\ Confident(results, paper, "buy") = {})
              => Majority(results, paper) = "sell"
<1> DEFINE B == Confident(results, paper, "buy")
           S == Confident(results, paper, "sell")
           signal == Majority(results, paper)
<1>1. B \subseteq Side(results, "buy") /\ S \subseteq Side(results, "sell")
  BY ConfidentSide
<1>2. IsFiniteSet(B) /\ IsFiniteSet(S)
  BY ResultType, FS_Subset DEF Confident
<1>3. signal = IF Cardinality(B) > Cardinality(S) THEN "buy"
               ELSE IF Cardinality(S) > Cardinality(B) THEN "sell" ELSE "hold"
  BY DEF Majority
<1> HIDE DEF B, S, signal
<1>4. /\ Cardinality(B) \in Nat /\ (Cardinality(B) = 0 <=> B = {})
      /\ Cardinality(S) \in Nat /\ (Cardinality(S) = 0 <=> S = {})
  BY <1>2, FS_CardinalityType, FS_EmptySet
<1>5. /\ signal = "buy" => B # {}
      /\ signal = "sell" => S # {}
      /\ B # {} /\ S = {} => signal = "buy"
      /\ S # {} /\ B = {} => signal = "sell"
      /\ signal \in {"buy", "sell", "hold"}
  BY <1>3, <1>4
<1>6. signal # "hold" => Side(results, signal) # {}
  BY <1>1, <1>5
<1> QED
  BY <1>5, <1>6 DEF B, S, signal

LEMMA StrictFollows ==
  ASSUME Weighed, NEW results \in Results, NEW paper \in BOOLEAN
  PROVE  /\ Strict(results, paper) \in {"buy", "sell", "hold"}
         /\ Strict(results, paper) # "hold" => Side(results, Strict(results, paper)) # {}
         /\ Confident(results, paper, "sell") # {} => Strict(results, paper) = "sell"
         /\ Confident(results, paper, "sell") = {}
              => Strict(results, paper) = Weighted(results, paper)
<1>1. Confident(results, paper, "sell") \subseteq Side(results, "sell")
  BY ConfidentSide
<1> QED
  BY <1>1, WeightedFollows DEF Strict

(* Strategies that all vote for one action, with confidence.               *)
LEMMA AllForOne ==
  ASSUME Weighed, NEW results \in Results, NEW paper \in BOOLEAN,
         Cardinality(DOMAIN results) >= MinSignals(paper),
         NEW action \in Directions, NEW other \in Directions \ {action},
         Confident(results, paper, action) = DOMAIN results
  PROVE  /\ For(results, action) > 0 /\ For(results, other) = 0
         /\ Confident(results, paper, action) # {}
         /\ Confident(results, paper, other) = {}
<1>1. DOMAIN results # {}
  <2>1. MinSignals(paper) \in {1, 2} /\ Cardinality({}) = 0
    BY Thresholds, FS_EmptySet
  <2> QED
    BY <2>1
<1>2. \A n \in DOMAIN results : /\ results[n].action = action
                                /\ results[n].confidence > 0
  BY ConfidentSide DEF Side
<1>3. PICK n \in DOMAIN results : TRUE
  BY <1>1
<1>4. n \in Side(results, action) /\ results[n].confidence > 0
  BY <1>2 DEF Side
<1>5. For(results, action) > 0
  BY <1>4, ForType
<1>6. Side(results, other) = {}
  BY <1>2 DEF Side
<1>7. For(results, other) = 0
  BY <1>6, ForType
<1>8. Confident(results, paper, other) = {}
  BY <1>6, ConfidentSide
<1> QED
  BY <1>1, <1>5, <1>7, <1>8

LEMMA AggregateFollows ==
  ASSUME Weighed, NEW results \in Results, NEW mode \in Modes, NEW paper \in BOOLEAN
  PROVE  /\ Aggregate(mode, results, paper) # "hold"
              => Side(results, Aggregate(mode, results, paper)) # {}
         /\ \A action \in Directions :
              (/\ Cardinality(DOMAIN results) >= MinSignals(paper)
               /\ Confident(results, paper, action) = DOMAIN results)
                => Aggregate(mode, results, paper) = action
         /\ (mode = "strict" /\ Confident(results, paper, "sell") # {})
              => Aggregate(mode, results, paper) # "buy"
<1> DEFINE enough == Cardinality(DOMAIN results) >= MinSignals(paper)
           signal == Aggregate(mode, results, paper)
<1>1. Cardinality(DOMAIN results) \in Nat /\ MinSignals(paper) \in {1, 2}
  BY ResultType, FS_CardinalityType, Thresholds
<1>2. /\ ~enough => signal = "hold"
      /\ enough /\ mode = "strict" => signal = Strict(results, paper)
      /\ enough /\ mode = "majority" => signal = Majority(results, paper)
      /\ enough /\ mode = "weighted" => signal = Weighted(results, paper)
  BY <1>1 DEF Aggregate
<1>3. mode \in {"weighted", "strict", "majority"}
  BY DEF Modes
<1> HIDE DEF signal
<1>4. signal # "hold" => Side(results, signal) # {}
  BY <1>2, <1>3, StrictFollows, MajorityFollows, WeightedFollows
<1>5. ASSUME enough, Confident(results, paper, "buy") = DOMAIN results
      PROVE  signal = "buy"
  <2>1. /\ For(results, "buy") > 0 /\ For(results, "sell") = 0
        /\ Confident(results, paper, "buy") # {}
        /\ Confident(results, paper, "sell") = {}
    BY <1>5, AllForOne DEF Directions
  <2>2. Weighted(results, paper) = "buy"
    BY <2>1, WeightedFollows
  <2>3. Majority(results, paper) = "buy"
    BY <2>1, MajorityFollows
  <2>4. Strict(results, paper) = "buy"
    BY <2>1, <2>2, StrictFollows
  <2> QED
    BY <1>2, <1>3, <1>5, <2>2, <2>3, <2>4
<1>6. ASSUME enough, Confident(results, paper, "sell") = DOMAIN results
      PROVE  signal = "sell"
  <2>1. /\ For(results, "sell") > 0 /\ For(results, "buy") = 0
        /\ Confident(results, paper, "sell") # {}
        /\ Confident(results, paper, "buy") = {}
    BY <1>6, AllForOne DEF Directions
  <2>2. Weighted(results, paper) = "sell"
    BY <2>1, WeightedFollows
  <2>3. Majority(results, paper) = "sell"
    BY <2>1, MajorityFollows
  <2>4. Strict(results, paper) = "sell"
    BY <2>1, StrictFollows
  <2> QED
    BY <1>2, <1>3, <1>6, <2>2, <2>3, <2>4
<1>7. (mode = "strict" /\ Confident(results, paper, "sell") # {}) => signal # "buy"
  BY <1>2, StrictFollows
<1> QED
  BY <1>4, <1>5, <1>6, <1>7 DEF signal, Directions

LEMMA TypesFollow == TypeInv => SignalsFollowVotes
<1> SUFFICES ASSUME TypeInv, NEW results \in Results, NEW mode \in Modes,
                    NEW paper \in BOOLEAN
             PROVE  /\ Aggregate(mode, results, paper) # "hold"
                         => \E n \in DOMAIN results :
                              results[n].action = Aggregate(mode, results, paper)
                    /\ \A action \in Directions :
                         (/\ Cardinality(DOMAIN results) >= MinSignals(paper)
                          /\ Confident(results, paper, action) = DOMAIN results)
                           => Aggregate(mode, results, paper) = action
                    /\ (mode = "strict" /\ Confident(results, paper, "sell") # {})
                         => Aggregate(mode, results, paper) # "buy"
  BY DEF SignalsFollowVotes
<1>1. Weighed
  BY DEF TypeInv
<1> QED
  BY <1>1, AggregateFollows DEF Side

(* SignalAggregator never makes a BUY or SELL that no strategy voted for,  *)
(* always follows strategies that agree and are confident, even when the   *)
(* scorer has brought their weights to 0, and in strict mode no confident  *)
(* SELL is outvoted: for any strategies, weights and votes.                *)
THEOREM SignalsComeFromVotes == Spec => []SignalsFollowVotes
BY AlwaysTypes, TypesFollow, PTL
===============================================================================
