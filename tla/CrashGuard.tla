------------------------------ MODULE CrashGuard ------------------------------
(***************************************************************************)
(* The guardian: five checks of the market add up to a score, the score    *)
(* is a level, and the level is published to the sessions of the trader,   *)
(* which take it over.                                                     *)
(*                                                                         *)
(* The detector is handed a data fetcher and an indicator calculator.      *)
(* Two facts about them matter: whether fetch_ohlcv takes a limit, which   *)
(* every check passes, and whether the calculator adds a column atr.       *)
(***************************************************************************)
EXTENDS Integers, Sequences, FiniteSets

CONSTANTS
  NPairs,      (* number of tracked pairs: 10                               *)
  Unit,        (* a tenth of a point of the score, in parts: a multiple of  *)
               (* every number of pairs, so that percentages are whole      *)
  Window,      (* correlations kept: 20                                     *)
  MinHistory,  (* correlations needed for a comparison: 10                  *)
  TakesLimit,  (* fetch_ohlcv of the data fetcher has a parameter limit     *)
  HasAtr,      (* the indicator calculator adds a column atr                *)
  Crashing,    (* the market has crashed: all data is there, all of it bad  *)
  Users,       (* users whose bots run in the trader                        *)
  MaxFaults,   (* bound of the model: failing checks and publications       *)
  MaxCrashes,  (* bound of the model: restarts of guardian or trader        *)
  MaxQueue     (* bound of the model: statuses on their way                 *)

ASSUME GuardAssumption ==
  /\ NPairs \in Nat \ {0}
  /\ Unit \in Nat \ {0}
  /\ Window \in Nat
  /\ MinHistory \in 3..Window
  /\ TakesLimit \in BOOLEAN
  /\ HasAtr \in BOOLEAN
  /\ Crashing \in BOOLEAN
  /\ MaxFaults \in Nat
  /\ MaxCrashes \in Nat
  /\ MaxQueue \in Nat \ {0}

VARIABLES
  stage,     (* where the guardian's monitor loop stands                    *)
  score,     (* analyze: score so far, in parts                             *)
  triggers,  (* analyze: triggers so far                                    *)
  history,   (* _btc_eth_returns: for each entry, whether it is a number    *)
  status,    (* GuardianBot._last_status                                    *)
  channel,   (* statuses published and not yet handled by the trader        *)
  listening, (* the trader's subscription to the statuses lives             *)
  level,     (* user -> level of the session's risk manager, or NoSession   *)
  faults,    (* failures so far                                             *)
  crashes    (* restarts so far                                             *)

analysis == <<score, triggers>>
vars == <<stage, score, triggers, history, status, channel, listening, level,
          faults, crashes>>

------------------------------------------------------------------------------
(* Data.                                                                   *)

Levels   == {"GREEN", "YELLOW", "ORANGE", "RED"}
Triggers == {"volatility_spike", "flash_dip", "volume_anomaly",
             "rsi_extreme", "correlation_breakdown"}
Stages   == {"sleep", "volatility", "flash", "volume", "rsi", "correlation",
             "publish"}
NoSession == "none"

After(s) ==
  CASE s = "volatility"  -> "flash"
    [] s = "flash"       -> "volume"
    [] s = "volume"      -> "rsi"
    [] s = "rsi"         -> "correlation"
    [] s = "correlation" -> "publish"

NoAlarm == [level |-> "GREEN", triggers |-> {}]

AtLeast(a, b) == IF a < b THEN b ELSE a
AtMost(a, b)  == IF a < b THEN a ELSE b

(* Slip: the threshold belongs to the level below.                         *)
ScoreToLevelLate(s) ==
  CASE s <= 250 * Unit -> "GREEN"
    [] s > 250 * Unit /\ s <= 400 * Unit -> "YELLOW"
    [] s > 400 * Unit /\ s < 650 * Unit  -> "ORANGE"
    [] OTHER -> "RED"

(* _score_to_level: ranges that include their lower end.                   *)
ScoreToLevel(s) ==
  CASE s < 250 * Unit -> "GREEN"
    [] s >= 250 * Unit /\ s < 500 * Unit -> "YELLOW"
    [] s >= 500 * Unit /\ s < 750 * Unit -> "ORANGE"
    [] OTHER -> "RED"

(* Slip: the score of a check is not capped.                               *)
ShareUncapped(hits, total, weight, cap) == (hits * 10 * weight * Unit) \div total

(* The score of hits among total pairs: weight tenths of a point per       *)
(* ten per cent, at most cap tenths.                                       *)
Share(hits, total, weight, cap) ==
  AtMost((hits * 10 * weight * Unit) \div total, cap * Unit)

(* A check triggers at a share of the pairs, rounded down, and at one.     *)
Reaches(hits, total, percent) == hits >= AtLeast(1, (total * percent) \div 100)

------------------------------------------------------------------------------
Init ==
  /\ stage = "sleep"
  /\ score = 0
  /\ triggers = {}
  /\ history = <<>>
  /\ status = NoAlarm
  /\ channel = <<>>
  /\ listening = TRUE
  /\ level = [u \in Users |-> NoSession]
  /\ faults = 0
  /\ crashes = 0

------------------------------------------------------------------------------
(* The analysis.  Each check runs over the pairs, a fetch at a time.  A    *)
(* pair without candles, after three attempts of the fetcher, is not in    *)
(* the total.                                                              *)

Samples ==
  IF Crashing THEN {<<NPairs, NPairs>>}
  ELSE {s \in (0..NPairs) \X (0..NPairs) : s[1] <= s[2]}

Counts(s, hits, total, triggered, points, name) ==
  /\ stage = s
  /\ TakesLimit
  /\ score' = IF triggered THEN score + points ELSE score
  /\ triggers' = IF triggered THEN triggers \cup {name} ELSE triggers
  /\ stage' = After(s)
  /\ UNCHANGED <<history, status, channel, listening, level, faults, crashes>>

(* Without a column atr no pair counts as volatile.                        *)
Volatility ==
  \E s \in Samples :
    LET hits == IF HasAtr THEN s[1] ELSE 0
    IN Counts("volatility", hits, s[2], Reaches(hits, s[2], 20),
              Share(hits, s[2], 80, 300), "volatility_spike")

FlashDip ==
  \E s \in Samples :
    Counts("flash", s[1], s[2], Reaches(s[1], s[2], 15),
           Share(s[1], s[2], 60, 250), "flash_dip")

VolumeAnomaly ==
  \E s \in Samples :
    Counts("volume", s[1], s[2], Reaches(s[1], s[2], 20),
           Share(s[1], s[2], 50, 200), "volume_anomaly")

(* At least 40 % of the pairs have an extreme RSI.                         *)
RsiExtreme ==
  \E s \in Samples :
    Counts("rsi", s[1], s[2], s[2] > 0 /\ s[1] * 100 >= s[2] * 40,
           Share(s[1], s[2], 50, 150), "rsi_extreme")

(* Slip: one correlation too many is kept.                                 *)
RecentOneMore(h) ==
  IF Len(h) > Window + 1 THEN SubSeq(h, Len(h) - Window, Len(h)) ELSE h

Recent(h) == IF Len(h) > Window THEN SubSeq(h, Len(h) - Window + 1, Len(h)) ELSE h

(* The correlation is appended, a number or not (flat prices have none),   *)
(* and compared when there are enough; what is not a number compares as    *)
(* false with everything.                                                  *)
Correlation ==
  /\ stage = "correlation"
  /\ TakesLimit
  /\ \E number \in BOOLEAN :
       /\ history' = Recent(Append(history, number))
       /\ \/ UNCHANGED analysis
          \/ /\ Len(history') >= MinHistory
             /\ \A i \in 1..Len(history') : history'[i]
             /\ score' = score + 100 * Unit
             /\ triggers' = triggers \cup {"correlation_breakdown"}
  /\ stage' = "publish"
  /\ UNCHANGED <<status, channel, listening, level, faults, crashes>>

(* Too few candles, or series of different lengths: nothing is appended.   *)
NoCorrelation ==
  /\ stage = "correlation"
  /\ TakesLimit
  /\ ~Crashing
  /\ stage' = "publish"
  /\ UNCHANGED <<analysis, history, status, channel, listening, level, faults, crashes>>

(* A check that raises is logged and adds nothing.  Every check passes     *)
(* limit to fetch_ohlcv, and raises when it does not take one.             *)
CheckFails ==
  /\ stage \notin {"sleep", "publish"}
  /\ \/ ~TakesLimit /\ UNCHANGED faults
     \/ faults < MaxFaults /\ faults' = faults + 1
  /\ stage' = After(stage)
  /\ UNCHANGED <<analysis, history, status, channel, listening, level, crashes>>

StartAnalysis ==
  /\ stage = "sleep"
  /\ stage' = "volatility"
  /\ score' = 0
  /\ triggers' = {}
  /\ UNCHANGED <<history, status, channel, listening, level, faults, crashes>>

(* The result is the guardian's status before it is published; the         *)
(* publication may raise, which ends the cycle.                            *)
Result == [level |-> ScoreToLevel(AtMost(score, 1000 * Unit)),
           triggers |-> triggers]

Finish ==
  /\ stage = "publish"
  /\ status' = Result
  /\ stage' = "sleep"

(* Slip: only a level that has changed is published.                       *)
PublishChanges ==
  /\ Finish
  /\ Len(channel) < MaxQueue
  /\ channel' = IF Result.level = status.level \/ ~listening THEN channel
                ELSE Append(channel, Result.level)
  /\ UNCHANGED <<analysis, history, listening, level, faults, crashes>>

(* It reaches the trader only if it listens.                               *)
Publish ==
  /\ Finish
  /\ Len(channel) < MaxQueue
  /\ channel' = IF listening THEN Append(channel, Result.level) ELSE channel
  /\ UNCHANGED <<analysis, history, listening, level, faults, crashes>>

PublishFails ==
  /\ Finish
  /\ faults < MaxFaults
  /\ faults' = faults + 1
  /\ UNCHANGED <<analysis, history, channel, listening, level, crashes>>

------------------------------------------------------------------------------
(* The trader.                                                             *)

Sessions == {u \in Users : level[u] # NoSession}

(* _handle_market_status: one loop over the sessions, without an await.    *)
HandleMarketStatus ==
  /\ channel # <<>>
  /\ channel' = Tail(channel)
  /\ level' = [u \in Users |-> IF u \in Sessions THEN Head(channel) ELSE NoSession]
  /\ UNCHANGED <<stage, analysis, history, status, listening, faults, crashes>>

(* The subscription loses its connection: its task ends unnoticed, with    *)
(* what is under way, and nothing starts it again.                         *)
SubscriptionEnds ==
  /\ listening
  /\ faults < MaxFaults
  /\ faults' = faults + 1
  /\ listening' = FALSE
  /\ channel' = <<>>
  /\ UNCHANGED <<stage, analysis, history, status, level, crashes>>

(* A session starts without asking for the level: at GREEN.                *)
SessionStarts(u) ==
  /\ u \notin Sessions
  /\ level' = [level EXCEPT ![u] = "GREEN"]
  /\ UNCHANGED <<stage, analysis, history, status, channel, listening, faults, crashes>>

SessionEnds(u) ==
  /\ u \in Sessions
  /\ level' = [level EXCEPT ![u] = NoSession]
  /\ UNCHANGED <<stage, analysis, history, status, channel, listening, faults, crashes>>

(* A restart of the guardian; of the trader, which loses what is under way *)
(* and starts the sessions and the subscription anew.                      *)
GuardianCrash ==
  /\ crashes < MaxCrashes
  /\ crashes' = crashes + 1
  /\ stage' = "sleep"
  /\ score' = 0
  /\ triggers' = {}
  /\ history' = <<>>
  /\ status' = NoAlarm
  /\ UNCHANGED <<channel, listening, level, faults>>

TraderCrash ==
  /\ crashes < MaxCrashes
  /\ crashes' = crashes + 1
  /\ channel' = <<>>
  /\ listening' = TRUE
  /\ level' = [u \in Users |-> IF u \in Sessions THEN "GREEN" ELSE NoSession]
  /\ UNCHANGED <<stage, analysis, history, status, faults>>

------------------------------------------------------------------------------
Check ==
  \/ Volatility \/ FlashDip \/ VolumeAnomaly \/ RsiExtreme
  \/ Correlation \/ NoCorrelation
  \/ CheckFails

Guardian == StartAnalysis \/ Check \/ Publish \/ PublishFails

Trader ==
  \/ HandleMarketStatus \/ SubscriptionEnds
  \/ \E u \in Users : SessionStarts(u) \/ SessionEnds(u)

Next == Guardian \/ Trader \/ GuardianCrash \/ TraderCrash

Spec == Init /\ [][Next]_vars

(* The loop sleeps 60 s and goes on whatever happened; the subscription,   *)
(* as long as it lives, hands over what it receives.                       *)
FairSpec == Spec /\ WF_vars(Guardian) /\ WF_vars(HandleMarketStatus)

------------------------------------------------------------------------------
TypeOK ==
  /\ stage \in Stages
  /\ score \in Nat
  /\ triggers \subseteq Triggers
  /\ history \in Seq(BOOLEAN)
  /\ Len(history) <= Window
  /\ status \in [level : Levels, triggers : SUBSET Triggers]
  /\ channel \in Seq(Levels)
  /\ listening \in BOOLEAN
  /\ level \in [Users -> Levels \cup {NoSession}]
  /\ faults \in 0..MaxFaults
  /\ crashes \in 0..MaxCrashes

------------------------------------------------------------------------------
(* Safety.                                                                 *)

(* No single check halts trading: opening stops at ORANGE, which takes two *)
(* triggers, and everything is closed at RED, which takes three.  It is    *)
(* the caps of the five scores against the limits of the levels.           *)
NoLoneAlarm ==
  /\ status.level = "ORANGE" => \E a, b \in status.triggers : a # b
  /\ status.level = "RED" =>
       \E a, b, c \in status.triggers : a # b /\ b # c /\ a # c

(* The checks that are left reach RED only with the volatility check: the  *)
(* other caps are 25, 20, 15 and 10, which is 70.  A calculator without    *)
(* atr therefore keeps the guardian from ever closing positions.           *)
RedNeedsVolatility ==
  status.level = "RED" => HasAtr /\ "volatility_spike" \in status.triggers

------------------------------------------------------------------------------
(* Liveness.                                                               *)

(* Unless the trader's subscription has ended, a level at which the        *)
(* guardian stays is that of every session that stays, whether the session *)
(* was there, was started or was lost in a restart since: the status is    *)
(* published in every cycle.                                               *)
StandingLevelIsHeard ==
  []<>listening =>
    \A u \in Users, l \in Levels :
      <>[](status.level = l /\ u \in Sessions) => <>[](level[u] = l)

(* The guardian "proactively halts trading before a crash hits": a market  *)
(* in which every pair is in distress is one day announced as more than    *)
(* GREEN.  It is not when the checks cannot fetch.                         *)
CrashIsAnnounced == Crashing => <>(status.level # "GREEN")
==============================================================================
