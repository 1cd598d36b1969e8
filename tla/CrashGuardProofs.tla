--------------------------- MODULE CrashGuardProofs ---------------------------
(***************************************************************************)
(* Theorems about the guardian, for any number of pairs, any window of     *)
(* correlations and any number of users: its states are well typed, no     *)
(* single check stops trading, RED takes the volatility check, and a       *)
(* guardian whose fetcher takes no limit never leaves GREEN.               *)
(***************************************************************************)
EXTENDS CrashGuard, SequenceTheorems, TLAPS

------------------------------------------------------------------------------
(* The strengthening.  Points carries the caps of the five checks: the     *)
(* score is at most what the triggers so far are worth, and a check's      *)
(* trigger is not there before the check has run.                          *)

Worth(name, points) == IF name \in triggers THEN points * Unit ELSE 0

Points ==
  score <= Worth("volatility_spike", 300) + Worth("flash_dip", 250)
           + Worth("volume_anomaly", 200) + Worth("rsi_extreme", 150)
           + Worth("correlation_breakdown", 100)

InOrder ==
  /\ stage = "volatility" => triggers = {}
  /\ stage = "flash" => triggers \subseteq {"volatility_spike"}
  /\ stage = "volume" => triggers \subseteq {"volatility_spike", "flash_dip"}
  /\ stage = "rsi" =>
       triggers \subseteq {"volatility_spike", "flash_dip", "volume_anomaly"}
  /\ stage = "correlation" => "correlation_breakdown" \notin triggers

NeedsAtr == "volatility_spike" \in triggers => HasAtr

Accounted == Points /\ InOrder /\ NeedsAtr

------------------------------------------------------------------------------
(* Operators.                                                              *)

(* The score of a check is a natural number, at most its cap.              *)
LEMMA ShareBounded ==
  ASSUME NEW hits \in Nat, NEW total \in Nat \ {0}, NEW weight \in Nat,
         NEW cap \in Nat
  PROVE  Share(hits, total, weight, cap) \in 0..(cap * Unit)
<1>1. Unit \in Nat
  BY GuardAssumption
<1>2. /\ hits * 10 * weight * Unit \in Nat
      /\ cap * Unit \in Nat
  BY <1>1
<1>3. (hits * 10 * weight * Unit) \div total \in Nat
  <2> DEFINE n == hits * 10 * weight * Unit
  <2>1. n \in Nat
    BY <1>2
  <2> HIDE DEF n
  <2>2. n \div total \in Nat
    BY <2>1
  <2> QED
    BY <2>2 DEF n
<1>4. \A a, b \in Nat : AtMost(a, b) \in 0..b
  BY DEF AtMost
<1> QED
  BY <1>2, <1>3, <1>4 DEF Share

(* A check triggers on at least one pair.                                  *)
LEMMA ReachesOne ==
  ASSUME NEW hits \in Nat, NEW total \in Nat, NEW percent \in Nat,
         Reaches(hits, total, percent)
  PROVE  hits >= 1
<1> DEFINE n == total * percent
<1>1. n \in Nat
  OBVIOUS
<1> DEFINE x == n \div 100
<1>2. hits >= AtLeast(1, x)
  BY DEF Reaches
<1> HIDE DEF n
<1>3. x \in Int
  BY <1>1
<1> HIDE DEF x
<1> QED
  BY <1>2, <1>3 DEF AtLeast

(* What a check samples.                                                   *)
LEMMA SamplesArePairs ==
  ASSUME NEW s \in Samples
  PROVE  s[1] \in 0..NPairs /\ s[2] \in 0..NPairs /\ s[1] <= s[2]
BY GuardAssumption DEF Samples

(* The window of correlations stays a sequence, no longer than the window. *)
LEMMA RecentShort ==
  ASSUME NEW h \in Seq(BOOLEAN), Len(h) <= Window + 1
  PROVE  Recent(h) \in Seq(BOOLEAN) /\ Len(Recent(h)) <= Window
<1>1. Window \in Nat /\ Window >= 3
  BY GuardAssumption
<1>2. CASE Len(h) > Window
  <2>1. Len(h) = Window + 1
    BY <1>1, <1>2
  <2>2. Recent(h) = SubSeq(h, 2, Window + 1)
    BY <1>1, <1>2, <2>1 DEF Recent
  <2>3. \A i \in 2..(Window + 1) : h[i] \in BOOLEAN
    BY <1>1, <2>1, ElementOfSeq
  <2>4. SubSeq(h, 2, Window + 1) \in Seq(BOOLEAN)
    BY <1>1, <2>1, <2>3, SubSeqProperties
  <2>5. Len(SubSeq(h, 2, Window + 1)) = Window
    BY <1>1, <2>1, SubSeqProperties
  <2> QED
    BY <1>1, <2>2, <2>4, <2>5
<1>3. CASE ~(Len(h) > Window)
  BY <1>1, <1>3 DEF Recent
<1> QED
  BY <1>2, <1>3

(* What a check that triggers adds: its trigger and at most its cap.       *)
Adds(name, cap) ==
  /\ triggers' = triggers \cup {name}
  /\ \E points \in 0..(cap * Unit) : score' = score + points

Added ==
  \/ UNCHANGED analysis
  \/ stage = "volatility" /\ HasAtr /\ Adds("volatility_spike", 300)
  \/ stage = "flash" /\ Adds("flash_dip", 250)
  \/ stage = "volume" /\ Adds("volume_anomaly", 200)
  \/ stage = "rsi" /\ Adds("rsi_extreme", 150)
  \/ stage = "correlation" /\ Adds("correlation_breakdown", 100)

(* A check of some pairs that triggers adds at most its cap.               *)
LEMMA CountsAdd ==
  ASSUME NEW s, NEW hits \in 0..NPairs, NEW total \in 0..NPairs, hits <= total,
         NEW triggered, triggered => hits >= 1,
         NEW weight \in Nat, NEW cap \in Nat, NEW name,
         Counts(s, hits, total, triggered, Share(hits, total, weight, cap), name)
  PROVE  UNCHANGED analysis \/ (triggered /\ Adds(name, cap))
<1>1. CASE triggered
  <2>1. hits \in Nat /\ total \in Nat \ {0}
    BY <1>1, GuardAssumption
  <2>2. Share(hits, total, weight, cap) \in 0..(cap * Unit)
    BY <2>1, ShareBounded
  <2> QED
    BY <1>1, <2>2 DEF Counts, Adds
<1>2. CASE ~triggered
  BY <1>2 DEF Counts, analysis
<1> QED
  BY <1>1, <1>2

(* A step of the analysis goes on to the next check, adds what the check   *)
(* adds, and leaves everything but the window and the faults alone.        *)
LEMMA CheckStep ==
  ASSUME TypeOK, Check
  PROVE  /\ stage \in Stages \ {"sleep", "publish"}
         /\ stage' = After(stage)
         /\ Added
         /\ history' \in Seq(BOOLEAN) /\ Len(history') <= Window
         /\ faults' \in 0..MaxFaults
         /\ UNCHANGED <<status, channel, listening, level, crashes>>
<1> USE DEF Stages
<1>0. history \in Seq(BOOLEAN) /\ Len(history) <= Window /\ faults \in 0..MaxFaults
  BY DEF TypeOK
<1>1. CASE Volatility
  <2>1. PICK s \in Samples :
          LET hits == IF HasAtr THEN s[1] ELSE 0
          IN Counts("volatility", hits, s[2], Reaches(hits, s[2], 20),
                    Share(hits, s[2], 80, 300), "volatility_spike")
    BY <1>1 DEF Volatility
  <2> DEFINE hits == IF HasAtr THEN s[1] ELSE 0
  <2>2. Counts("volatility", hits, s[2], Reaches(hits, s[2], 20),
               Share(hits, s[2], 80, 300), "volatility_spike")
    BY <2>1
  <2>3. hits \in 0..NPairs /\ s[2] \in 0..NPairs /\ hits <= s[2]
    BY SamplesArePairs, GuardAssumption
  <2>4. Reaches(hits, s[2], 20) => hits >= 1
    BY <2>3, ReachesOne, GuardAssumption
  <2>5. Reaches(hits, s[2], 20) => HasAtr
    BY <2>4
  <2> HIDE DEF hits
  <2>6. UNCHANGED analysis \/ (Reaches(hits, s[2], 20) /\ Adds("volatility_spike", 300))
    BY <2>2, <2>3, <2>4, CountsAdd
  <2> QED
    BY <1>0, <2>2, <2>5, <2>6 DEF Counts, Added
<1>2. CASE FlashDip
  <2>1. PICK s \in Samples :
          Counts("flash", s[1], s[2], Reaches(s[1], s[2], 15),
                 Share(s[1], s[2], 60, 250), "flash_dip")
    BY <1>2 DEF FlashDip
  <2>2. s[1] \in 0..NPairs /\ s[2] \in 0..NPairs /\ s[1] <= s[2]
    BY SamplesArePairs
  <2>3. Reaches(s[1], s[2], 15) => s[1] >= 1
    BY <2>2, ReachesOne, GuardAssumption
  <2>4. UNCHANGED analysis \/ Adds("flash_dip", 250)
    BY <2>1, <2>2, <2>3, CountsAdd
  <2> QED
    BY <1>0, <2>1, <2>4 DEF Counts, Added
<1>3. CASE VolumeAnomaly
  <2>1. PICK s \in Samples :
          Counts("volume", s[1], s[2], Reaches(s[1], s[2], 20),
                 Share(s[1], s[2], 50, 200), "volume_anomaly")
    BY <1>3 DEF VolumeAnomaly
  <2>2. s[1] \in 0..NPairs /\ s[2] \in 0..NPairs /\ s[1] <= s[2]
    BY SamplesArePairs
  <2>3. Reaches(s[1], s[2], 20) => s[1] >= 1
    BY <2>2, ReachesOne, GuardAssumption
  <2>4. UNCHANGED analysis \/ Adds("volume_anomaly", 200)
    BY <2>1, <2>2, <2>3, CountsAdd
  <2> QED
    BY <1>0, <2>1, <2>4 DEF Counts, Added
<1>4. CASE RsiExtreme
  <2>1. PICK s \in Samples :
          Counts("rsi", s[1], s[2], s[2] > 0 /\ s[1] * 100 >= s[2] * 40,
                 Share(s[1], s[2], 50, 150), "rsi_extreme")
    BY <1>4 DEF RsiExtreme
  <2>2. s[1] \in 0..NPairs /\ s[2] \in 0..NPairs /\ s[1] <= s[2]
    BY SamplesArePairs
  <2>3. (s[2] > 0 /\ s[1] * 100 >= s[2] * 40) => s[1] >= 1
    BY <2>2, GuardAssumption
  <2>4. UNCHANGED analysis \/ Adds("rsi_extreme", 150)
    BY <2>1, <2>2, <2>3, CountsAdd
  <2> QED
    BY <1>0, <2>1, <2>4 DEF Counts, Added
<1>5. CASE Correlation
  <2>1. PICK number \in BOOLEAN :
          /\ history' = Recent(Append(history, number))
          /\ \/ UNCHANGED analysis
             \/ /\ score' = score + 100 * Unit
                /\ triggers' = triggers \cup {"correlation_breakdown"}
    BY <1>5 DEF Correlation
  <2>2. Append(history, number) \in Seq(BOOLEAN)
        /\ Len(Append(history, number)) <= Window + 1
    BY <1>0, AppendProperties, GuardAssumption
  <2>3. history' \in Seq(BOOLEAN) /\ Len(history') <= Window
    BY <2>1, <2>2, RecentShort
  <2>4. UNCHANGED analysis \/ Adds("correlation_breakdown", 100)
    BY <2>1, GuardAssumption DEF Adds
  <2> QED
    BY <1>0, <1>5, <2>3, <2>4 DEF Correlation, Added, After
<1>6. CASE NoCorrelation
  BY <1>0, <1>6 DEF NoCorrelation, Added, After
<1>7. CASE CheckFails
  <2>1. faults' \in 0..MaxFaults
    BY <1>0, <1>7, GuardAssumption DEF CheckFails
  <2> QED
    BY <1>0, <1>7, <2>1 DEF CheckFails, Added, TypeOK
<1> QED
  BY <1>1, <1>2, <1>3, <1>4, <1>5, <1>6, <1>7 DEF Check

------------------------------------------------------------------------------
(* Types.                                                                  *)

(* After a check comes another, or the publication.                        *)
LEMMA AfterIsAStage ==
  ASSUME NEW s \in Stages \ {"sleep", "publish"}
  PROVE  After(s) \in Stages
BY DEF Stages, After

LEMMA InitTypes == Init => TypeOK
<1> SUFFICES ASSUME Init PROVE TypeOK
  OBVIOUS
<1>1. history \in Seq(BOOLEAN) /\ Len(history) <= Window
  BY GuardAssumption DEF Init
<1>2. channel \in Seq(Levels)
  BY DEF Init
<1> QED
  BY <1>1, <1>2, GuardAssumption DEF Init, TypeOK, Stages, Levels, NoAlarm

(* The level of a score and the triggers make a status.                    *)
LEMMA ResultIsAStatus ==
  ASSUME TypeOK
  PROVE  Result \in [level : Levels, triggers : SUBSET Triggers]
<1>1. ScoreToLevel(AtMost(score, 1000 * Unit)) \in Levels
  BY DEF ScoreToLevel, Levels
<1> QED
  BY <1>1 DEF Result, TypeOK

LEMMA AddedTypes ==
  ASSUME TypeOK, Added
  PROVE  score' \in Nat /\ triggers' \subseteq Triggers
<1>1. Unit \in Nat
  BY GuardAssumption
<1>2. ASSUME NEW name \in Triggers, NEW cap \in Nat, Adds(name, cap)
      PROVE  score' \in Nat /\ triggers' \subseteq Triggers
  <2>1. cap * Unit \in Nat
    BY <1>1
  <2> QED
    BY <1>2, <2>1 DEF Adds, TypeOK
<1>3. CASE UNCHANGED analysis
  BY <1>3 DEF analysis, TypeOK
<1> QED
  BY <1>2, <1>3 DEF Added, Triggers

LEMMA NextTypes == TypeOK /\ [Next]_vars => TypeOK'
<1> SUFFICES ASSUME TypeOK, [Next]_vars PROVE TypeOK'
  OBVIOUS
<1>0. MaxFaults \in Nat /\ MaxCrashes \in Nat
  BY GuardAssumption
<1>1. CASE StartAnalysis
  BY <1>1 DEF StartAnalysis, TypeOK, Stages
<1>2. CASE Check
  <2>1. stage' \in Stages
    BY <1>2, CheckStep, AfterIsAStage
  <2>2. score' \in Nat /\ triggers' \subseteq Triggers
    BY <1>2, CheckStep, AddedTypes
  <2> QED
    BY <1>2, <2>1, <2>2, CheckStep DEF TypeOK
<1>3. CASE Publish
  <2>1. Result \in [level : Levels, triggers : SUBSET Triggers]
    BY ResultIsAStatus
  <2>2. channel' \in Seq(Levels)
    BY <1>3, <2>1, AppendProperties DEF Publish, TypeOK
  <2> QED
    BY <1>3, <2>1, <2>2 DEF Publish, Finish, analysis, TypeOK, Stages
<1>4. CASE PublishFails
  <2>1. Result \in [level : Levels, triggers : SUBSET Triggers]
    BY ResultIsAStatus
  <2>2. faults' \in 0..MaxFaults
    BY <1>0, <1>4 DEF PublishFails, TypeOK
  <2> QED
    BY <1>4, <2>1, <2>2 DEF PublishFails, Finish, analysis, TypeOK, Stages
<1>5. CASE HandleMarketStatus
  <2>1. Head(channel) \in Levels /\ Tail(channel) \in Seq(Levels)
    BY <1>5, HeadTailProperties DEF HandleMarketStatus, TypeOK
  <2> QED
    BY <1>5, <2>1 DEF HandleMarketStatus, analysis, TypeOK
<1>6. ASSUME NEW u \in Users, SessionStarts(u) PROVE TypeOK'
  BY <1>6 DEF SessionStarts, analysis, TypeOK, Levels
<1>7. ASSUME NEW u \in Users, SessionEnds(u) PROVE TypeOK'
  BY <1>7 DEF SessionEnds, analysis, TypeOK
<1>8. CASE GuardianCrash
  <2>1. history' \in Seq(BOOLEAN) /\ Len(history') <= Window
    BY <1>8, GuardAssumption DEF GuardianCrash
  <2>2. crashes' \in 0..MaxCrashes
    BY <1>0, <1>8 DEF GuardianCrash, TypeOK
  <2> QED
    BY <1>8, <2>1, <2>2 DEF GuardianCrash, TypeOK, Stages, Levels, NoAlarm
<1>9. CASE TraderCrash
  <2>1. crashes' \in 0..MaxCrashes
    BY <1>0, <1>9 DEF TraderCrash, TypeOK
  <2>2. channel' \in Seq(Levels)
    BY <1>9 DEF TraderCrash
  <2> QED
    BY <1>9, <2>1, <2>2 DEF TraderCrash, analysis, TypeOK, Levels
<1>10. CASE SubscriptionEnds
  <2>1. channel' \in Seq(Levels)
    BY <1>10 DEF SubscriptionEnds
  <2>2. faults' \in 0..MaxFaults
    BY <1>0, <1>10 DEF SubscriptionEnds, TypeOK
  <2> QED
    BY <1>10, <2>1, <2>2 DEF SubscriptionEnds, analysis, TypeOK
<1>11. CASE UNCHANGED vars
  BY <1>11 DEF vars, TypeOK
<1> QED
  BY <1>1, <1>2, <1>3, <1>4, <1>5, <1>6, <1>7, <1>8, <1>9, <1>10, <1>11
  DEF Next, Guardian, Trader

(* Every reachable state of guardian and trader is well typed, the window  *)
(* of correlations is no longer than _check_correlation lets it become.    *)
THEOREM TypeCorrect == Spec => []TypeOK
<1>1. Init => TypeOK
  BY InitTypes
<1>2. TypeOK /\ [Next]_vars => TypeOK'
  BY NextTypes
<1> QED
  BY <1>1, <1>2, PTL DEF Spec

------------------------------------------------------------------------------
(* The account of the score.                                               *)

LEMMA InitAccounted == Init => Accounted
BY GuardAssumption
DEF Init, Accounted, Points, InOrder, NeedsAtr, Worth

(* A check keeps the account: its trigger was not counted before.          *)
LEMMA CheckAccounted ==
  ASSUME TypeOK, Accounted, Check
  PROVE  Accounted'
<1>0. /\ Unit \in Nat /\ score \in Nat
      /\ stage \in Stages \ {"sleep", "publish"}
      /\ stage' = After(stage)
      /\ Added
  BY CheckStep, GuardAssumption DEF TypeOK
<1>1. CASE UNCHANGED analysis
  BY <1>0, <1>1 DEF Accounted, Points, InOrder, NeedsAtr, Worth, analysis,
     Stages, After
<1>2. CASE stage = "volatility" /\ HasAtr /\ Adds("volatility_spike", 300)
  <2>1. PICK points \in 0..(300 * Unit) : score' = score + points
    BY <1>2 DEF Adds
  <2>2. triggers = {} /\ triggers' = {"volatility_spike"}
    BY <1>2 DEF Adds, Accounted, InOrder
  <2>3. stage' = "flash"
    BY <1>0, <1>2 DEF After
  <2> QED
    BY <1>0, <1>2, <2>1, <2>2, <2>3
    DEF Accounted, Points, InOrder, NeedsAtr, Worth
<1>3. CASE stage = "flash" /\ Adds("flash_dip", 250)
  <2>1. PICK points \in 0..(250 * Unit) : score' = score + points
    BY <1>3 DEF Adds
  <2>2. /\ triggers \subseteq {"volatility_spike"}
        /\ triggers' = triggers \cup {"flash_dip"}
    BY <1>3 DEF Adds, Accounted, InOrder
  <2>3. stage' = "volume"
    BY <1>0, <1>3 DEF After
  <2> QED
    BY <1>0, <2>1, <2>2, <2>3
    DEF Accounted, Points, InOrder, NeedsAtr, Worth
<1>4. CASE stage = "volume" /\ Adds("volume_anomaly", 200)
  <2>1. PICK points \in 0..(200 * Unit) : score' = score + points
    BY <1>4 DEF Adds
  <2>2. /\ triggers \subseteq {"volatility_spike", "flash_dip"}
        /\ triggers' = triggers \cup {"volume_anomaly"}
    BY <1>4 DEF Adds, Accounted, InOrder
  <2>3. stage' = "rsi"
    BY <1>0, <1>4 DEF After
  <2> QED
    BY <1>0, <2>1, <2>2, <2>3
    DEF Accounted, Points, InOrder, NeedsAtr, Worth
<1>5. CASE stage = "rsi" /\ Adds("rsi_extreme", 150)
  <2>1. PICK points \in 0..(150 * Unit) : score' = score + points
    BY <1>5 DEF Adds
  <2>2. /\ triggers \subseteq {"volatility_spike", "flash_dip", "volume_anomaly"}
        /\ triggers' = triggers \cup {"rsi_extreme"}
    BY <1>5 DEF Adds, Accounted, InOrder
  <2>3. stage' = "correlation"
    BY <1>0, <1>5 DEF After
  <2> QED
    BY <1>0, <2>1, <2>2, <2>3
    DEF Accounted, Points, InOrder, NeedsAtr, Worth
<1>6. CASE stage = "correlation" /\ Adds("correlation_breakdown", 100)
  <2>1. PICK points \in 0..(100 * Unit) : score' = score + points
    BY <1>6 DEF Adds
  <2>2. /\ "correlation_breakdown" \notin triggers
        /\ triggers' = triggers \cup {"correlation_breakdown"}
    BY <1>6 DEF Adds, Accounted, InOrder
  <2>3. stage' = "publish"
    BY <1>0, <1>6 DEF After
  <2> QED
    BY <1>0, <2>1, <2>2, <2>3
    DEF Accounted, Points, InOrder, NeedsAtr, Worth
<1> QED
  BY <1>0, <1>1, <1>2, <1>3, <1>4, <1>5, <1>6 DEF Added

LEMMA NextAccounted == TypeOK /\ Accounted /\ [Next]_vars => Accounted'
<1> SUFFICES ASSUME TypeOK, Accounted, [Next]_vars PROVE Accounted'
  OBVIOUS
<1> USE DEF Accounted, Points, InOrder, NeedsAtr, Worth
<1>1. CASE StartAnalysis
  BY <1>1, GuardAssumption DEF StartAnalysis
<1>2. CASE Check
  BY <1>2, CheckAccounted
<1>3. CASE Publish \/ PublishFails
  BY <1>3 DEF Publish, PublishFails, Finish, analysis
<1>4. CASE GuardianCrash
  BY <1>4, GuardAssumption DEF GuardianCrash
<1>5. CASE TraderCrash
  BY <1>5 DEF TraderCrash, analysis
<1>6. CASE Trader
  BY <1>6 DEF Trader, HandleMarketStatus, SubscriptionEnds, SessionStarts, SessionEnds, analysis
<1>7. CASE UNCHANGED vars
  BY <1>7 DEF vars
<1> QED
  BY <1>1, <1>2, <1>3, <1>4, <1>5, <1>6, <1>7 DEF Next, Guardian

(* What the account says of the result: ORANGE takes two triggers, RED     *)
(* three, of which one is the volatility check's.                          *)
LEMMA ResultEarned ==
  ASSUME TypeOK, Accounted
  PROVE  /\ Result.level = "ORANGE" => \E a, b \in Result.triggers : a # b
         /\ Result.level = "RED" =>
              /\ \E a, b, c \in Result.triggers : a # b /\ b # c /\ a # c
              /\ HasAtr /\ "volatility_spike" \in Result.triggers
<1>0. Unit \in Nat /\ Unit > 0 /\ score \in Nat
  BY GuardAssumption DEF TypeOK
<1>1. Result.level = ScoreToLevel(AtMost(score, 1000 * Unit))
      /\ Result.triggers = triggers
  BY DEF Result
<1>2. Result.level = "ORANGE" => score >= 500 * Unit
  BY <1>0, <1>1 DEF ScoreToLevel, AtMost
<1>3. Result.level = "RED" => score >= 750 * Unit
  BY <1>0, <1>1 DEF ScoreToLevel, AtMost
<1>4. ASSUME score >= 500 * Unit
      PROVE  \E a, b \in triggers : a # b
  <2>1. SUFFICES ASSUME ~\E a, b \in triggers : a # b PROVE FALSE
    OBVIOUS
  <2> QED
    BY <1>0, <1>4, <2>1 DEF Accounted, Points, Worth
<1>5. ASSUME score >= 750 * Unit
      PROVE  /\ \E a, b, c \in triggers : a # b /\ b # c /\ a # c
             /\ HasAtr /\ "volatility_spike" \in triggers
  <2>1. "volatility_spike" \in triggers
    BY <1>0, <1>5 DEF Accounted, Points, Worth
  <2>2. \E b, c \in triggers : b # c /\ b # "volatility_spike" /\ c # "volatility_spike"
    <3>1. SUFFICES ASSUME ~\E b, c \in triggers :
                             b # c /\ b # "volatility_spike" /\ c # "volatility_spike"
                   PROVE  FALSE
      OBVIOUS
    <3> QED
      BY <1>0, <1>5, <3>1 DEF Accounted, Points, Worth
  <2> QED
    BY <2>1, <2>2 DEF Accounted, NeedsAtr
<1> QED
  BY <1>1, <1>2, <1>3, <1>4, <1>5

(* Only the end of an analysis and a restart set the guardian's status.    *)
LEMMA StatusSteps ==
  ASSUME [Next]_vars
  PROVE  status' \in {status, Result, NoAlarm}
<1>1. CASE Check
  BY <1>1 DEF Check, Volatility, FlashDip, VolumeAnomaly, RsiExtreme, Counts,
     Correlation, NoCorrelation, CheckFails
<1>2. CASE StartAnalysis \/ Publish \/ PublishFails
  BY <1>2 DEF StartAnalysis, Publish, PublishFails, Finish
<1>3. CASE Trader
  BY <1>3 DEF Trader, HandleMarketStatus, SubscriptionEnds, SessionStarts, SessionEnds
<1>4. CASE GuardianCrash \/ TraderCrash
  BY <1>4 DEF GuardianCrash, TraderCrash
<1>5. CASE UNCHANGED vars
  BY <1>5 DEF vars
<1> QED
  BY <1>1, <1>2, <1>3, <1>4, <1>5 DEF Next, Guardian

LEMMA StatusEarned ==
  TypeOK /\ Accounted /\ NoLoneAlarm /\ RedNeedsVolatility /\ [Next]_vars
    => NoLoneAlarm' /\ RedNeedsVolatility'
BY StatusSteps, ResultEarned DEF NoLoneAlarm, RedNeedsVolatility, NoAlarm

(* No check alone stops the sessions of the trader from opening positions, *)
(* nor any two from keeping them: the caps of the five scores, summed over *)
(* an analysis, against the limits of MARKET_LEVELS.                       *)
THEOREM NoCheckAloneAlarms == Spec => []NoLoneAlarm
<1> DEFINE Earned == TypeOK /\ Accounted /\ NoLoneAlarm /\ RedNeedsVolatility
<1>1. Init => Earned
  BY InitTypes, InitAccounted DEF Init, NoAlarm, NoLoneAlarm, RedNeedsVolatility
<1>2. Earned /\ [Next]_vars => Earned'
  BY NextTypes, NextAccounted, StatusEarned
<1>3. Earned => NoLoneAlarm
  OBVIOUS
<1> QED
  BY <1>1, <1>2, <1>3, PTL DEF Spec

(* Positions are closed by the guardian, at RED, only if the calculator    *)
(* adds a column atr; the one of this code does not.                       *)
THEOREM RedTakesVolatility == Spec => []RedNeedsVolatility
<1> DEFINE Earned == TypeOK /\ Accounted /\ NoLoneAlarm /\ RedNeedsVolatility
<1>1. Init => Earned
  BY InitTypes, InitAccounted DEF Init, NoAlarm, NoLoneAlarm, RedNeedsVolatility
<1>2. Earned /\ [Next]_vars => Earned'
  BY NextTypes, NextAccounted, StatusEarned
<1>3. Earned => RedNeedsVolatility
  OBVIOUS
<1> QED
  BY <1>1, <1>2, <1>3, PTL DEF Spec

------------------------------------------------------------------------------
(* The blind guardian.                                                     *)

Silent == score = 0 /\ triggers = {} /\ status.level = "GREEN"

(* A guardian whose fetcher does not take the limit that every check       *)
(* passes stays at GREEN, with any market, any faults and any restarts.    *)
THEOREM BlindStaysGreen ==
  ASSUME ~TakesLimit
  PROVE  Spec => [](status.level = "GREEN")
<1>1. Init => Silent
  BY DEF Init, NoAlarm, Silent
<1>2. Silent /\ [Next]_vars => Silent'
  <2> SUFFICES ASSUME Silent, [Next]_vars PROVE Silent'
    OBVIOUS
  <2>1. UNCHANGED analysis \/ (score' = 0 /\ triggers' = {})
    <3>1. CASE Check
      BY <3>1 DEF Check, Volatility, FlashDip, VolumeAnomaly, RsiExtreme,
         Counts, Correlation, NoCorrelation, CheckFails
    <3>2. CASE ~Check
      BY <3>2 DEF Next, Guardian, Trader, StartAnalysis, Publish, PublishFails,
         Finish, HandleMarketStatus, SubscriptionEnds, SessionStarts, SessionEnds, GuardianCrash,
         TraderCrash, analysis, vars
    <3> QED
      BY <3>1, <3>2
  <2>2. Result.level = "GREEN"
    <3>1. AtMost(0, 1000 * Unit) = 0 /\ 0 < 250 * Unit
      BY GuardAssumption DEF AtMost
    <3>2. Result.level = ScoreToLevel(AtMost(0, 1000 * Unit))
      BY DEF Silent, Result
    <3>3. ScoreToLevel(0) = "GREEN"
      BY <3>1, GuardAssumption DEF ScoreToLevel
    <3> QED
      BY <3>1, <3>2, <3>3
  <2>3. status' \in {status, Result, NoAlarm}
    BY StatusSteps
  <2> QED
    BY <2>1, <2>2, <2>3 DEF Silent, analysis, NoAlarm
<1>3. Silent => status.level = "GREEN"
  BY DEF Silent
<1> QED
  BY <1>1, <1>2, <1>3, PTL DEF Spec

==============================================================================
