------------------------ MODULE SessionLifecycleProofs ------------------------
(***************************************************************************)
(* Theorems about SessionLifecycle for every set of users and requests:    *)
(* types, and that no session runs for a user who never wanted one.        *)
(***************************************************************************)
EXTENDS SessionLifecycle, FiniteSetTheorems, SequenceTheorems, TLAPS

LEMMA SizesAreNumbers ==
  ASSUME NEW S \in SUBSET Users
  PROVE  Cardinality(S) \in Nat
BY LifecycleAssumption, FS_Subset, FS_CardinalityType

LEMMA PassesAreCounted ==
  ASSUME monitor \in Monitor
  PROVE  NextPass \in 0 .. RefreshEvery - 1
BY LifecycleAssumption DEF NextPass, RefreshDue, Monitor

LEMMA VisitTypes ==
  ASSUME monitor \in Monitor, NEW dict \in SUBSET Users, Visit(dict)
  PROVE  monitor' \in Monitor
<1>1. NextPass \in 0 .. RefreshEvery - 1
  BY PassesAreCounted
<1>2. Cardinality(dict) \in Nat
  BY SizesAreNumbers
<1>3. Booting \in Monitor
  BY LifecycleAssumption DEF Booting, Monitor
<1> QED
  BY <1>1, <1>2, <1>3 DEF Visit, Monitor, Booting

(* A refresh leaves exactly the users of its rows.                         *)
LEMMA RefreshedIsRows ==
  ASSUME NEW rows PROVE Refreshed(rows) = rows
BY DEF Refreshed, Stale

------------------------------------------------------------------------------
LEMMA InitTypes == Init => TypeOK
<1> SUFFICES ASSUME Init PROVE TypeOK
  OBVIOUS
<1>1. request \in [Requests -> Request]
  BY DEF Init, Request
<1>2. monitor \in Monitor
  BY LifecycleAssumption DEF Init, Booting, Monitor
<1>3. channel \in Seq(Message)
  BY DEF Init
<1> QED
  BY <1>1, <1>2, <1>3 DEF Init, TypeOK

LEMMA LoadTypes ==
  ASSUME TypeOK, NEW r \in Requests, Load(r)
  PROVE  TypeOK'
<1>1. request' \in [Requests -> Request]
  <2>1. (request[r].user \in active) \in BOOLEAN
    OBVIOUS
  <2>2. [request[r] EXCEPT !.at = "loaded", !.seen = request[r].user \in active]
          \in Request
    BY <2>1 DEF TypeOK, Request
  <2> QED
    BY <2>2 DEF Load, TypeOK
<1> QED
  BY <1>1 DEF Load, TypeOK, traderVars

LEMMA CommitTypes ==
  ASSUME TypeOK, NEW r \in Requests, Commit(r)
  PROVE  TypeOK'
<1>1. active' \in SUBSET Users
  BY DEF Commit, Written, TypeOK, Request
<1>2. request' \in [Requests -> Request]
  BY DEF Commit, TypeOK, Request
<1>3. wanted' \in SUBSET Users
  BY <1>1 DEF Commit, TypeOK
<1> QED
  BY <1>1, <1>2, <1>3 DEF Commit, TypeOK, traderVars

LEMMA TellTypes ==
  ASSUME TypeOK, NEW r \in Requests, Tell(r)
  PROVE  TypeOK'
<1>1. request' \in [Requests -> Request]
  BY DEF Tell, AfterTelling, TypeOK, Request
<1>2. channel' \in Seq(Message)
  <2>1. (request[r].kind = "start") \in BOOLEAN
    OBVIOUS
  <2>2. [user |-> request[r].user, start |-> request[r].kind = "start"] \in Message
    BY <2>1 DEF TypeOK, Request, Message
  <2> QED
    BY <2>2 DEF Tell, TypeOK
<1> QED
  BY <1>1, <1>2 DEF Tell, TypeOK, traderVars

LEMMA WebTypes == TypeOK /\ Web => TypeOK'
BY LoadTypes, CommitTypes, TellTypes DEF Web

LEMMA ControlTypes == TypeOK /\ Control => TypeOK'
<1> SUFFICES ASSUME TypeOK, Control PROVE TypeOK'
  OBVIOUS
<1>1. CASE HandleControl
  <2>1. Head(channel) \in Message /\ Tail(channel) \in Seq(Message)
    BY <1>1, HeadTailProperties DEF HandleControl, TypeOK
  <2>2. sessions' \in SUBSET Users
    BY <1>1, <2>1 DEF HandleControl, SetSessions, TypeOK, Message
  <2>3. monitor' \in Monitor
    <3>1. PICK b \in BOOLEAN : monitor' = [monitor EXCEPT !.changed = b]
      <4> DEFINE new == IF Head(channel).start THEN sessions \cup {Head(channel).user}
                                               ELSE sessions \ {Head(channel).user}
                 b == monitor.changed \/ (monitor.at = "visiting" /\ new # sessions)
      <4>1. b \in BOOLEAN
        OBVIOUS
      <4>2. monitor' = [monitor EXCEPT !.changed = b]
        BY <1>1 DEF HandleControl, SetSessions
      <4> QED
        BY <4>1, <4>2
    <3> QED
      BY <3>1 DEF TypeOK, Monitor
  <2> QED
    BY <1>1, <2>1, <2>2, <2>3 DEF HandleControl, TypeOK, webVars
<1>2. CASE ControlFails
  <2>1. Tail(channel) \in Seq(Message)
    BY <1>2, HeadTailProperties DEF ControlFails, TypeOK
  <2> QED
    BY <1>2, <2>1 DEF ControlFails, TypeOK, webVars
<1>3. CASE ListenerDies
  <2>1. channel' \in Seq(Message)
    BY <1>3 DEF ListenerDies
  <2> QED
    BY <1>3, <2>1 DEF ListenerDies, TypeOK, webVars
<1> QED
  BY <1>1, <1>2, <1>3 DEF Control

LEMMA MonitorTypes == TypeOK /\ MonitorLoop => TypeOK'
<1> SUFFICES ASSUME TypeOK, MonitorLoop PROVE TypeOK'
  OBVIOUS
<1>1. CASE Tick
  <2>1. monitor' \in Monitor
    BY <1>1, VisitTypes DEF Tick, TypeOK
  <2> QED
    BY <1>1, <2>1 DEF Tick, TypeOK, webVars
<1>2. CASE RefreshReads
  <2>1. monitor' \in Monitor
    BY <1>2 DEF RefreshReads, TypeOK, Monitor
  <2> QED
    BY <1>2, <2>1 DEF RefreshReads, TypeOK, webVars
<1>3. CASE RefreshApplies
  <2>1. sessions' \in SUBSET Users
    BY <1>3, RefreshedIsRows DEF RefreshApplies, TypeOK, Monitor
  <2>2. monitor' \in Monitor
    BY <1>3, <2>1, VisitTypes DEF RefreshApplies, TypeOK
  <2> QED
    BY <1>3, <2>1, <2>2 DEF RefreshApplies, TypeOK, webVars
<1>4. CASE RefreshFails
  <2>1. monitor' \in Monitor
    BY <1>4, VisitTypes DEF RefreshFails, TypeOK
  <2> QED
    BY <1>4, <2>1 DEF RefreshFails, TypeOK, webVars
<1>5. CASE Resume
  <2>1. monitor' \in Monitor
    <3>1. PICK place \in {"rest", "dead"} :
            monitor' = [MonitorAt(place) EXCEPT !.size = 0, !.changed = FALSE]
      BY <1>5 DEF Resume
    <3>2. MonitorAt(place) \in Monitor
      BY DEF MonitorAt, TypeOK, Monitor
    <3> QED
      BY <3>1, <3>2 DEF Monitor
  <2> QED
    BY <1>5, <2>1 DEF Resume, TypeOK, webVars
<1> QED
  BY <1>1, <1>2, <1>3, <1>4, <1>5 DEF MonitorLoop

LEMMA StartTypes == TypeOK /\ (Boot \/ Subscribe \/ Crash) => TypeOK'
<1> SUFFICES ASSUME TypeOK, Boot \/ Subscribe \/ Crash PROVE TypeOK'
  OBVIOUS
<1>1. CASE BootReads
  <2>1. monitor' \in Monitor
    BY <1>1 DEF BootReads, TypeOK, Monitor
  <2> QED
    BY <1>1, <2>1 DEF BootReads, TypeOK, webVars
<1>2. CASE BootApplies
  <2>1. sessions' \in SUBSET Users
    BY <1>2, RefreshedIsRows DEF BootApplies, TypeOK, Monitor
  <2>2. monitor' \in Monitor
    BY <1>2 DEF BootApplies, MonitorAt, TypeOK, Monitor
  <2> QED
    BY <1>2, <2>1, <2>2 DEF BootApplies, TypeOK, webVars
<1>3. CASE BootFails
  <2>1. monitor' \in Monitor
    BY <1>3 DEF BootFails, MonitorAt, TypeOK, Monitor
  <2> QED
    BY <1>3, <2>1 DEF BootFails, TypeOK, webVars
<1>4. CASE Subscribe
  BY <1>4 DEF Subscribe, TypeOK, webVars
<1>5. CASE Crash
  <2>1. monitor' \in Monitor
    BY <1>5, LifecycleAssumption DEF Crash, Booting, Monitor
  <2>2. channel' \in Seq(Message)
    BY <1>5 DEF Crash
  <2> QED
    BY <1>5, <2>1, <2>2 DEF Crash, TypeOK, webVars
<1> QED
  BY <1>1, <1>2, <1>3, <1>4, <1>5 DEF Boot

(* Every reachable state has the types of TypeOK; in particular the        *)
(* counter of passes stays below RefreshEvery.                             *)
THEOREM TypeCorrect == Spec => []TypeOK
<1>1. TypeOK /\ [Next]_vars => TypeOK'
  <2> SUFFICES ASSUME TypeOK, [Next]_vars PROVE TypeOK'
    OBVIOUS
  <2>1. CASE UNCHANGED vars
    BY <2>1 DEF vars, TypeOK
  <2> QED
    BY <2>1, WebTypes, ControlTypes, MonitorTypes, StartTypes DEF Next
<1> QED
  BY <1>1, InitTypes, PTL DEF Spec

------------------------------------------------------------------------------
(* Who wanted a bot.  A start on its way, in a coroutine, in the channel,  *)
(* or in the rows of a refresh, was wanted when it set out.                *)

StartsWereWanted(w) ==
  \A i \in 1 .. Len(channel) : channel[i].start => channel[i].user \in w

RequestsWereWanted(w) ==
  \A r \in Requests :
    (\/ request[r].seen
     \/ request[r].kind = "start" /\ request[r].at = "committed")
      => request[r].user \in w

WantedInv ==
  /\ active \subseteq wanted
  /\ sessions \subseteq wanted
  /\ monitor.rows \subseteq wanted
  /\ StartsWereWanted(wanted)
  /\ RequestsWereWanted(wanted)

LEMMA InitWanted == Init => WantedInv
<1> SUFFICES ASSUME Init PROVE WantedInv
  OBVIOUS
<1>1. StartsWereWanted(wanted)
  BY DEF Init, StartsWereWanted
<1>2. RequestsWereWanted(wanted)
  BY DEF Init, RequestsWereWanted
<1> QED
  BY <1>1, <1>2 DEF Init, WantedInv, Booting

LEMMA LoadWanted ==
  ASSUME TypeOK, WantedInv, NEW r \in Requests, Load(r)
  PROVE  WantedInv'
<1>1. RequestsWereWanted(wanted)'
  BY DEF Load, RequestsWereWanted, WantedInv, TypeOK, Request
<1>2. StartsWereWanted(wanted)'
  BY DEF Load, StartsWereWanted, WantedInv
<1> QED
  BY <1>1, <1>2 DEF Load, WantedInv, traderVars

(* Either the commit writes the user's TRUE, or it was there when the row  *)
(* was loaded.                                                             *)
LEMMA CommitWanted ==
  ASSUME TypeOK, WantedInv, NEW r \in Requests, Commit(r)
  PROVE  WantedInv'
<1>1. wanted \subseteq wanted' /\ active' \subseteq wanted'
  BY DEF Commit
<1>2. request[r].kind = "start" => request[r].user \in wanted'
  <2> SUFFICES ASSUME request[r].kind = "start" PROVE request[r].user \in wanted'
    OBVIOUS
  <2>1. CASE request[r].seen
    BY <2>1, <1>1 DEF WantedInv, RequestsWereWanted
  <2>2. CASE ~request[r].seen
    BY <2>2, <1>1 DEF Commit, Written, Wants, TypeOK, Request
  <2> QED
    BY <2>1, <2>2
<1>3. RequestsWereWanted(wanted)'
  BY <1>1, <1>2 DEF Commit, RequestsWereWanted, WantedInv, TypeOK, Request
<1>4. StartsWereWanted(wanted)'
  BY <1>1 DEF Commit, StartsWereWanted, WantedInv
<1> QED
  BY <1>1, <1>3, <1>4 DEF Commit, WantedInv, traderVars

LEMMA TellWanted ==
  ASSUME TypeOK, WantedInv, NEW r \in Requests, Tell(r)
  PROVE  WantedInv'
<1>1. request[r].kind = "start" => request[r].user \in wanted
  BY DEF Tell, MayTell, WantedInv, RequestsWereWanted
<1>2. RequestsWereWanted(wanted)'
  BY DEF Tell, AfterTelling, RequestsWereWanted, WantedInv, TypeOK, Request
<1>3. StartsWereWanted(wanted)'
  <2>1. CASE UNCHANGED channel
    BY <2>1 DEF Tell, StartsWereWanted, WantedInv
  <2>2. CASE channel' = Append(channel, [user  |-> request[r].user,
                                         start |-> request[r].kind = "start"])
    <3> DEFINE m == [user |-> request[r].user, start |-> request[r].kind = "start"]
    <3>1. m.start => m.user \in wanted
      BY <1>1
    <3>2. m \in Message
      <4>1. (request[r].kind = "start") \in BOOLEAN
        OBVIOUS
      <4> QED
        BY <4>1 DEF TypeOK, Request, Message
    <3>3. channel \in Seq(Message) /\ channel' = Append(channel, m)
      BY <2>2 DEF TypeOK
    <3> HIDE DEF m
    <3>4. /\ Len(channel') = Len(channel) + 1 /\ Len(channel) \in Nat
          /\ channel'[Len(channel) + 1] = m
          /\ \A i \in 1 .. Len(channel) : channel'[i] = channel[i]
      BY <3>2, <3>3, AppendProperties
    <3>5. wanted' = wanted
      BY DEF Tell
    <3> QED
      BY <3>1, <3>4, <3>5 DEF StartsWereWanted, WantedInv
  <2> QED
    BY <2>1, <2>2 DEF Tell
<1> QED
  BY <1>2, <1>3 DEF Tell, WantedInv, traderVars

LEMMA WebWanted == TypeOK /\ WantedInv /\ Web => WantedInv'
BY LoadWanted, CommitWanted, TellWanted DEF Web

(* What is left of the channel was in it.                                  *)
LEMMA TailWanted ==
  ASSUME TypeOK, WantedInv, channel # <<>>, channel' = Tail(channel),
         wanted' = wanted
  PROVE  StartsWereWanted(wanted)'
<1>1. channel \in Seq(Message)
  BY DEF TypeOK
<1>2. /\ Len(channel') = Len(channel) - 1
      /\ \A i \in 1 .. Len(channel') : channel'[i] = channel[i + 1]
  BY <1>1, HeadTailProperties
<1>3. Len(channel) \in Nat
  BY <1>1
<1> QED
  BY <1>2, <1>3 DEF StartsWereWanted, WantedInv

LEMMA SameRequests ==
  ASSUME WantedInv, UNCHANGED webVars
  PROVE  /\ RequestsWereWanted(wanted)'
         /\ active' \subseteq wanted'
BY DEF WantedInv, RequestsWereWanted, webVars

LEMMA SameChannel ==
  ASSUME WantedInv, UNCHANGED <<channel, wanted>>
  PROVE  StartsWereWanted(wanted)'
BY DEF WantedInv, StartsWereWanted

LEMMA ControlWanted == TypeOK /\ WantedInv /\ Control => WantedInv'
<1> SUFFICES ASSUME TypeOK, WantedInv, Control PROVE WantedInv'
  OBVIOUS
<1>1. UNCHANGED webVars
  BY DEF Control, HandleControl, ControlFails, ListenerDies
<1>2. RequestsWereWanted(wanted)' /\ active' \subseteq wanted' /\ wanted' = wanted
  BY <1>1, SameRequests DEF webVars
<1>3. CASE HandleControl
  <2>1. StartsWereWanted(wanted)'
    BY <1>3, <1>2, TailWanted DEF HandleControl
  <2>2. Head(channel).start => Head(channel).user \in wanted
    <3>1. channel \in Seq(Message) /\ channel # <<>>
      BY <1>3 DEF HandleControl, TypeOK
    <3>2. 1 \in 1 .. Len(channel) /\ Head(channel) = channel[1]
      BY <3>1
    <3> QED
      BY <3>2 DEF WantedInv, StartsWereWanted
  <2>3. sessions' \subseteq wanted
    BY <1>3, <2>2 DEF HandleControl, SetSessions, WantedInv
  <2>4. monitor'.rows = monitor.rows
    BY <1>3 DEF HandleControl, SetSessions, TypeOK, Monitor
  <2> QED
    BY <1>2, <2>1, <2>3, <2>4 DEF WantedInv
<1>4. CASE ControlFails
  <2>1. StartsWereWanted(wanted)'
    BY <1>4, <1>2, TailWanted DEF ControlFails
  <2> QED
    BY <1>4, <1>2, <2>1 DEF ControlFails, WantedInv
<1>5. CASE ListenerDies
  <2>1. StartsWereWanted(wanted)'
    BY <1>5 DEF ListenerDies, StartsWereWanted
  <2> QED
    BY <1>5, <1>2, <2>1 DEF ListenerDies, WantedInv
<1> QED
  BY <1>3, <1>4, <1>5 DEF Control

(* A pass of the monitor, or the boot, leaves the web handlers and the     *)
(* channel alone and takes over rows that were active.                     *)
LEMMA MonitorWanted == TypeOK /\ WantedInv /\ (MonitorLoop \/ Boot) => WantedInv'
<1> SUFFICES ASSUME TypeOK, WantedInv, MonitorLoop \/ Boot PROVE WantedInv'
  OBVIOUS
<1> USE DEF MonitorLoop, Boot
<1>1. UNCHANGED webVars /\ UNCHANGED <<channel, wanted>>
  BY DEF webVars, Tick, RefreshReads, RefreshApplies, RefreshFails, Resume,
         BootReads, BootApplies, BootFails
<1>2. /\ RequestsWereWanted(wanted)' /\ StartsWereWanted(wanted)'
      /\ active' \subseteq wanted' /\ wanted' = wanted
  BY <1>1, SameRequests, SameChannel
<1>3. \A rows : Refreshed(rows) = rows
  BY RefreshedIsRows
<1>4. sessions' \subseteq wanted
  BY <1>3 DEF WantedInv, Tick, RefreshReads, RefreshApplies, RefreshFails, Resume,
              BootReads, BootApplies, BootFails
<1>5. monitor'.rows \subseteq wanted
  <2>1. CASE \E dict : Visit(dict)
    BY <2>1 DEF Visit, Booting
  <2>2. CASE RefreshReads \/ BootReads
    BY <2>2 DEF RefreshReads, BootReads, WantedInv, TypeOK, Monitor
  <2>3. CASE Resume \/ BootFails \/ BootApplies
    BY <2>3 DEF Resume, BootFails, BootApplies, MonitorAt, WantedInv, TypeOK, Monitor
  <2> QED
    BY <2>1, <2>2, <2>3 DEF Tick, RefreshApplies, RefreshFails
<1> QED
  BY <1>2, <1>4, <1>5 DEF WantedInv

LEMMA StartWanted == TypeOK /\ WantedInv /\ (Subscribe \/ Crash) => WantedInv'
<1> SUFFICES ASSUME TypeOK, WantedInv, Subscribe \/ Crash PROVE WantedInv'
  OBVIOUS
<1>1. UNCHANGED webVars
  BY DEF Subscribe, Crash
<1>2. /\ RequestsWereWanted(wanted)' /\ active' \subseteq wanted'
      /\ wanted' = wanted
  BY <1>1, SameRequests DEF webVars
<1>3. CASE Subscribe
  BY <1>2, <1>3, SameChannel DEF Subscribe, WantedInv
<1>4. CASE Crash
  <2>1. StartsWereWanted(wanted)'
    BY <1>4 DEF Crash, StartsWereWanted
  <2> QED
    BY <1>2, <1>4, <2>1 DEF Crash, Booting, WantedInv
<1> QED
  BY <1>3, <1>4

(* A bot never runs for a user for whom bot_active was never committed as  *)
(* TRUE, whatever is late, lost or repeated between the web handlers and   *)
(* the trader.                                                             *)
THEOREM SessionsAreWanted == Spec => []SessionsWereWanted
<1>1. TypeOK /\ WantedInv /\ [Next]_vars => WantedInv'
  <2> SUFFICES ASSUME TypeOK, WantedInv, [Next]_vars PROVE WantedInv'
    OBVIOUS
  <2>1. CASE UNCHANGED vars
    BY <2>1 DEF vars, WantedInv, StartsWereWanted, RequestsWereWanted
  <2> QED
    BY <2>1, WebWanted, ControlWanted, MonitorWanted, StartWanted DEF Next
<1>2. WantedInv => SessionsWereWanted
  BY DEF WantedInv, SessionsWereWanted
<1> QED
  BY <1>1, <1>2, InitWanted, TypeCorrect, PTL DEF Spec
==============================================================================
