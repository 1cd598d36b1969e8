--------------------------- MODULE SessionLifecycle ---------------------------
(***************************************************************************)
(* Which users' bots run.  The database says who wants one (bot_active).   *)
(* The web handlers write it and tell the trader in a message of the       *)
(* channel bot:control, which may be lost and overtaken; every fourth pass *)
(* of its monitor the trader reads the column and repairs what it missed.  *)
(* The monitor iterates over the dict of sessions and suspends inside,     *)
(* while the control handler adds to the dict and removes from it.         *)
(***************************************************************************)
EXTENDS Naturals, Sequences, FiniteSets

CONSTANTS
  Users,
  Requests,      (* bound of the model: the requests that are ever made      *)
  RefreshEvery,  (* a pass of the monitor out of so many refreshes: 4        *)
  MaxFaults,     (* bound of the model: failed queries and lost connections  *)
  MaxCrashes     (* bound of the model: restarts of the trader               *)

ASSUME LifecycleAssumption ==
  /\ IsFiniteSet(Users)
  /\ RefreshEvery \in Nat \ {0}
  /\ MaxFaults \in Nat
  /\ MaxCrashes \in Nat

VARIABLES
  active,     (* users whose bot_active is committed as TRUE                 *)
  request,    (* the web handlers' coroutines                                *)
  channel,    (* messages of bot:control on their way to the trader          *)
  listener,   (* the trader's subscription to bot:control                    *)
  sessions,   (* users in TraderBot.sessions                                 *)
  monitor,    (* where the monitor loop stands                               *)
  faults,     (* counters of the bounds                                      *)
  crashes,
  wanted      (* history: users whose bot_active was TRUE at some time       *)

vars == <<active, request, channel, listener, sessions, monitor, faults,
          crashes, wanted>>

------------------------------------------------------------------------------
(* A request for a user: start and stop of control_bot, erasure of the     *)
(* user's data, and the handlers that only write the column.               *)

Kinds == {"start", "stop", "erase", "grant"}
Wants(kind) == kind \in {"start", "grant"}
Tells(kind) == kind # "grant"

Message == [user : Users, start : BOOLEAN]

Request ==
  [at : {"new", "loaded", "committed", "told", "done"}, kind : Kinds,
   user : Users, seen : BOOLEAN]

(* The monitor: the boot's refresh is under way, at rest, a refresh's      *)
(* answer is waiting, iterating over the sessions, or ended by an error.   *)
Monitor ==
  [at : {"boot", "booting", "rest", "refreshing", "visiting", "dead"},
   pass : 0 .. RefreshEvery - 1, rows : SUBSET Users, size : Nat,
   changed : BOOLEAN]

Booting == [at |-> "boot", pass |-> 0, rows |-> {}, size |-> 0, changed |-> FALSE]

Init ==
  /\ active \in SUBSET Users
  /\ request \in [Requests -> [at : {"new"}, kind : Kinds, user : Users,
                               seen : {FALSE}]]
  /\ channel = <<>>
  /\ listener = "starting"
  /\ sessions = {}
  /\ monitor = Booting
  /\ faults = 0
  /\ crashes = 0
  /\ wanted = active

traderVars == <<listener, sessions, monitor, faults, crashes>>

------------------------------------------------------------------------------
(* The web handlers.  Each loads the user's row, commits what it changed   *)
(* in it, and publishes.  The commit writes the column only if the value   *)
(* differs from the one loaded.  An erasure publishes before it commits.   *)

Load(r) ==
  /\ request[r].at = "new"
  /\ request' = [request EXCEPT ![r].at = "loaded",
                                ![r].seen = request[r].user \in active]
  /\ UNCHANGED <<active, channel, wanted, traderVars>>

Written(r) ==
  LET q == request[r]
  IN IF q.seen = Wants(q.kind) THEN active
     ELSE IF Wants(q.kind) THEN active \cup {q.user} ELSE active \ {q.user}

MayCommit(r) ==
  IF request[r].kind = "erase" THEN request[r].at = "told"
                               ELSE request[r].at = "loaded"

Commit(r) ==
  /\ MayCommit(r)
  /\ active' = Written(r)
  /\ wanted' = wanted \cup active'
  /\ request' = [request EXCEPT ![r].at =
                   IF @ = "loaded" /\ Tells(request[r].kind) THEN "committed"
                                                             ELSE "done"]
  /\ UNCHANGED <<channel, traderVars>>

(* Slip: the message leaves before the commit.                             *)
MayTellEarly(r) == request[r].at = "loaded"

MayTell(r) ==
  IF request[r].kind = "erase" THEN request[r].at = "loaded"
                               ELSE request[r].at = "committed"

AfterTelling(r) == IF request[r].kind = "erase" THEN "told" ELSE "done"

(* A message reaches those who listen when it is published; an error of    *)
(* redis is swallowed.                                                     *)
Tell(r) ==
  /\ MayTell(r)
  /\ request' = [request EXCEPT ![r].at = AfterTelling(r)]
  /\ \/ UNCHANGED channel
     \/ /\ listener = "up"
        /\ channel' = Append(channel, [user  |-> request[r].user,
                                       start |-> request[r].kind = "start"])
  /\ UNCHANGED <<active, wanted, traderVars>>

------------------------------------------------------------------------------
(* The control handler.  It looks the user up, which suspends but decides  *)
(* nothing here, and then creates or removes the session at once.  When    *)
(* the look-up fails the message is dropped.  A change of the dict under   *)
(* the monitor's iteration is noted where the iteration will notice it.    *)

webVars == <<active, request, wanted>>

SetSessions(new) ==
  /\ sessions' = new
  /\ monitor' = [monitor EXCEPT !.changed =
                   @ \/ (monitor.at = "visiting" /\ new # sessions)]

HandleControl ==
  /\ channel # <<>>
  /\ channel' = Tail(channel)
  /\ LET m == Head(channel)
     IN SetSessions(IF m.start THEN sessions \cup {m.user}
                               ELSE sessions \ {m.user})
  /\ UNCHANGED <<webVars, listener, faults, crashes>>

ControlFails ==
  /\ channel # <<>>
  /\ faults < MaxFaults
  /\ faults' = faults + 1
  /\ channel' = Tail(channel)
  /\ UNCHANGED <<webVars, listener, sessions, monitor, crashes>>

(* The subscription loses its connection: its task ends unnoticed.         *)
ListenerDies ==
  /\ listener = "up"
  /\ faults < MaxFaults
  /\ faults' = faults + 1
  /\ listener' = "down"
  /\ channel' = <<>>
  /\ UNCHANGED <<webVars, sessions, monitor, crashes>>

------------------------------------------------------------------------------
(* _refresh_users: the rows read before the suspension are applied after   *)
(* it, to the dict as it is by then.                                       *)

(* Slip: sessions of users who are no longer active are kept.              *)
NoneStale(rows) == {}

Stale(rows) == sessions \ rows

Refreshed(rows) == (sessions \cup rows) \ Stale(rows)

MonitorAt(place) == [monitor EXCEPT !.at = place]

RefreshDue == monitor.pass + 1 >= RefreshEvery

(* Slip: the counter of passes is not reset after a refresh.               *)
PassAfter == monitor.pass + 1

NextPass == IF RefreshDue THEN 0 ELSE monitor.pass + 1

(* The iteration over a dict: with calls or closes to await it suspends,   *)
(* else it is over at once.                                                *)
Visit(dict) ==
  \/ monitor' = [Booting EXCEPT !.at = "rest", !.pass = NextPass]
  \/ /\ dict # {}
     /\ monitor' = [Booting EXCEPT !.at = "visiting", !.pass = NextPass,
                                   !.size = Cardinality(dict)]

Tick ==
  /\ monitor.at = "rest"
  /\ ~RefreshDue
  /\ Visit(sessions)
  /\ UNCHANGED <<webVars, channel, listener, sessions, faults, crashes>>

RefreshReads ==
  /\ monitor.at = "rest"
  /\ RefreshDue
  /\ monitor' = [monitor EXCEPT !.at = "refreshing", !.rows = active]
  /\ UNCHANGED <<webVars, channel, listener, sessions, faults, crashes>>

RefreshApplies ==
  /\ monitor.at = "refreshing"
  /\ sessions' = Refreshed(monitor.rows)
  /\ Visit(sessions')
  /\ UNCHANGED <<webVars, channel, listener, faults, crashes>>

RefreshFails ==
  /\ monitor.at = "rest"
  /\ RefreshDue
  /\ faults < MaxFaults
  /\ faults' = faults + 1
  /\ Visit(sessions)
  /\ UNCHANGED <<webVars, channel, listener, sessions, crashes>>

(* The iteration goes on after a suspension.  When the dict has changed    *)
(* its size it raises; when it has changed and has the same size again it  *)
(* may raise or end.  Nothing catches that in the monitor loop.            *)
Resume ==
  /\ monitor.at = "visiting"
  /\ \/ /\ Cardinality(sessions) = monitor.size
        /\ monitor' = [MonitorAt("rest") EXCEPT !.size = 0, !.changed = FALSE]
     \/ /\ monitor.changed
        /\ monitor' = [MonitorAt("dead") EXCEPT !.size = 0, !.changed = FALSE]
  /\ UNCHANGED <<webVars, channel, listener, sessions, faults, crashes>>

------------------------------------------------------------------------------
(* The trader's start: a refresh, then the tasks and the subscriptions.    *)

BootReads ==
  /\ monitor.at = "boot"
  /\ monitor' = [monitor EXCEPT !.at = "booting", !.rows = active]
  /\ UNCHANGED <<webVars, channel, listener, sessions, faults, crashes>>

BootApplies ==
  /\ monitor.at = "booting"
  /\ sessions' = Refreshed(monitor.rows)
  /\ monitor' = [MonitorAt("rest") EXCEPT !.rows = {}]
  /\ UNCHANGED <<webVars, channel, listener, faults, crashes>>

BootFails ==
  /\ monitor.at = "boot"
  /\ faults < MaxFaults
  /\ faults' = faults + 1
  /\ monitor' = MonitorAt("rest")
  /\ UNCHANGED <<webVars, channel, listener, sessions, crashes>>

Subscribe ==
  /\ monitor.at \notin {"boot", "booting"}
  /\ listener = "starting"
  /\ listener' = "up"
  /\ UNCHANGED <<webVars, channel, sessions, monitor, faults, crashes>>

(* The process dies and is started again.                                  *)
Crash ==
  /\ crashes < MaxCrashes
  /\ crashes' = crashes + 1
  /\ channel' = <<>>
  /\ listener' = "starting"
  /\ sessions' = {}
  /\ monitor' = Booting
  /\ UNCHANGED <<webVars, faults>>

------------------------------------------------------------------------------
Web == \E r \in Requests : Load(r) \/ Commit(r) \/ Tell(r)

Control == HandleControl \/ ControlFails \/ ListenerDies

MonitorLoop == Tick \/ RefreshReads \/ RefreshApplies \/ RefreshFails \/ Resume

Boot == BootReads \/ BootApplies \/ BootFails

Next == Web \/ Control \/ MonitorLoop \/ Boot \/ Subscribe \/ Crash

Spec == Init /\ [][Next]_vars

(* A request that was begun is carried through, and the loop resumes each  *)
(* task whose await returned; nobody has to make a request.                *)
FairSpec ==
  /\ Spec
  /\ \A r \in Requests : WF_vars(Commit(r)) /\ WF_vars(Tell(r))
  /\ WF_vars(HandleControl) /\ WF_vars(MonitorLoop)
  /\ WF_vars(Boot) /\ WF_vars(Subscribe)

------------------------------------------------------------------------------
TypeOK ==
  /\ active \in SUBSET Users
  /\ request \in [Requests -> Request]
  /\ channel \in Seq(Message)
  /\ listener \in {"starting", "up", "down"}
  /\ sessions \in SUBSET Users
  /\ monitor \in Monitor
  /\ faults \in Nat
  /\ crashes \in Nat
  /\ wanted \in SUBSET Users

(* A bot runs only for a user for whom bot_active was committed as TRUE at *)
(* some time, however late a message or a refresh is applied.              *)
SessionsWereWanted == sessions \subseteq wanted

(* Unless the monitor has ended, the sessions become those of the users    *)
(* the database says are active, whatever messages were lost, overtaken or *)
(* undone by an old refresh, queries failed, or restarts happened.         *)
SessionsFollowTheDatabase ==
  []<>(monitor.at # "dead") => <>[](sessions = active)

(* One user's start or stop does not end the monitor of all.               *)
MonitorSurvives == monitor.at # "dead"

==============================================================================
