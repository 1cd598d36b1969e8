-------------------------- MODULE SubscriptionProofs --------------------------
(***************************************************************************)
(* Theorem about the webhooks of Stripe, for any number of users,          *)
(* subscriptions and requests at a time: when they arrive one after the    *)
(* other and in order, a user whose subscriptions have all ended is on the *)
(* basic plan.                                                             *)
(*                                                                         *)
(* The invariant has three parts: what the events emitted say of the       *)
(* subscriptions, what the requests under way that are no webhooks leave   *)
(* alone, and, while all webhooks were in order, what the row of a user has*)
(* of the events handled.                                                  *)
(***************************************************************************)
EXTENDS AccountsProofs

------------------------------------------------------------------------------
(* The invariant.                                                          *)

(* The events of a subscription: its checkout is the first, its end the    *)
(* last.                                                                   *)
EventOrder(n) ==
  LET e == events[n]
  IN /\ Exists(e.user) /\ e.user = subs[e.sub].user
     /\ subs[e.sub].status \in {"active", "past_due", "canceled"}
     /\ e.kind = "deleted" =>
          /\ subs[e.sub].status = "canceled"
          /\ \A m \in DOMAIN events : events[m].sub = e.sub => m <= n
     /\ e.kind = "completed" => \A m \in DOMAIN events : events[m].sub = e.sub => n <= m

Emitted(s, kind) == \E n \in DOMAIN events : events[n].sub = s /\ events[n].kind = kind

(* Both are there if what Stripe knows of the subscription says so.        *)
SubLog(s) ==
  /\ subs[s].status # "none" => Exists(subs[s].user)
  /\ subs[s].status \in {"active", "past_due", "canceled"} => Emitted(s, "completed")
  /\ subs[s].status = "canceled" => Emitted(s, "deleted")

EventLog == /\ \A n \in DOMAIN events : EventOrder(n)
            /\ \A s \in Subs : SubLog(s)

(* A request under way that is no webhook wants plan and customer as they  *)
(* are.                                                                    *)
Plain(q) ==
  /\ ~Busy(q) => slots[q].event = 0
  /\ Busy(q) /\ slots[q].event = 0
       => /\ slots[q].wanted.plan = slots[q].loaded.plan
          /\ slots[q].wanted.customer = slots[q].loaded.customer

(* A webhook under way is about the event delivered last, and its user has *)
(* the plan and the customer it has loaded.                                *)
InFlight(q) ==
  LET n == slots[q].event
      u == slots[q].user
      l == slots[q].loaded
  IN /\ n = past.latest /\ Busy(q)
     /\ u \in Concerned(events[n])
     /\ l.plan = rows[u].plan /\ l.customer = rows[u].customer
     /\ slots[q].wanted = Updated(events[n], l)

(* A user follows the events handled: the customer is a subscription whose *)
(* checkout was handled, if one was, and once its end is, the plan is the  *)
(* basic one.                                                              *)
Follows(u) ==
  /\ \A n \in handled :
       events[n].kind = "completed" /\ events[n].user = u => rows[u].customer # NoSub
  /\ rows[u].customer # NoSub =>
       \E n \in handled : /\ events[n].kind = "completed" /\ events[n].user = u
                          /\ events[n].sub = rows[u].customer
  /\ \A n \in handled :
       events[n].kind = "deleted" /\ events[n].sub = rows[u].customer
         => rows[u].plan = "basic"

Alone == /\ \A q, r \in Webhooks : q = r
         /\ \A q \in Webhooks : InFlight(q)

InOrder ==
  /\ \A n \in handled : n <= past.latest
  /\ Alone
  /\ \A u \in Users : Exists(u) => Follows(u)

EndInv == /\ EventLog
          /\ \A q \in Slots : Plain(q)
          /\ past.ordered => InOrder

(* When all the subscriptions of a user have ended and everything is       *)
(* handled, the customer is one of them, and its end was handled.          *)
LEMMA EndedPlan == WebInv /\ EndInv => EndedIsBasic
<1> SUFFICES ASSUME WebInv, EndInv, NEW u \in Users, past.ordered,
                    handled = DOMAIN events,
                    NEW s \in Subs, subs[s].user = u, subs[s].status = "canceled",
                    \A t \in Subs : subs[t].user = u => subs[t].status \in {"open", "canceled"}
             PROVE  rows[u].plan = "basic"
  BY DEF EndedIsBasic
<1>0. \A n \in DOMAIN events : events[n].sub \in Subs
  BY DEF WebInv, Base, Shape, EventSet
<1>1. Exists(u) /\ Emitted(s, "completed")
  BY DEF EndInv, EventLog, SubLog
<1>2. PICK n \in handled : events[n].sub = s /\ events[n].kind = "completed"
  BY <1>1 DEF Emitted
<1>3. events[n].user = u
  BY <1>2 DEF EndInv, EventLog, EventOrder
<1>4. Follows(u)
  BY <1>1 DEF EndInv, InOrder
<1>5. rows[u].customer # NoSub
  BY <1>2, <1>3, <1>4 DEF Follows
<1> DEFINE c == rows[u].customer
<1>6. PICK m \in handled : events[m].user = u /\ events[m].sub = c
  BY <1>4, <1>5 DEF Follows
<1>7. /\ c \in Subs /\ subs[c].user = u
      /\ subs[c].status \in {"active", "past_due", "canceled"}
  BY <1>0, <1>6 DEF EndInv, EventLog, EventOrder
<1>8. Emitted(c, "deleted")
  BY <1>7 DEF EndInv, EventLog, SubLog
<1>9. PICK k \in handled : events[k].sub = c /\ events[k].kind = "deleted"
  BY <1>8 DEF Emitted
<1> QED
  BY <1>4, <1>9 DEF Follows

LEMMA InitEnd == Init => EndInv
<1> SUFFICES ASSUME Init PROVE EndInv
  OBVIOUS
<1>1. DOMAIN events = {} /\ handled = {}
  BY DEF Init
<1>2. \A s \in Subs : SubLog(s)
  BY DEF Init, SubLog, Unsold
<1>3. \A q \in Slots : slots[q].event = 0 /\ ~Busy(q)
  BY DEF Init, Busy, Free
<1>4. Webhooks = {}
  BY <1>3 DEF Webhooks
<1>5. \A u \in Users : ~Exists(u)
  BY DEF Init, Exists
<1> QED
  BY <1>1, <1>2, <1>3, <1>4, <1>5 DEF EndInv, EventLog, Plain, InOrder, Alone

------------------------------------------------------------------------------
(* The log of events.                                                      *)

LEMMA RowsStay ==
  ASSUME Shape, [Next]_vars, NEW u \in Users, Exists(u)
  PROVE  Exists(u)'
<1>1. rows[u] \in Row /\ NoRow \notin Row
  BY ThereIs, NoRowAssumption
<1>2. CASE rows' = rows
  BY <1>2 DEF Exists
<1>3. ASSUME NEW r \in Slots, Commit(r) PROVE Exists(u)'
  <2>1. New(r) \in Row /\ rows' = [rows EXCEPT ![slots[r].user] = New(r)]
    BY <1>3, CommitKinds, NewRowOf DEF Busy, Writing
  <2>2. rows'[u] \in Row
    BY <1>1, <2>1 DEF Shape
  <2> QED
    BY <1>1, <2>2 DEF Exists
<1>4. ASSUME NEW v \in Users, NEW plan \in Plans, NEW position \in Nat,
             Registered(v, plan, position)
      PROVE  Exists(u)'
  <2>1. NewRow(plan, position) \in Row
    BY NewRowShape
  <2>2. rows'[u] \in Row
    BY <1>1, <1>4, <2>1 DEF Shape, Registered
  <2> QED
    BY <1>1, <2>2 DEF Exists
<1>5. ASSUME Reactivated(Admin) PROVE Exists(u)'
  BY <1>5, ReactivatedRows, AccountsAssumption
<1> QED
  BY <1>2, <1>3, <1>4, <1>5, NextKinds, CheckWalletKinds, DeliverKinds
     DEF Begun, Remembers, Lose, Moves, Opened, Still

(* Nothing happens at Stripe.                                              *)
LEMMA SameLog ==
  ASSUME Shape, [Next]_vars, EventLog, UNCHANGED <<subs, events>>
  PROVE  EventLog'
<1>0. \A n \in DOMAIN events : events[n].user \in Users
  BY DEF Shape, EventSet
<1>1. \A u \in Users : Exists(u) => Exists(u)'
  BY RowsStay
<1>2. ASSUME NEW n \in DOMAIN events' PROVE EventOrder(n)'
  <2>1. EventOrder(n)
    BY <1>2 DEF EventLog
  <2> QED
    BY <1>0, <1>1, <1>2, <2>1 DEF EventOrder
<1>3. ASSUME NEW s \in Subs PROVE SubLog(s)'
  <2>1. SubLog(s) /\ Sold(s)
    BY DEF EventLog, Shape
  <2> QED
    BY <1>1, <2>1 DEF SubLog, Emitted, Sold
<1> QED
  BY <1>2, <1>3 DEF EventLog

(* A subscription is sold.                                                 *)
LEMMA OpenedLog ==
  ASSUME Shape, EventLog, NEW u \in Users, NEW s \in Subs, NEW plan \in Plans,
         Opened(u, s, plan)
  PROVE  EventLog'
<1>0. \A n \in DOMAIN events : events[n].sub \in Subs
  BY DEF Shape, EventSet
<1>1. /\ UNCHANGED <<rows, events>> /\ Exists(u) /\ subs[s].status = "none"
      /\ subs'[s].user = u /\ subs'[s].status = "open"
      /\ \A t \in Subs : t # s => subs'[t] = subs[t]
  BY DEF Opened, Shape
<1>2. \A v : Exists(v)' <=> Exists(v)
  BY <1>1 DEF Exists
<1>3. ASSUME NEW n \in DOMAIN events' PROVE EventOrder(n)'
  <2>1. EventOrder(n) /\ n \in DOMAIN events
    BY <1>1, <1>3 DEF EventLog
  <2>2. events[n].sub # s
    BY <1>1, <2>1 DEF EventOrder
  <2>3. subs'[events[n].sub] = subs[events[n].sub]
    BY <1>0, <1>1, <2>1, <2>2
  <2> QED
    BY <1>1, <1>2, <2>1, <2>3 DEF EventOrder
<1>4. ASSUME NEW t \in Subs PROVE SubLog(t)'
  <2>1. CASE t = s
    BY <1>1, <1>2, <2>1 DEF SubLog
  <2>2. CASE t # s
    <3>1. SubLog(t) /\ subs'[t] = subs[t]
      BY <1>1, <2>2 DEF EventLog
    <3> QED
      BY <1>1, <1>2, <3>1 DEF SubLog, Emitted
  <2> QED
    BY <2>1, <2>2
<1> QED
  BY <1>3, <1>4 DEF EventLog

(* The event that a step of Stripe emits, and the others.                  *)
Latest(s, kind, c) ==
  /\ DOMAIN events' = DOMAIN events \cup {c}
  /\ \A n \in DOMAIN events : events'[n] = events[n] /\ n < c
  /\ events'[c].kind = kind /\ events'[c].sub = s /\ events'[c].user = subs[s].user
  /\ c \in Nat

LEMMA MovesLatest ==
  ASSUME Shape, Limits, NEW s \in Subs, NEW plan, NEW status, Moves(s, plan, status)
  PROVE  \E kind, c : Latest(s, kind, c) /\ Tells(s, kind, status)
<1>1. PICK kind : Emits(kind, s, plan, status) /\ Tells(s, kind, status)
  BY DEF Moves
<1> DEFINE c == Count + 1
           e == [kind |-> kind, sub |-> s, user |-> subs[s].user, plan |-> plan,
                 status |-> status]
<1>2. DOMAIN events' = DOMAIN events \cup {c} /\ Count \in Nat
  BY NextNumber
<1>3. DOMAIN events = 1..Count
  BY DEF Limits
<1>4. c \in Nat /\ \A n \in DOMAIN events : n < c
  <2> DEFINE m == Count
  <2>1. m \in Nat /\ DOMAIN events = 1..m
    BY <1>2, <1>3
  <2> HIDE DEF m
  <2>2. \A n \in 1..m : n < m + 1
    BY <2>1
  <2> QED
    BY <2>1, <2>2 DEF m
<1>5. events' = [n \in DOMAIN events \cup {c} |-> IF n \in DOMAIN events THEN events[n] ELSE e]
  BY <1>1 DEF Emits, Count
<1> HIDE DEF c
<1>6. c \notin DOMAIN events
  BY <1>4
<1>7. events'[c] = e /\ \A n \in DOMAIN events : events'[n] = events[n]
  BY <1>5, <1>6
<1>8. e.kind = kind /\ e.sub = s /\ e.user = subs[s].user
  OBVIOUS
<1> HIDE DEF e
<1>9. Latest(s, kind, c)
  BY <1>2, <1>4, <1>7, <1>8 DEF Latest, c
<1> QED
  BY <1>1, <1>9

LEMMA MovesLog ==
  ASSUME Shape, Limits, EventLog, NEW s \in Subs, NEW plan, NEW status,
         Moves(s, plan, status)
  PROVE  EventLog'
<1>0. /\ DOMAIN events \subseteq Nat
      /\ \A n \in DOMAIN events : events[n].sub \in Subs
  BY DEF Shape, EventSet
<1>1. PICK kind, c : Latest(s, kind, c) /\ Tells(s, kind, status)
  BY MovesLatest
<1>2. /\ subs'[s].user = subs[s].user /\ subs'[s].status = status
      /\ status \in {"active", "past_due", "canceled"}
      /\ \A t \in Subs : t # s => subs'[t] = subs[t]
  <2>1. \A t \in Subs : subs'[t].user = subs[t].user
    BY MovesSubs
  <2>2. subs[s] \in SubSet /\ subs' = [subs EXCEPT ![s].plan = plan, ![s].status = status]
    BY DEF Shape, Moves
  <2> QED
    BY <2>1, <2>2 DEF Shape, SubSet, Moves
<1>3. \A v : Exists(v)' <=> Exists(v)
  BY DEF Moves, Exists
<1>4. /\ subs[s].status \in {"open", "active", "past_due"}
      /\ kind = "completed" <=> subs[s].status = "open"
      /\ kind = "deleted" <=> status = "canceled"
  BY <1>1 DEF Tells
<1>5. SubLog(s) /\ Exists(subs[s].user)
  BY <1>4 DEF EventLog, SubLog
<1>6. ASSUME NEW n \in DOMAIN events' PROVE EventOrder(n)'
  <2>1. CASE n = c
    <3>1. events'[n].kind = kind /\ events'[n].sub = s /\ events'[n].user = subs[s].user
      BY <1>1, <2>1 DEF Latest
    <3>2. \A m \in DOMAIN events' : m <= n
      BY <1>0, <1>1, <2>1 DEF Latest
    <3>3. ASSUME kind = "completed", NEW m \in DOMAIN events', events'[m].sub = s
          PROVE  n <= m
      <4>1. CASE m \in DOMAIN events
        <5>1. events[m].sub = s /\ EventOrder(m)
          BY <1>1, <3>3, <4>1 DEF Latest, EventLog
        <5> QED
          BY <1>4, <3>3, <5>1 DEF EventOrder
      <4>2. CASE m = c
        BY <1>1, <2>1, <4>2 DEF Latest
      <4> QED
        BY <1>1, <4>1, <4>2 DEF Latest
    <3> QED
      BY <1>2, <1>3, <1>4, <1>5, <3>1, <3>2, <3>3 DEF EventOrder
  <2>2. CASE n \in DOMAIN events
    <3>1. EventOrder(n) /\ events'[n] = events[n] /\ events[n].sub \in Subs
      BY <1>0, <1>1, <2>2 DEF EventLog, Latest
    <3>2. /\ subs'[events[n].sub].user = subs[events[n].sub].user
          /\ subs'[events[n].sub].status \in {"active", "past_due", "canceled"}
      BY <1>2, <3>1 DEF EventOrder
    <3>3. events[n].kind = "deleted" => events[n].sub # s
      BY <1>4, <3>1 DEF EventOrder
    <3>4. ASSUME events[n].kind = "deleted"
          PROVE  /\ subs'[events[n].sub].status = "canceled"
                 /\ \A m \in DOMAIN events' : events'[m].sub = events[n].sub => m <= n
      <4>1. subs'[events[n].sub].status = "canceled"
        BY <1>2, <3>1, <3>3, <3>4 DEF EventOrder
      <4>2. \A m \in DOMAIN events' : events'[m].sub = events[n].sub => m <= n
        BY <1>1, <3>1, <3>3, <3>4 DEF EventOrder, Latest
      <4> QED
        BY <4>1, <4>2
    <3>5. ASSUME events[n].kind = "completed"
          PROVE  \A m \in DOMAIN events' : events'[m].sub = events[n].sub => n <= m
      <4>1. \A m \in DOMAIN events : events[m].sub = events[n].sub => n <= m
        BY <3>1, <3>5 DEF EventOrder
      <4>2. n <= c
        BY <1>0, <1>1, <2>2 DEF Latest
      <4> QED
        BY <1>1, <4>1, <4>2 DEF Latest
    <3> QED
      BY <1>3, <3>1, <3>2, <3>4, <3>5 DEF EventOrder
  <2> QED
    BY <1>1, <2>1, <2>2 DEF Latest
<1>7. ASSUME NEW t \in Subs PROVE SubLog(t)'
  <2>0. SubLog(t)
    BY DEF EventLog
  <2>1. \A k : Emitted(t, k) => Emitted(t, k)'
    BY <1>1 DEF Emitted, Latest
  <2>2. CASE t # s
    BY <1>2, <1>3, <2>0, <2>1, <2>2 DEF SubLog
  <2>3. CASE t = s
    <3>1. Emitted(s, kind)'
      BY <1>1 DEF Emitted, Latest
    <3>2. Emitted(s, "completed")'
      BY <1>4, <1>5, <2>1, <2>3, <3>1 DEF SubLog
    <3> QED
      BY <1>2, <1>3, <1>4, <1>5, <2>3, <3>1, <3>2 DEF SubLog
  <2> QED
    BY <2>2, <2>3
<1> QED
  BY <1>6, <1>7 DEF EventLog

LEMMA NextLog ==
  ASSUME Shape, Limits, EventLog, [Next]_vars
  PROVE  EventLog'
<1>1. CASE UNCHANGED <<subs, events>>
  BY <1>1, SameLog
<1> QED
  BY <1>1, OpenedLog, MovesLog, NextKinds, CheckWalletKinds, CommitKinds, DeliverKinds
     DEF Begun, Remembers, Lose, stripe, Registered, Reactivated, Still

------------------------------------------------------------------------------
(* Requests that are no webhooks.                                          *)

(* The event of a slot that is taken, claimed or ended.                    *)
LEMMA SlotEvents ==
  ASSUME Shape, NEW r \in Slots
  PROVE  /\ \A u, place, wanted, n : Takes(r, place, u, wanted, n) => slots'[r].event = n
         /\ Claimed(r) => slots'[r].event = slots[r].event
         /\ Ends(r) => slots'[r].event = 0
<1>1. slots[r] \in SlotSet
  BY DEF Shape
<1>2. ASSUME NEW u, NEW place, NEW wanted, NEW n, Takes(r, place, u, wanted, n)
      PROVE  slots'[r].event = n
  BY <1>2 DEF Shape, Takes
<1>3. ASSUME Claimed(r) PROVE slots'[r].event = slots[r].event
  BY <1>1, <1>3 DEF Shape, SlotSet, Claimed
<1>4. ASSUME Ends(r) PROVE slots'[r].event = 0
  BY <1>4 DEF Shape, Ends, Free
<1> QED
  BY <1>2, <1>3, <1>4

LEMMA NextPlain ==
  ASSUME Shape, Limits, [Next]_vars, NEW q \in Slots, Plain(q)
  PROVE  Plain(q)'
<1>1. ASSUME slots'[q] = slots[q] PROVE Plain(q)'
  BY <1>1 DEF Plain, Busy
<1>2. ASSUME NEW r \in Slots, NEW u \in Users, NEW place, NEW wanted,
             Begun(r, u, place, wanted)
      PROVE  Plain(q)'
  <2>1. Takes(r, place, u, wanted, 0)
    BY <1>2 DEF Begun
  <2>2. CASE q = r
    <3>1. /\ slots'[q].event = 0
          /\ slots'[q].loaded = rows[u] /\ slots'[q].wanted = wanted
      BY <2>1, <2>2, SlotEvents, TakenSlots
    <3>2. wanted.plan = rows[u].plan /\ wanted.customer = rows[u].customer
      BY <1>2 DEF Begun, Keeps
    <3> QED
      BY <3>1, <3>2 DEF Plain
  <2>3. CASE q # r
    BY <1>1, <2>1, <2>3, TakenSlots
  <2> QED
    BY <2>2, <2>3
<1>3. ASSUME NEW r \in Slots, Claimed(r)
      PROVE  Plain(q)'
  <2>1. CASE q = r
    <3>1. /\ slots'[q].event = slots[q].event /\ Busy(q) /\ Busy(q)'
          /\ slots'[q].loaded = slots[q].loaded /\ slots'[q].wanted = slots[q].wanted
      BY <1>3, <2>1, SlotEvents, ClaimedSlots DEF Claimed, Busy
    <3> QED
      BY <3>1 DEF Plain
  <2>2. CASE q # r
    BY <1>1, <1>3, <2>2, ClaimedSlots
  <2> QED
    BY <2>1, <2>2
<1>4. ASSUME NEW r \in Slots, Ends(r)
      PROVE  Plain(q)'
  <2>1. CASE q = r
    BY <1>4, <2>1, SlotEvents, EndedSlots DEF Plain, Busy
  <2>2. CASE q # r
    BY <1>1, <1>4, <2>2, EndedSlots
  <2> QED
    BY <2>1, <2>2
<1>5. ASSUME NEW r \in Slots, NEW n \in DOMAIN events, Deliver(r, n)
      PROVE  Plain(q)'
  <2>1. ASSUME NEW u, Takes(r, "ready", u, Updated(events[n], rows[u]), n)
        PROVE  Plain(q)'
    <3>1. CASE q = r
      <4>1. slots'[q].event = n /\ slots'[q].at = "ready"
        BY <2>1, <3>1, SlotEvents, TakenSlots
      <4>2. n # 0
        <5>1. DOMAIN events = 1..Count
          BY DEF Limits
        <5> QED
          BY <5>1
      <4> QED
        BY <4>1, <4>2 DEF Plain, Busy
    <3>2. CASE q # r
      BY <1>1, <2>1, <3>2, TakenSlots
    <3> QED
      BY <3>1, <3>2
  <2> QED
    BY <1>1, <1>5, <2>1, DeliverKinds
<1>6. CASE slots' = slots
  BY <1>1, <1>6
<1> QED
  BY <1>2, <1>3, <1>4, <1>5, <1>6, NextKinds, CheckWalletKinds, CommitKinds
     DEF Lose, Registered, Reactivated, Moves, Opened, Still

------------------------------------------------------------------------------
(* Webhooks in order.                                                      *)

(* The users have the plan and the customer they had.                      *)
SameColumns ==
  \A u \in Users : Exists(u) => /\ Exists(u)'
                                /\ rows'[u].plan = rows[u].plan
                                /\ rows'[u].customer = rows[u].customer

SameEvents == \A n \in DOMAIN events : n \in DOMAIN events' /\ events'[n] = events[n]

SameRequest(q) ==
  /\ Busy(q)' /\ slots'[q].event = slots[q].event /\ slots'[q].user = slots[q].user
  /\ slots'[q].loaded = slots[q].loaded /\ slots'[q].wanted = slots[q].wanted

(* No webhook begins, and those under way go on or end.                    *)
FewerWebhooks == \A q \in Webhooks' : q \in Webhooks /\ (Busy(q) => SameRequest(q))

LEMMA StayAlone ==
  ASSUME Limits, Alone, SameColumns, SameEvents, FewerWebhooks,
         past'.latest = past.latest
  PROVE  Alone'
<1>1. \A q, r \in Webhooks' : q = r
  BY DEF Alone, FewerWebhooks
<1>2. ASSUME NEW q \in Webhooks' PROVE InFlight(q)'
  <2>1. q \in Webhooks /\ InFlight(q) /\ SameRequest(q)
    BY DEF Alone, FewerWebhooks, InFlight
  <2>0. PICK n, u, l : n = slots[q].event /\ u = slots[q].user /\ l = slots[q].loaded
    OBVIOUS
  <2>2. n \in DOMAIN events
    BY <2>0, <2>1 DEF Limits, Numbers, Webhooks
  <2>3. events'[n] = events[n]
    BY <2>2 DEF SameEvents
  <2>4. u \in Concerned(events[n]) /\ l.plan = rows[u].plan /\ l.customer = rows[u].customer
        /\ n = past.latest /\ slots[q].wanted = Updated(events[n], l)
    BY <2>0, <2>1 DEF InFlight
  <2>5. u \in Users /\ Exists(u)
    BY <2>4 DEF Concerned
  <2>6. Exists(u)' /\ rows'[u].plan = rows[u].plan /\ rows'[u].customer = rows[u].customer
    BY <2>5 DEF SameColumns
  <2>7. /\ Busy(q)' /\ slots'[q].event = n /\ slots'[q].user = u
        /\ slots'[q].loaded = l /\ slots'[q].wanted = slots[q].wanted
    BY <2>0, <2>1 DEF SameRequest
  <2>8. u \in {v \in Users : Exists(v)' /\ IF events'[n].kind = "completed"
                                          THEN v = events'[n].user
                                          ELSE rows'[v].customer = events'[n].sub}
    BY <2>3, <2>4, <2>5, <2>6 DEF Concerned
  <2>9. Updated(events'[n], l) = Updated(events[n], l)
    BY <2>3
  <2> QED
    BY <2>4, <2>6, <2>7, <2>8, <2>9 DEF InFlight, Concerned, Updated
<1> QED
  BY <1>1, <1>2 DEF Alone

LEMMA StayFollowing ==
  ASSUME Limits, SameColumns, SameEvents, handled' = handled,
         NEW u \in Users, Exists(u), Follows(u)
  PROVE  Follows(u)'
<1>1. \A n \in handled : events'[n] = events[n]
  BY DEF Limits, SameEvents
<1>2. rows'[u].plan = rows[u].plan /\ rows'[u].customer = rows[u].customer
  BY DEF SameColumns
<1> QED
  BY <1>1, <1>2 DEF Follows

(* A step that handles no event, of users that were there.                 *)
LEMMA QuietOrder ==
  ASSUME Limits, InOrder, SameColumns, SameEvents, FewerWebhooks,
         past'.latest = past.latest, handled' = handled,
         \A u \in Users : Exists(u)' => Exists(u)
  PROVE  InOrder'
BY StayAlone, StayFollowing DEF InOrder

LEMMA TakenQuiet ==
  ASSUME Shape, NEW r \in Slots, NEW u, NEW place, NEW wanted,
         Takes(r, place, u, wanted, 0)
  PROVE  FewerWebhooks
<1> SUFFICES ASSUME NEW q \in Webhooks'
             PROVE  q \in Webhooks /\ (Busy(q) => SameRequest(q))
  BY DEF FewerWebhooks
<1>1. q \in Slots /\ slots'[q].event # 0
  BY DEF Webhooks
<1>2. q # r
  BY <1>1, SlotEvents
<1>3. slots'[q] = slots[q]
  BY <1>1, <1>2, TakenSlots
<1> QED
  BY <1>1, <1>3 DEF Webhooks, SameRequest, Busy

LEMMA ClaimedQuiet ==
  ASSUME Shape, NEW r \in Slots, Claimed(r)
  PROVE  FewerWebhooks
<1> SUFFICES ASSUME NEW q \in Webhooks'
             PROVE  q \in Webhooks /\ (Busy(q) => SameRequest(q))
  BY DEF FewerWebhooks
<1>1. q \in Slots /\ slots'[q].event # 0
  BY DEF Webhooks
<1>2. CASE q = r
  BY <1>1, <1>2, SlotEvents, ClaimedSlots DEF Webhooks, SameRequest, Busy
<1>3. CASE q # r
  <2>1. slots'[q] = slots[q]
    BY <1>1, <1>3, ClaimedSlots
  <2> QED
    BY <1>1, <2>1 DEF Webhooks, SameRequest, Busy
<1> QED
  BY <1>2, <1>3

LEMMA EndedQuiet ==
  ASSUME Shape, NEW r \in Slots, Ends(r)
  PROVE  FewerWebhooks /\ r \notin Webhooks'
<1>1. r \notin Webhooks'
  BY SlotEvents DEF Webhooks
<1>2. ASSUME NEW q \in Webhooks'
      PROVE  q \in Webhooks /\ (Busy(q) => SameRequest(q))
  <2>1. q \in Slots /\ slots'[q].event # 0 /\ q # r
    BY <1>1 DEF Webhooks
  <2>2. slots'[q] = slots[q]
    BY <2>1, EndedSlots
  <2> QED
    BY <2>1, <2>2 DEF Webhooks, SameRequest, Busy
<1> QED
  BY <1>1, <1>2 DEF FewerWebhooks

LEMMA SlotsStayQuiet ==
  ASSUME slots' = slots
  PROVE  FewerWebhooks
BY DEF FewerWebhooks, Webhooks, SameRequest, Busy

LEMMA RowsStayQuiet ==
  ASSUME rows' = rows
  PROVE  SameColumns /\ \A u \in Users : Exists(u)' => Exists(u)
BY DEF SameColumns, Exists

(* What a commit writes in the two columns.                                *)
LEMMA WrittenColumns ==
  ASSUME NEW row \in Row, NEW l \in Row, NEW wanted \in Row
  PROVE  LET new == Written(row, l, wanted)
         IN /\ new.plan = IF wanted.plan # l.plan THEN wanted.plan ELSE row.plan
            /\ new.customer = IF wanted.customer # l.customer THEN wanted.customer
                                                               ELSE row.customer
BY DEF Written, Row

LEMMA CommitRows ==
  ASSUME Shape, NEW r \in Slots, Commit(r)
  PROVE  LET u == slots[r].user
             l == slots[r].loaded
             wanted == slots[r].wanted
         IN /\ u \in Users /\ Exists(u) /\ Busy(r)
            /\ \A v \in Users : Exists(v)' <=> Exists(v)
            /\ \A v \in Users : v # u => rows'[v] = rows[v]
            /\ rows'[u].plan = IF wanted.plan # l.plan THEN wanted.plan
                                                       ELSE rows[u].plan
            /\ rows'[u].customer = IF wanted.customer # l.customer
                                   THEN wanted.customer ELSE rows[u].customer
<1>0. PICK u : u = slots[r].user
  OBVIOUS
<1>1. Busy(r) /\ rows' = [rows EXCEPT ![u] = New(r)]
  BY <1>0, CommitKinds DEF Busy, Writing
<1>2. Placed(r)
  BY <1>1 DEF Shape
<1>3. New(r) \in Row
  BY <1>1, NewRowOf
<1>4. u \in Users /\ rows[u] \in Row /\ rows'[u] = New(r)
  BY <1>0, <1>1, <1>2 DEF Placed, Shape
<1>5. \A v \in Users : v # u => rows'[v] = rows[v]
  BY <1>1 DEF Shape
<1>6. Exists(u) /\ Exists(u)'
  BY <1>3, <1>4, NoRowAssumption DEF Exists
<1>7. \A v \in Users : Exists(v)' <=> Exists(v)
  BY <1>5, <1>6 DEF Exists
<1>8. /\ New(r).plan = IF slots[r].wanted.plan # slots[r].loaded.plan
                       THEN slots[r].wanted.plan ELSE rows[u].plan
      /\ New(r).customer = IF slots[r].wanted.customer # slots[r].loaded.customer
                           THEN slots[r].wanted.customer ELSE rows[u].customer
  BY <1>0, <1>2, WrittenColumns DEF Placed, New
<1> QED
  BY <1>0, <1>1, <1>4, <1>5, <1>6, <1>7, <1>8

(* The commit of a request that is no webhook.                             *)
LEMMA PlainCommit ==
  ASSUME Shape, Limits, InOrder, NEW r \in Slots, Plain(r), Commit(r),
         slots[r].event = 0
  PROVE  InOrder'
<1>1. PICK u : u = slots[r].user
  OBVIOUS
<1>2. /\ slots[r].wanted.plan = slots[r].loaded.plan
      /\ slots[r].wanted.customer = slots[r].loaded.customer
  BY CommitRows DEF Plain
<1>3. rows'[u].plan = rows[u].plan /\ rows'[u].customer = rows[u].customer
  BY <1>1, <1>2, CommitRows
<1>4. \A v \in Users : v # u => rows'[v] = rows[v]
  BY <1>1, CommitRows
<1>5. \A v \in Users : Exists(v)' <=> Exists(v)
  BY CommitRows
<1>6. SameColumns
  BY <1>3, <1>4, <1>5 DEF SameColumns
<1>7. handled' = handled
  BY DEF Commit
<1>8. Ends(r) /\ past'.latest = past.latest /\ events' = events
  BY CommitKinds, CommitPast
<1>9. FewerWebhooks /\ SameEvents
  BY <1>8, EndedQuiet DEF SameEvents
<1> QED
  BY <1>5, <1>6, <1>7, <1>8, <1>9, QuietOrder

(* A row is inserted: no event names the user, who has no customer.        *)
LEMMA RegisteredOrder ==
  ASSUME Shape, Limits, EventLog, InOrder, handled' = handled,
         NEW u \in Users, NEW plan \in Plans, NEW position \in Nat,
         Registered(u, plan, position)
  PROVE  InOrder'
<1>1. /\ rows[u] = NoRow /\ rows'[u] = NewRow(plan, position)
      /\ \A v \in Users : v # u => rows'[v] = rows[v]
      /\ slots' = slots /\ events' = events /\ past'.latest = past.latest
  BY DEF Registered, Shape, PastSet
<1>2. NewRow(plan, position) \in Row /\ NewRow(plan, position).customer = NoSub
  BY NewRowShape
<1>3. ~Exists(u) /\ \A v \in Users : v # u => (Exists(v)' <=> Exists(v))
  BY <1>1 DEF Exists
<1>4. SameColumns
  BY <1>1, <1>3 DEF SameColumns
<1>5. SameEvents /\ FewerWebhooks
  BY <1>1, SlotsStayQuiet DEF SameEvents
<1>6. Alone'
  BY <1>1, <1>4, <1>5, StayAlone DEF InOrder
<1>7. ASSUME NEW v \in Users, Exists(v)' PROVE Follows(v)'
  <2>1. CASE v # u
    BY <1>3, <1>4, <1>5, <1>7, <2>1, StayFollowing DEF InOrder
  <2>2. CASE v = u
    <3>1. \A n \in handled' : events'[n].user # u /\ events'[n].sub \in Subs
      BY <1>1, <1>3 DEF EventLog, EventOrder, Limits, Shape, EventSet
    <3>2. rows'[u].customer = NoSub /\ NoSub \notin Subs
      BY <1>1, <1>2, AccountsAssumption
    <3> QED
      BY <2>2, <3>1, <3>2 DEF Follows
  <2> QED
    BY <2>1, <2>2
<1>8. \A n \in handled' : n <= past'.latest
  BY <1>1 DEF InOrder
<1> QED
  BY <1>6, <1>7, <1>8 DEF InOrder

(* A delivery that stays in order comes when no webhook is under way, and  *)
(* repeats the event delivered last or goes on to the next.                *)
LEMMA DeliverPast ==
  ASSUME Shape, NEW r \in Slots, NEW n \in DOMAIN events, Deliver(r, n), past'.ordered
  PROVE  /\ past.ordered /\ Webhooks = {}
         /\ n \in {past.latest, past.latest + 1} /\ past'.latest = n
         /\ UNCHANGED <<rows, events>>
<1> DEFINE ordered == past.ordered /\ Webhooks = {}
                        /\ n \in {past.latest, past.latest + 1}
<1>1. past' = [past EXCEPT !.ordered = ordered, !.latest = n]
      /\ UNCHANGED <<rows, events>>
  BY DeliverKinds DEF Remembers
<1> HIDE DEF ordered
<1>2. ordered /\ past'.latest = n
  BY <1>1 DEF Shape, PastSet
<1> QED
  BY <1>1, <1>2 DEF ordered

(* What the events handled and the next one say of the users.              *)
LEMMA DeliverOrder ==
  ASSUME Shape, Limits, InOrder, NEW r \in Slots, NEW n \in DOMAIN events,
         Deliver(r, n), past'.ordered
  PROVE  InOrder'
<1>1. /\ Webhooks = {} /\ n \in {past.latest, past.latest + 1}
      /\ past'.latest = n /\ rows' = rows /\ events' = events
  BY DeliverPast
<1>2. \A v \in Users : Exists(v)' <=> Exists(v)
  BY <1>1 DEF Exists
<1>3. \A m \in handled \cup {n} : m <= n
  <2>1. n \in Nat /\ handled \subseteq Nat /\ past.latest \in Nat
    BY DEF Shape, PastSet, Limits
  <2>2. \A m \in handled : m <= past.latest
    BY DEF InOrder
  <2> QED
    BY <1>1, <2>1, <2>2
<1>4. \A q \in Slots : slots[q].event = 0
  BY <1>1 DEF Webhooks
<1>5. CASE /\ Concerned(events[n]) = {}
           /\ handled' = handled \cup {n}
           /\ UNCHANGED slots
  <2>1. Webhooks' = {}
    BY <1>4, <1>5 DEF Webhooks
  <2>2. ASSUME NEW u \in Users, Exists(u)' PROVE Follows(u)'
    <3>1. Exists(u) /\ Follows(u)
      BY <1>2, <2>2 DEF InOrder
    <3>2. IF events[n].kind = "completed" THEN u # events[n].user
          ELSE rows[u].customer # events[n].sub
      BY <1>5, <3>1 DEF Concerned
    <3>3. /\ \A m \in handled \cup {n} :
               events[m].kind = "completed" /\ events[m].user = u
                 => rows[u].customer # NoSub
          /\ \A m \in handled \cup {n} :
               events[m].kind = "deleted" /\ events[m].sub = rows[u].customer
                 => rows[u].plan = "basic"
      BY <3>1, <3>2 DEF Follows
    <3>4. rows[u].customer # NoSub =>
            \E m \in handled \cup {n} :
              /\ events[m].kind = "completed" /\ events[m].user = u
              /\ events[m].sub = rows[u].customer
      BY <3>1 DEF Follows
    <3> QED
      BY <1>1, <1>5, <3>3, <3>4 DEF Follows
  <2> QED
    BY <1>1, <1>3, <1>5, <2>1, <2>2 DEF InOrder, Alone
<1>6. ASSUME NEW u \in Concerned(events[n]), handled' = handled,
             Takes(r, "ready", u, Updated(events[n], rows[u]), n)
      PROVE  InOrder'
  <2>1. /\ slots'[r].event = n /\ slots'[r].at = "ready" /\ slots'[r].user = u
        /\ slots'[r].loaded = rows[u]
        /\ slots'[r].wanted = Updated(events[n], rows[u])
        /\ \A q \in Slots : q # r => slots'[q] = slots[q]
    BY <1>6, SlotEvents, TakenSlots
  <2>2. \A q \in Webhooks' : q = r
    BY <1>4, <2>1 DEF Webhooks
  <2>3. u \in Concerned(events[n])'
    BY <1>1, <1>2, <1>6 DEF Concerned
  <2>4. InFlight(r)'
    BY <1>1, <2>1, <2>3 DEF InFlight, Busy, Updated, Concerned
  <2>5. ASSUME NEW v \in Users, Exists(v)' PROVE Follows(v)'
    <3>1. Follows(v)
      BY <1>2, <2>5 DEF InOrder
    <3> QED
      BY <1>1, <1>6, <3>1 DEF Follows
  <2> QED
    BY <1>1, <1>3, <1>6, <2>2, <2>4, <2>5 DEF InOrder, Alone
<1> QED
  BY <1>5, <1>6 DEF Deliver

(* What Updated does to the two columns.                                   *)
LEMMA UpdatedColumns ==
  ASSUME NEW e \in EventSet, NEW l \in Row
  PROVE  LET new == Updated(e, l)
         IN /\ new.customer = IF e.kind = "completed" THEN e.sub ELSE l.customer
            /\ e.kind = "deleted" => new.plan = "basic"
<1>1. CASE e.kind = "completed"
  <2>1. Updated(e, l) = [l EXCEPT !.plan = e.plan, !.customer = e.sub]
    BY <1>1 DEF Updated
  <2> QED
    BY <1>1, <2>1 DEF Row
<1>2. CASE e.kind = "deleted"
  <2>1. Updated(e, l) = [l EXCEPT !.plan = "basic"]
    BY <1>2 DEF Updated
  <2> QED
    BY <1>2, <2>1 DEF Row
<1>3. CASE e.kind = "updated" /\ e.status = "active"
  <2>1. Updated(e, l) = [l EXCEPT !.plan = e.plan]
    BY <1>3 DEF Updated
  <2> QED
    BY <1>3, <2>1 DEF Row
<1>4. CASE e.kind = "updated" /\ e.status # "active"
  BY <1>4 DEF Updated
<1> QED
  BY <1>1, <1>2, <1>3, <1>4 DEF EventSet

(* The commit of a webhook that is alone, of the event n and the user u.   *)
Applies(n, u) ==
  /\ n \in DOMAIN events /\ n = past.latest /\ u \in Concerned(events[n])
  /\ events' = events /\ past'.latest = past.latest /\ handled' = handled \cup {n}
  /\ Webhooks' = {}
  /\ \A v \in Users : Exists(v)' <=> Exists(v)
  /\ \A v \in Users : v # u => rows'[v] = rows[v]
  /\ rows'[u].customer = IF events[n].kind = "completed" THEN events[n].sub
                                                         ELSE rows[u].customer
  /\ events[n].kind = "deleted" => rows'[u].plan = "basic"

LEMMA WebhookApplies ==
  ASSUME Shape, Limits, InOrder, NEW r \in Slots, Commit(r), slots[r].event # 0
  PROVE  Applies(slots[r].event, slots[r].user)
<1>1. PICK n, u, l, wanted : /\ n = slots[r].event /\ u = slots[r].user
                             /\ l = slots[r].loaded /\ wanted = slots[r].wanted
  OBVIOUS
<1>2. r \in Webhooks /\ InFlight(r)
  BY DEF InOrder, Alone, Webhooks
<1>3. /\ n = past.latest /\ u \in Concerned(events[n])
      /\ l.plan = rows[u].plan /\ l.customer = rows[u].customer
      /\ wanted = Updated(events[n], l)
  BY <1>1, <1>2 DEF InFlight
<1>4. n \in DOMAIN events /\ n # 0
  BY <1>1 DEF Limits, Numbers
<1>5. Ends(r) /\ past'.latest = past.latest /\ events' = events
  BY CommitKinds, CommitPast
<1>6. handled' = handled \cup {n}
  BY <1>1, <1>4 DEF Commit
<1>7. Webhooks' = {}
  BY <1>2, <1>5, EndedQuiet DEF InOrder, Alone, FewerWebhooks
<1>8. /\ \A v \in Users : Exists(v)' <=> Exists(v)
      /\ \A v \in Users : v # u => rows'[v] = rows[v]
      /\ rows'[u].plan = IF wanted.plan # l.plan THEN wanted.plan ELSE rows[u].plan
      /\ rows'[u].customer = IF wanted.customer # l.customer THEN wanted.customer
                                                             ELSE rows[u].customer
  BY <1>1, CommitRows
<1>9. rows'[u].plan = wanted.plan /\ rows'[u].customer = wanted.customer
  BY <1>3, <1>8
<1>10. events[n] \in EventSet /\ l \in Row
  BY <1>1, <1>4, CommitRows DEF Shape, Placed
<1>11. /\ wanted.customer = IF events[n].kind = "completed" THEN events[n].sub
                                                            ELSE l.customer
       /\ events[n].kind = "deleted" => wanted.plan = "basic"
  BY <1>3, <1>10, UpdatedColumns
<1>12. Applies(n, u)
  BY <1>3, <1>4, <1>5, <1>6, <1>7, <1>8, <1>9, <1>11 DEF Applies
<1> QED
  BY <1>1, <1>12

(* The end of a subscription was not handled before one of its other events*)
(* is.                                                                     *)
LEMMA EndComesLast ==
  ASSUME Shape, Limits, EventLog, \A k \in handled : k <= past.latest,
         NEW n \in DOMAIN events, n = past.latest,
         NEW m \in handled, events[m].kind = "deleted", events[m].sub = events[n].sub
  PROVE  m = n
<1>1. m \in DOMAIN events /\ DOMAIN events \subseteq Nat
  BY DEF Limits, Shape
<1>2. n <= m
  BY <1>1 DEF EventLog, EventOrder
<1>3. m <= n
  OBVIOUS
<1> QED
  BY <1>1, <1>2, <1>3

(* A customer is the one of a single user.                                 *)
LEMMA CustomersDiffer ==
  ASSUME Limits, EventLog, NEW u \in Users, NEW v \in Users, Follows(u), Follows(v),
         rows[u].customer # NoSub, rows[v].customer = rows[u].customer
  PROVE  v = u
<1>1. PICK n \in handled : events[n].user = u /\ events[n].sub = rows[u].customer
  BY DEF Follows
<1>2. PICK m \in handled : events[m].user = v /\ events[m].sub = rows[v].customer
  BY DEF Follows
<1>3. events[n].user = subs[events[n].sub].user /\ events[m].user = subs[events[m].sub].user
  BY DEF Limits, EventLog, EventOrder
<1> QED
  BY <1>1, <1>2, <1>3

LEMMA AppliedFollows ==
  ASSUME Shape, Limits, EventLog, InOrder, NEW n, NEW u, Applies(n, u)
  PROVE  Follows(u)'
<1>0. /\ n \in DOMAIN events /\ n = past.latest /\ events' = events
      /\ handled' = handled \cup {n}
      /\ u \in Users /\ Exists(u)
      /\ IF events[n].kind = "completed" THEN u = events[n].user
         ELSE rows[u].customer = events[n].sub
      /\ rows'[u].customer = IF events[n].kind = "completed" THEN events[n].sub
                                                             ELSE rows[u].customer
      /\ events[n].kind = "deleted" => rows'[u].plan = "basic"
  BY DEF Applies, Concerned
<1>1. Follows(u) /\ \A k \in handled : k <= past.latest
  BY <1>0 DEF InOrder
<1>2. events[n].sub \in Subs /\ events[n].sub # NoSub
  BY <1>0, AccountsAssumption DEF Shape, EventSet
<1>3. rows'[u].customer = events[n].sub
  BY <1>0
<1>4. \E m \in handled' : /\ events[m].kind = "completed" /\ events[m].user = u
                          /\ events[m].sub = rows'[u].customer
  <2>1. CASE events[n].kind = "completed"
    BY <1>0, <2>1
  <2>2. CASE events[n].kind # "completed"
    BY <1>0, <1>1, <1>2, <2>2 DEF Follows
  <2> QED
    BY <2>1, <2>2
<1>5. ASSUME NEW m \in handled', events[m].kind = "deleted",
             events[m].sub = rows'[u].customer
      PROVE  rows'[u].plan = "basic"
  <2>1. m = n
    BY <1>0, <1>1, <1>3, <1>5, EndComesLast
  <2> QED
    BY <1>0, <1>5, <2>1
<1> QED
  BY <1>0, <1>2, <1>3, <1>4, <1>5 DEF Follows

LEMMA OthersFollow ==
  ASSUME Shape, Limits, EventLog, InOrder, NEW n, NEW u, Applies(n, u),
         NEW v \in Users, v # u, Exists(v)
  PROVE  Follows(v)'
<1>0. /\ n \in DOMAIN events /\ events' = events /\ handled' = handled \cup {n}
      /\ u \in Users /\ Exists(u)
      /\ IF events[n].kind = "completed" THEN u = events[n].user
         ELSE rows[u].customer = events[n].sub
      /\ rows'[v] = rows[v]
  BY DEF Applies, Concerned
<1>1. Follows(u) /\ Follows(v)
  BY <1>0 DEF InOrder
<1>2. events[n].sub \in Subs /\ events[n].sub # NoSub
  BY <1>0, AccountsAssumption DEF Shape, EventSet
<1>3. events[n].kind = "completed" => events[n].user # v
  BY <1>0
<1>4. events[n].kind # "completed" => events[n].sub # rows[v].customer
  BY <1>0, <1>1, <1>2, CustomersDiffer
<1> QED
  BY <1>0, <1>1, <1>3, <1>4 DEF Follows

LEMMA WebhookCommit ==
  ASSUME Shape, Limits, EventLog, InOrder, NEW r \in Slots, Commit(r),
         slots[r].event # 0
  PROVE  InOrder'
<1>1. PICK n, u : Applies(n, u)
  BY WebhookApplies
<1>2. \A k \in handled' : k <= past'.latest
  <2>1. past.latest \in Nat
    BY DEF Shape, PastSet
  <2> QED
    BY <1>1, <2>1 DEF Applies, InOrder
<1>3. Alone'
  BY <1>1 DEF Applies, Alone
<1>4. ASSUME NEW v \in Users, Exists(v)' PROVE Follows(v)'
  <2>1. Exists(v)
    BY <1>1, <1>4 DEF Applies
  <2> QED
    BY <1>1, <2>1, AppliedFollows, OthersFollow
<1> QED
  BY <1>2, <1>3, <1>4 DEF InOrder

------------------------------------------------------------------------------
(* All steps.                                                              *)

LEMMA NextInOrder ==
  ASSUME Shape, Limits, EndInv, [Next]_vars, past'.ordered
  PROVE  InOrder'
<1>1. CASE \E r \in Slots : \E n \in DOMAIN events : Deliver(r, n)
  BY <1>1, DeliverPast, DeliverOrder DEF EndInv
<1>2. CASE \E r \in Slots : Commit(r)
  <2>1. PICK r \in Slots : Commit(r)
    BY <1>2
  <2>2. past.ordered
    BY <2>1, CommitPast
  <2> QED
    BY <2>1, <2>2, PlainCommit, WebhookCommit DEF EndInv
<1>3. CASE /\ ~ \E r \in Slots : \E n \in DOMAIN events : Deliver(r, n)
           /\ ~ \E r \in Slots : Commit(r)
  <2>0. /\ InOrder /\ EventLog /\ handled' = handled /\ past'.latest = past.latest
    BY <1>3, PastSteps, HandledSteps DEF EndInv
  <2>1. ASSUME NEW r \in Slots, NEW u \in Users, NEW place, NEW wanted,
               Begun(r, u, place, wanted)
        PROVE  InOrder'
    <3>1. Takes(r, place, u, wanted, 0) /\ rows' = rows /\ events' = events
      BY <2>1 DEF Begun
    <3> QED
      BY <2>0, <3>1, TakenQuiet, RowsStayQuiet, QuietOrder DEF SameEvents
  <2>2. ASSUME NEW r \in Slots, CheckWallet(r) \/ Lose(r)
        PROVE  InOrder'
    <3>1. (Claimed(r) \/ Ends(r)) /\ rows' = rows /\ events' = events
      BY <2>2, CheckWalletKinds DEF Lose, stripe
    <3> QED
      BY <2>0, <3>1, ClaimedQuiet, EndedQuiet, RowsStayQuiet, QuietOrder DEF SameEvents
  <2>3. ASSUME NEW u \in Users, NEW plan \in Plans, NEW position \in Nat,
               Registered(u, plan, position)
        PROVE  InOrder'
    BY <2>0, <2>3, RegisteredOrder
  <2>4. ASSUME NEW s \in Subs, NEW plan, NEW status, Moves(s, plan, status)
        PROVE  InOrder'
    <3>1. slots' = slots /\ rows' = rows
      BY <2>4 DEF Moves
    <3>2. SameEvents
      BY <2>4, MovesLatest DEF Latest, SameEvents
    <3> QED
      BY <2>0, <3>1, <3>2, SlotsStayQuiet, RowsStayQuiet, QuietOrder
  <2>5. ASSUME UNCHANGED <<rows, slots, events>>
        PROVE  InOrder'
    BY <2>0, <2>5, SlotsStayQuiet, RowsStayQuiet, QuietOrder DEF SameEvents
  <2>6. ASSUME Reactivated(Admin)
        PROVE  InOrder'
    <3>1. UNCHANGED <<slots, events>>
      BY <2>6 DEF Reactivated
    <3>2. SameColumns /\ \A u \in Users : Exists(u)' => Exists(u)
      BY <2>6, ReactivatedRows, ThereIs, AccountsAssumption DEF SameColumns
    <3> QED
      BY <2>0, <3>1, <3>2, SlotsStayQuiet, QuietOrder DEF SameEvents
  <2> QED
    BY <1>3, <2>1, <2>2, <2>3, <2>4, <2>5, <2>6, NextKinds DEF Opened, Still
<1> QED
  BY <1>1, <1>2, <1>3

LEMMA NextEnd == WebInv /\ EndInv /\ [Next]_vars => EndInv'
<1> SUFFICES ASSUME WebInv, EndInv, [Next]_vars PROVE EndInv'
  OBVIOUS
<1>1. Shape /\ Limits
  BY DEF WebInv, Base
<1>2. EventLog'
  BY <1>1, NextLog DEF EndInv
<1>3. \A q \in Slots : Plain(q)'
  BY <1>1, NextPlain DEF EndInv
<1>4. past'.ordered => InOrder'
  BY <1>1, NextInOrder
<1> QED
  BY <1>2, <1>3, <1>4 DEF EndInv

(* Ended subscriptions: stripe_webhook drops a user to the basic plan by   *)
(* the customer of the row, which checkout.session.completed overwrites;   *)
(* if webhooks arrive one after the other and in order, the plan is the    *)
(* basic one once all subscriptions of the user have ended.                *)
THEOREM EndedSubscriptionsAreBasic == Spec => []EndedIsBasic
BY InitWeb, NextWeb, InitEnd, NextEnd, EndedPlan, PTL DEF Spec
==============================================================================
