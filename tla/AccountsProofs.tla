---------------------------- MODULE AccountsProofs ----------------------------
(***************************************************************************)
(* Theorems about the web process, for any number of users, wallets,       *)
(* subscriptions and requests at a time: wallets are shared only through   *)
(* the open check, used reset tokens stay out of the table and set one     *)
(* password, plans were granted, and what the checks forbid is written only*)
(* where they are overtaken or not made.                                   *)
(***************************************************************************)
EXTENDS Accounts, FiniteSetTheorems, TLAPS

------------------------------------------------------------------------------
(* Shapes.                                                                 *)

SlotSet == [at : Places, user : Users \cup {NoUser}, loaded : Row \cup {NoRow},
            wanted : Row \cup {NoRow}, event : Nat]

SubSet == [user : Users \cup {NoUser}, plan : Plans,
           status : {"none", "open", "active", "past_due", "canceled"}]

EventSet == [kind : {"completed", "updated", "deleted"}, sub : Subs, user : Users,
             plan : Plans, status : {"active", "past_due", "canceled"}]

PastSet == [granted : [Users -> SUBSET Plans], spent : SUBSET Nat,
            raced : SUBSET Nat, contested : SUBSET Wallets, latest : Nat, ordered : BOOLEAN]

Busy(r) == slots[r].at # "free"

(* A row, once there, stays: the row of a request under way is there.      *)
Placed(r) == /\ slots[r].user \in Users
             /\ slots[r].loaded \in Row
             /\ slots[r].wanted \in Row
             /\ rows[slots[r].user] \in Row

Sold(s) == subs[s].status # "none" => subs[s].user \in Users

Shape ==
  /\ rows \in [Users -> Row \cup {NoRow}]
  /\ slots \in [Slots -> SlotSet]
  /\ subs \in [Subs -> SubSet]
  /\ IsFiniteSet(DOMAIN events) /\ DOMAIN events \subseteq Nat
  /\ \A n \in DOMAIN events : events[n] \in EventSet
  /\ requests \in Nat
  /\ past \in PastSet
  /\ \A r \in Slots : Busy(r) => Placed(r)
  /\ \A s \in Subs : Sold(s)

------------------------------------------------------------------------------
(* What the handlers want.                                                 *)

(* The columns that the properties are about, of what a request of a user  *)
(* wants.                                                                  *)
Keeps(l, wanted) ==
  /\ wanted \in Row
  /\ wanted.plan = l.plan
  /\ wanted.customer = l.customer

(* The columns that checks are about are left alone.                       *)
Unchecked(l, wanted) ==
  /\ wanted.trade = l.trade /\ wanted.position = l.position
  /\ wanted.pairs = l.pairs /\ wanted.active = l.active

LEMMA UncheckedAllowed ==
  ASSUME NEW l \in Row, NEW wanted \in Row, Unchecked(l, wanted)
  PROVE  Allowed(l, l, wanted)
BY DEF Unchecked, Allowed

LEMMA HandledKeeps ==
  ASSUME NEW l \in Row, NEW wanted \in Handled(l), requests \in Nat
  PROVE  /\ Keeps(l, wanted) /\ Allowed(l, l, wanted)
         /\ wanted.reset = l.reset
         /\ wanted.wallet \in {l.wallet, NoWallet}
<1>1. CASE wanted \in Settings(l)
  <2>1. PICK mode \in {"paper", "live"}, trade \in Trades(l.plan) \cup {l.trade},
              position \in Sizes(l.plan) :
          wanted = WithSettings(l, mode, trade, position)
    BY <1>1 DEF Settings
  <2>2. position \in Nat /\ trade \in {"spot", "futures"}
    BY AccountsAssumption DEF Trades, Sizes, Row
  <2>3. /\ position <= MaxPosition(l.plan)
        /\ (trade # l.trade /\ trade = "futures") => ~SpotOnly(l.plan)
    BY DEF Trades, Sizes
  <2>4. /\ wanted \in Row
        /\ wanted.plan = l.plan /\ wanted.customer = l.customer
        /\ wanted.reset = l.reset /\ wanted.wallet = l.wallet
        /\ wanted.trade = trade /\ wanted.position = position
        /\ wanted.pairs = l.pairs /\ wanted.active = l.active
    BY <2>1, <2>2 DEF Row, WithSettings
  <2> QED
    BY <2>3, <2>4 DEF Keeps, Allowed
<1>2. CASE wanted \in SelectedPairs(l)
  <2>1. PICK n \in Nat : wanted = [l EXCEPT !.pairs = n] /\ n <= MaxPairs(l.plan)
    BY <1>2, AccountsAssumption DEF SelectedPairs
  <2>2. /\ wanted \in Row
        /\ wanted.plan = l.plan /\ wanted.customer = l.customer
        /\ wanted.reset = l.reset /\ wanted.wallet = l.wallet
        /\ wanted.trade = l.trade /\ wanted.position = l.position
        /\ wanted.pairs = n /\ wanted.active = l.active
    BY <2>1 DEF Row
  <2> QED
    BY <2>1, <2>2 DEF Keeps, Allowed
<1>3. CASE wanted \in ExchangeKeys(l)
  BY <1>3, UncheckedAllowed DEF ExchangeKeys, Row, Keeps, Unchecked
<1>4. CASE wanted \in ControlBot(l)
  <2>1. CASE wanted = [l EXCEPT !.active = FALSE]
    BY <2>1 DEF Row, Keeps, Allowed
  <2>2. CASE wanted = [l EXCEPT !.active = TRUE] /\ (l.mode = "live" => l.keys # NoKeys)
    BY <2>2 DEF Row, Keeps, Allowed
  <2> QED
    BY <1>4, <2>1, <2>2 DEF ControlBot
<1>5. CASE wanted \in DeleteWallet(l)
  BY <1>5, UncheckedAllowed DEF DeleteWallet, Row, Keeps, Unchecked
<1>6. CASE wanted \in DeleteData(l)
  <2> DEFINE n == requests + 1
  <2>1. n \in Nat
    OBVIOUS
  <2>2. wanted = [l EXCEPT !.active = FALSE, !.keys = 0, !.wallet = NoWallet,
                           !.password = n, !.anonymous = TRUE]
    BY <1>6 DEF DeleteData, NoKeys
  <2> HIDE DEF n
  <2>3. /\ wanted \in Row
        /\ wanted.plan = l.plan /\ wanted.customer = l.customer
        /\ wanted.reset = l.reset /\ wanted.wallet = NoWallet
        /\ wanted.trade = l.trade /\ wanted.position = l.position
        /\ wanted.pairs = l.pairs /\ wanted.active = FALSE
    BY <2>1, <2>2 DEF Row
  <2> QED
    BY <2>3 DEF Keeps, Allowed
<1> QED
  BY <1>1, <1>2, <1>3, <1>4, <1>5, <1>6 DEF Handled

(* A written row has, of the columns the properties are about, those the   *)
(* session has changed, and the others as they were.                       *)
LEMMA WrittenRow ==
  ASSUME NEW row \in Row, NEW l \in Row, NEW wanted \in Row
  PROVE  LET new == Written(row, l, wanted)
         IN /\ new \in Row
            /\ new.plan \in {row.plan, wanted.plan}
            /\ new.customer \in {row.customer, wanted.customer}
            /\ new.reset = IF wanted.reset # l.reset THEN wanted.reset ELSE row.reset
            /\ new.wallet = IF wanted.wallet # l.wallet THEN wanted.wallet
                                                        ELSE row.wallet
BY DEF Written, Row

LEMMA UpdatedRow ==
  ASSUME NEW e \in EventSet, NEW l \in Row
  PROVE  LET new == Updated(e, l)
         IN /\ new \in Row
            /\ new.reset = l.reset
            /\ new.wallet = l.wallet
            /\ \/ new.plan \in {"basic", l.plan}
               \/ new.plan = e.plan /\ e.kind = "completed"
               \/ new.plan = e.plan /\ e.status = "active"
            /\ \/ new.customer = l.customer
               \/ new.customer = e.sub /\ e.kind = "completed"
<1>1. CASE e.kind = "completed"
  <2>1. Updated(e, l) = [l EXCEPT !.plan = e.plan, !.customer = e.sub]
    BY <1>1 DEF Updated
  <2> QED
    BY <1>1, <2>1 DEF EventSet, Row
<1>2. CASE e.kind = "deleted"
  <2>1. Updated(e, l) = [l EXCEPT !.plan = "basic"]
    BY <1>2 DEF Updated
  <2> QED
    BY <2>1 DEF Row, Plans
<1>3. CASE e.kind = "updated" /\ e.status = "active"
  <2>1. Updated(e, l) = [l EXCEPT !.plan = e.plan]
    BY <1>3 DEF Updated
  <2> QED
    BY <1>3, <2>1 DEF EventSet, Row
<1>4. CASE e.kind = "updated" /\ e.status # "active"
  <2>1. Updated(e, l) = l
    BY <1>4 DEF Updated
  <2> QED
    BY <2>1
<1> QED
  BY <1>1, <1>2, <1>3, <1>4 DEF EventSet

------------------------------------------------------------------------------
(* Steps, by what they do to the variables the properties are about.       *)

(* A request of a user begins: only what it wants when it is "ready" was   *)
(* checked, and only where it is "forced" it wants what would be.          *)
Begun(r, u, place, wanted) ==
  /\ rows[u] \in Row
  /\ place \in {"ready", "saving", "linking", "resetting", "forced"}
  /\ Keeps(rows[u], wanted)
  /\ wanted.reset \in {rows[u].reset, NoToken, requests + 1}
  /\ place = "resetting" => wanted.reset = NoToken /\ rows[u].reset # NoToken
  /\ wanted.wallet \in IF place \in {"saving", "linking"} THEN Wallets
                       ELSE {rows[u].wallet, NoWallet}
  /\ place = "ready" => Allowed(rows[u], rows[u], wanted)
  /\ place \in {"ready", "forced"} \/ Unchecked(rows[u], wanted)
  /\ Takes(r, place, u, wanted, 0)
  /\ requests' = requests + 1
  /\ UNCHANGED <<rows, subs, events, past>>

LEMMA HandleBegins ==
  ASSUME Shape, NEW r \in Slots, NEW u \in Users, Handle(r, u)
  PROVE  \E place, wanted : Begun(r, u, place, wanted)
<1>1. PICK wanted \in Handled(rows[u]) \ {rows[u]} : Takes(r, "ready", u, wanted, 0)
  BY DEF Handle
<1>2. rows[u] \in Row /\ requests \in Nat
  BY DEF Handle, Begins, Exists, Shape
<1>3. /\ Keeps(rows[u], wanted) /\ Allowed(rows[u], rows[u], wanted)
      /\ wanted.reset = rows[u].reset
      /\ wanted.wallet \in {rows[u].wallet, NoWallet}
  BY <1>2, HandledKeeps
<1>4. requests' = requests + 1 /\ UNCHANGED <<rows, subs, events, past>>
  BY DEF Handle, Begins, stripe
<1> QED
  BY <1>1, <1>2, <1>3, <1>4 DEF Begun

LEMMA WalletBegins ==
  ASSUME Shape, NEW r \in Slots, NEW u \in Users, Wallet(r, u)
  PROVE  \E place, wanted : Begun(r, u, place, wanted)
<1>1. PICK w \in Wallets, place \in {"saving", "linking"} :
        Takes(r, place, u, [rows[u] EXCEPT !.wallet = w], 0)
  BY DEF Wallet
<1> DEFINE wanted == [rows[u] EXCEPT !.wallet = w]
<1>2. rows[u] \in Row
  BY DEF Wallet, Begins, Exists, Shape
<1>3. /\ Keeps(rows[u], wanted)
      /\ wanted.reset = rows[u].reset
      /\ wanted.wallet \in Wallets
      /\ Unchecked(rows[u], wanted)
  BY <1>2, UncheckedAllowed DEF Row, Keeps, Unchecked
<1>4. Takes(r, place, u, wanted, 0)
  BY <1>1
<1>5. requests' = requests + 1 /\ UNCHANGED <<rows, subs, events, past>>
  BY DEF Wallet, Begins, stripe
<1> HIDE DEF wanted
<1> QED
  BY <1>2, <1>3, <1>4, <1>5 DEF Begun

LEMMA ForgotPasswordBegins ==
  ASSUME Shape, NEW r \in Slots, NEW u \in Users, ForgotPassword(r, u)
  PROVE  \E place, wanted : Begun(r, u, place, wanted)
<1> DEFINE wanted == [rows[u] EXCEPT !.reset = requests + 1]
<1>1. rows[u] \in Row /\ requests \in Nat
  BY DEF ForgotPassword, Begins, Exists, Shape
<1>2. /\ Keeps(rows[u], wanted) /\ Allowed(rows[u], rows[u], wanted)
      /\ wanted.reset = requests + 1
      /\ wanted.wallet = rows[u].wallet
  BY <1>1, UncheckedAllowed DEF Row, Keeps, Unchecked
<1>3. Takes(r, "ready", u, wanted, 0)
  BY DEF ForgotPassword
<1>4. requests' = requests + 1 /\ UNCHANGED <<rows, subs, events, past>>
  BY DEF ForgotPassword, Begins, stripe
<1> HIDE DEF wanted
<1> QED
  BY <1>1, <1>2, <1>3, <1>4 DEF Begun

LEMMA ResetPasswordBegins ==
  ASSUME Shape, NEW r \in Slots, NEW u \in Users, ResetPassword(r, u)
  PROVE  \E place, wanted : Begun(r, u, place, wanted)
<1> DEFINE n == requests + 1
           wanted == [rows[u] EXCEPT !.password = n, !.reset = NoToken]
<1>1. rows[u] \in Row /\ n \in Nat /\ rows[u].reset # NoToken
  BY DEF ResetPassword, Begins, Exists, Shape
<1>2. /\ Keeps(rows[u], wanted)
      /\ wanted.reset = NoToken
      /\ wanted.wallet = rows[u].wallet
      /\ Unchecked(rows[u], wanted)
  <2> HIDE DEF n
  <2> QED
    BY <1>1 DEF Row, Keeps, Unchecked, NoToken
<1>3. Takes(r, "resetting", u, wanted, 0)
  BY DEF ResetPassword
<1>4. requests' = requests + 1 /\ UNCHANGED <<rows, subs, events, past>>
  BY DEF ResetPassword, Begins, stripe
<1> HIDE DEF wanted
<1> QED
  BY <1>1, <1>2, <1>3, <1>4 DEF Begun

LEMMA DebugUpdateBegins ==
  ASSUME Shape, NEW r \in Slots, NEW u \in Users, DebugUpdate(r, u)
  PROVE  \E place, wanted : Begun(r, u, place, wanted)
<1> DEFINE n == requests + 1
           wanted == [rows[u] EXCEPT !.password = n, !.active = TRUE]
<1>1. rows[u] \in Row /\ n \in Nat
  BY DEF DebugUpdate, Begins, Exists, Shape
<1>2. /\ Keeps(rows[u], wanted)
      /\ wanted.reset = rows[u].reset
      /\ wanted.wallet = rows[u].wallet
  <2> HIDE DEF n
  <2> QED
    BY <1>1 DEF Row, Keeps
<1>3. Takes(r, "forced", u, wanted, 0)
  BY DEF DebugUpdate
<1>4. requests' = requests + 1 /\ UNCHANGED <<rows, subs, events, past>>
  BY DEF DebugUpdate, Begins, stripe
<1> HIDE DEF wanted
<1> QED
  BY <1>1, <1>2, <1>3, <1>4 DEF Begun

------------------------------------------------------------------------------
(* Every step preserves the shapes.                                        *)

(* A slot is taken, for a row that is there.                               *)
LEMMA TakesShape ==
  ASSUME Shape, NEW r \in Slots, NEW u \in Users, NEW place \in Places,
         NEW wanted \in Row, NEW n \in Nat, rows[u] \in Row,
         Takes(r, place, u, wanted, n), rows' = rows
  PROVE  /\ slots' \in [Slots -> SlotSet]
         /\ \A q \in Slots : Busy(q)' => Placed(q)'
<1>1. [at |-> place, user |-> u, loaded |-> rows[u], wanted |-> wanted, event |-> n]
        \in SlotSet
  BY DEF SlotSet
<1>2. slots' \in [Slots -> SlotSet]
  BY <1>1 DEF Shape, Takes
<1>3. ASSUME NEW q \in Slots, Busy(q)'
      PROVE  Placed(q)'
  <2>1. CASE q = r
    BY <2>1 DEF Shape, Takes, Placed
  <2>2. CASE q # r
    <3>1. slots'[q] = slots[q]
      BY <2>2 DEF Shape, Takes
    <3> QED
      BY <1>3, <3>1 DEF Shape, Busy, Placed
  <2> QED
    BY <2>1, <2>2
<1> QED
  BY <1>2, <1>3

LEMMA BegunShape ==
  ASSUME Shape, NEW r \in Slots, NEW u \in Users, NEW place, NEW wanted,
         Begun(r, u, place, wanted)
  PROVE  Shape'
<1>1. /\ place \in Places /\ wanted \in Row /\ rows[u] \in Row
      /\ Takes(r, place, u, wanted, 0)
      /\ UNCHANGED <<rows, subs, events, past>>
  BY DEF Begun, Keeps, Places, Writing
<1>2. slots' \in [Slots -> SlotSet] /\ \A q \in Slots : Busy(q)' => Placed(q)'
  BY <1>1, TakesShape
<1>3. requests' \in Nat
  BY DEF Shape, Begun
<1>4. \A s \in Subs : Sold(s)'
  BY <1>1 DEF Shape, Sold
<1> QED
  BY <1>1, <1>2, <1>3, <1>4 DEF Shape

(* A slot ends.                                                            *)
LEMMA EndsShape ==
  ASSUME Shape, NEW r \in Slots, Ends(r),
         rows' \in [Users -> Row \cup {NoRow}],
         \A u \in Users : rows[u] \in Row => rows'[u] \in Row
  PROVE  /\ slots' \in [Slots -> SlotSet]
         /\ \A q \in Slots : Busy(q)' => Placed(q)' /\ q # r /\ slots'[q] = slots[q]
<1>1. Free \in SlotSet
  BY DEF Free, SlotSet, Places, Writing
<1>2. slots' \in [Slots -> SlotSet]
  BY <1>1 DEF Shape, Ends
<1>3. ASSUME NEW q \in Slots, Busy(q)'
      PROVE  Placed(q)' /\ q # r /\ slots'[q] = slots[q]
  <2>1. q # r
    BY <1>3 DEF Shape, Ends, Busy, Free
  <2>2. slots'[q] = slots[q]
    BY <2>1 DEF Shape, Ends
  <2>3. Placed(q)
    BY <1>3, <2>2 DEF Shape, Busy
  <2> QED
    BY <2>1, <2>2, <2>3 DEF Placed
<1> QED
  BY <1>2, <1>3

LEMMA LoseShape ==
  ASSUME Shape, NEW r \in Slots, Lose(r)
  PROVE  Shape'
<1>1. Ends(r) /\ UNCHANGED <<rows, subs, events, requests, past>>
  BY DEF Lose, stripe
<1>2. slots' \in [Slots -> SlotSet] /\ \A q \in Slots : Busy(q)' => Placed(q)'
  BY <1>1, EndsShape DEF Shape
<1>3. \A s \in Subs : Sold(s)'
  BY <1>1 DEF Shape, Sold
<1> QED
  BY <1>1, <1>2, <1>3 DEF Shape

(* What CheckWallet does: the wallet is claimed, or the request refused.   *)
Rivals(r) == {s \in Slots : /\ slots[s].at = "claiming"
                            /\ slots[s].wanted.wallet = slots[r].wanted.wallet
                            /\ slots[s].user # slots[r].user}

Claimed(r) ==
  /\ slots[r].at \in {"saving", "linking"}
  /\ WalletFree(r, slots[r].wanted.wallet)
  /\ slots' = [slots EXCEPT ![r].at = "claiming"]
  /\ past' = IF Rivals(r) = {} THEN past
             ELSE [past EXCEPT !.contested = @ \cup {slots[r].wanted.wallet}]

LEMMA CheckWalletKinds ==
  ASSUME NEW r \in Slots, CheckWallet(r)
  PROVE  /\ UNCHANGED <<rows, subs, events, requests>>
         /\ \/ Claimed(r)
            \/ Ends(r) /\ UNCHANGED past
BY DEF CheckWallet, Claimed, Rivals, stripe

(* Slots "saving", "linking" and "claiming" want a wallet; the others none *)
(* but the one they have loaded.  Those "resetting" give up their token.   *)
Wants(r) ==
  /\ slots[r].at \in {"saving", "linking", "claiming"} => slots[r].wanted.wallet \in Wallets
  /\ slots[r].at \in {"ready", "resetting", "forced"}
       => slots[r].wanted.wallet \in {slots[r].loaded.wallet, NoWallet}
  /\ slots[r].at = "resetting"
       => slots[r].wanted.reset = NoToken /\ slots[r].loaded.reset # NoToken

LEMMA CheckWalletShape ==
  ASSUME Shape, NEW r \in Slots, CheckWallet(r), Wants(r)
  PROVE  Shape'
<1>0. UNCHANGED <<rows, subs, events, requests>>
  BY CheckWalletKinds
<1>1. \A s \in Subs : Sold(s)'
  BY <1>0 DEF Shape, Sold
<1>2. CASE Claimed(r)
  <2>1. slots[r] \in SlotSet /\ slots' = [slots EXCEPT ![r].at = "claiming"]
    BY <1>2 DEF Claimed, Shape
  <2>2. [slots[r] EXCEPT !.at = "claiming"] \in SlotSet
    BY <2>1 DEF SlotSet, Places, Writing
  <2>3. slots' \in [Slots -> SlotSet]
    BY <2>1, <2>2 DEF Shape
  <2>4. ASSUME NEW q \in Slots, Busy(q)'
        PROVE  Placed(q)'
    <3>1. /\ slots'[q].user = slots[q].user
          /\ slots'[q].loaded = slots[q].loaded
          /\ slots'[q].wanted = slots[q].wanted
      <4>1. CASE q = r
        BY <2>1, <4>1 DEF Shape, SlotSet
      <4>2. CASE q # r
        BY <2>1, <4>2 DEF Shape
      <4> QED
        BY <4>1, <4>2
    <3>2. Busy(q)
      <4>1. CASE q = r
        BY <1>2, <4>1 DEF Claimed, Busy
      <4>2. CASE q # r
        BY <2>1, <2>4, <4>2 DEF Shape, Busy
      <4> QED
        BY <4>1, <4>2
    <3>3. Placed(q)
      BY <3>2 DEF Shape
    <3> QED
      BY <1>0, <3>1, <3>3 DEF Placed
  <2>5. past' \in PastSet
    <3>1. CASE Rivals(r) = {}
      BY <1>2, <3>1 DEF Claimed, Shape
    <3>2. CASE Rivals(r) # {}
      <4>1. slots[r].wanted.wallet \in Wallets
        BY <1>2 DEF Claimed, Wants
      <4> QED
        BY <1>2, <3>2, <4>1 DEF Claimed, Shape, PastSet
    <3> QED
      BY <3>1, <3>2
  <2> QED
    BY <1>0, <1>1, <2>3, <2>4, <2>5 DEF Shape
<1>3. CASE Ends(r) /\ UNCHANGED past
  <2>1. slots' \in [Slots -> SlotSet] /\ \A q \in Slots : Busy(q)' => Placed(q)'
    BY <1>0, <1>3, EndsShape DEF Shape
  <2> QED
    BY <1>0, <1>1, <1>3, <2>1 DEF Shape
<1> QED
  BY <1>2, <1>3, CheckWalletKinds

New(r) == Written(rows[slots[r].user], slots[r].loaded, slots[r].wanted)

Spends(r) == (Uses(r) \cup ({rows[slots[r].user].reset} \ {New(r).reset})) \ {NoToken}

LEMMA CommitKinds ==
  ASSUME NEW r \in Slots, Commit(r)
  PROVE  /\ slots[r].at \in Writing
         /\ rows' = [rows EXCEPT ![slots[r].user] = New(r)]
         /\ Ends(r)
         /\ past' = [past EXCEPT !.spent = @ \cup Spends(r),
                                 !.raced = @ \cup (Spends(r) \cap InHands(r))]
         /\ UNCHANGED <<subs, events, requests>>
BY DEF Commit, New, Spends, stripe

LEMMA CommitPast ==
  ASSUME Shape, NEW r \in Slots, Commit(r)
  PROVE  /\ past'.granted = past.granted
         /\ past'.spent = past.spent \cup Spends(r)
         /\ past'.raced = past.raced \cup (Spends(r) \cap InHands(r))
         /\ past'.contested = past.contested
         /\ past'.latest = past.latest
         /\ past'.ordered = past.ordered
BY CommitKinds DEF Shape, PastSet

LEMMA NewRowOf ==
  ASSUME Shape, NEW r \in Slots, Busy(r)
  PROVE  LET u == slots[r].user
             l == slots[r].loaded
             wanted == slots[r].wanted
         IN /\ New(r) \in Row
            /\ New(r).plan \in {rows[u].plan, wanted.plan}
            /\ New(r).customer \in {rows[u].customer, wanted.customer}
            /\ New(r).reset = IF wanted.reset # l.reset THEN wanted.reset
                                                        ELSE rows[u].reset
            /\ New(r).wallet = IF wanted.wallet # l.wallet THEN wanted.wallet
                                                           ELSE rows[u].wallet
<1>1. Placed(r)
  BY DEF Shape
<1> QED
  BY <1>1, WrittenRow DEF Placed, New

LEMMA CommitShape ==
  ASSUME Shape, NEW r \in Slots, Commit(r)
  PROVE  Shape'
<1>1. /\ Busy(r)
      /\ rows' = [rows EXCEPT ![slots[r].user] = New(r)]
      /\ Ends(r)
      /\ past' = [past EXCEPT !.spent = @ \cup Spends(r),
                              !.raced = @ \cup (Spends(r) \cap InHands(r))]
      /\ UNCHANGED <<subs, events, requests>>
  BY CommitKinds DEF Busy, Writing
<1>2. New(r) \in Row
  BY <1>1, NewRowOf
<1>3. Placed(r)
  BY <1>1 DEF Shape
<1>4. /\ rows' \in [Users -> Row \cup {NoRow}]
      /\ \A u \in Users : rows[u] \in Row => rows'[u] \in Row
  BY <1>1, <1>2, <1>3 DEF Shape, Placed
<1>5. slots' \in [Slots -> SlotSet] /\ \A q \in Slots : Busy(q)' => Placed(q)'
  BY <1>1, <1>4, EndsShape
<1>6. Spends(r) \subseteq Nat
  BY <1>3 DEF Spends, Uses, Placed, Row
<1>7. past' \in PastSet
  BY <1>1, <1>6 DEF Shape, PastSet
<1>8. \A s \in Subs : Sold(s)'
  BY <1>1 DEF Shape, Sold
<1> QED
  BY <1>1, <1>4, <1>5, <1>7, <1>8 DEF Shape

Remembers(r, n) ==
  /\ past' = [past EXCEPT
                !.ordered = @ /\ Webhooks = {} /\ n \in {past.latest, past.latest + 1},
                !.latest = n]
  /\ UNCHANGED <<rows, subs, events, requests>>

LEMMA DeliverKinds ==
  ASSUME NEW r \in Slots, NEW n \in DOMAIN events, Deliver(r, n)
  PROVE  /\ Remembers(r, n)
         /\ \/ UNCHANGED slots
            \/ \E u \in Concerned(events[n]) :
                 Takes(r, "ready", u, Updated(events[n], rows[u]), n)
BY DEF Deliver, Remembers, stripe

LEMMA RemembersPast ==
  ASSUME Shape, NEW r \in Slots, NEW n \in DOMAIN events, Remembers(r, n)
  PROVE  /\ past' \in PastSet
         /\ past'.granted = past.granted
         /\ past'.spent = past.spent /\ past'.raced = past.raced
         /\ past'.contested = past.contested
<1> DEFINE ordered == past.ordered /\ Webhooks = {}
                        /\ n \in {past.latest, past.latest + 1}
<1>1. ordered \in BOOLEAN
  OBVIOUS
<1>2. n \in Nat
  BY DEF Shape
<1>3. past' = [past EXCEPT !.ordered = ordered, !.latest = n]
  BY DEF Remembers
<1> HIDE DEF ordered
<1> QED
  BY <1>1, <1>2, <1>3 DEF Shape, PastSet

LEMMA ConcernedRow ==
  ASSUME Shape, NEW n \in DOMAIN events, NEW u \in Concerned(events[n])
  PROVE  /\ u \in Users /\ rows[u] \in Row /\ events[n] \in EventSet
         /\ IF events[n].kind = "completed" THEN u = events[n].user
                                            ELSE rows[u].customer = events[n].sub
BY DEF Concerned, Exists, Shape

LEMMA DeliverShape ==
  ASSUME Shape, NEW r \in Slots, NEW n \in DOMAIN events, Deliver(r, n)
  PROVE  Shape'
<1>1. past' \in PastSet /\ UNCHANGED <<rows, subs, events, requests>>
  BY DeliverKinds, RemembersPast DEF Remembers
<1>2. \A s \in Subs : Sold(s)'
  BY <1>1 DEF Shape, Sold
<1>3. slots' \in [Slots -> SlotSet] /\ \A q \in Slots : Busy(q)' => Placed(q)'
  <2>1. CASE UNCHANGED slots
    BY <1>1, <2>1 DEF Shape, Busy, Placed
  <2>2. ASSUME NEW u \in Concerned(events[n]),
               Takes(r, "ready", u, Updated(events[n], rows[u]), n)
        PROVE  slots' \in [Slots -> SlotSet] /\ \A q \in Slots : Busy(q)' => Placed(q)'
    <3>1. u \in Users /\ rows[u] \in Row /\ Updated(events[n], rows[u]) \in Row
      BY ConcernedRow, UpdatedRow
    <3>2. n \in Nat /\ "ready" \in Places
      BY DEF Shape, Places, Writing
    <3> QED
      BY <1>1, <2>2, <3>1, <3>2, TakesShape
  <2> QED
    BY <2>1, <2>2, DeliverKinds
<1> QED
  BY <1>1, <1>2, <1>3 DEF Shape

LEMMA NewRowShape ==
  ASSUME NEW plan \in Plans, NEW position \in Nat
  PROVE  /\ NewRow(plan, position) \in Row
         /\ NewRow(plan, position).plan = plan
         /\ NewRow(plan, position).wallet = NoWallet
         /\ NewRow(plan, position).reset = NoToken
         /\ NewRow(plan, position).customer = NoSub
BY DEF NewRow, Row, NoToken, NoKeys

(* A row is inserted, with a plan that was chosen or is given.             *)
Registered(u, plan, position) ==
  /\ rows[u] = NoRow
  /\ rows' = [rows EXCEPT ![u] = NewRow(plan, position)]
  /\ past' = [past EXCEPT !.granted[u] = @ \cup {plan}]
  /\ requests' \in {requests, requests + 1}
  /\ UNCHANGED <<slots, subs, events>>

(* A row that is there gets active, and no request is under way.           *)
Reactivated(u) ==
  /\ Exists(u)
  /\ \A r \in Slots : slots[r] = Free
  /\ rows' = [rows EXCEPT ![u].active = TRUE]
  /\ UNCHANGED <<slots, subs, events, requests, past>>

LEMMA PositionsAreNumbers ==
  ASSUME NEW plan
  PROVE  MaxPosition(plan) \in Nat /\ Unlimited \in Nat
BY SMT DEF MaxPosition, Unlimited

LEMMA RegisterKinds ==
  ASSUME NEW u \in Users, Register(u)
  PROVE  \E plan \in Plans, position \in Nat : Registered(u, plan, position)
<1>1. PICK plan \in Chosen : Inserts(u, plan, MaxPosition(plan))
  BY DEF Register
<1>2. plan \in Plans /\ MaxPosition(plan) \in Nat
  BY AccountsAssumption, PositionsAreNumbers
<1>3. UNCHANGED <<slots, stripe, requests>>
  BY DEF Register
<1>4. Registered(u, plan, MaxPosition(plan))
  BY <1>1, <1>3 DEF Inserts, Registered, Exists, stripe
<1> QED
  BY <1>2, <1>4

LEMMA DebugCreateKinds ==
  ASSUME NEW u \in Users, DebugCreate(u)
  PROVE  \E plan \in Plans, position \in Nat : Registered(u, plan, position)
<1>1. "pro" \in Plans /\ Unlimited \in Nat
  BY PositionsAreNumbers DEF Plans
<1>2. Registered(u, "pro", Unlimited)
  BY DEF DebugCreate, Inserts, Registered, Exists, stripe
<1> QED
  BY <1>1, <1>2

LEMMA SeedAdminKinds ==
  ASSUME SeedAdmin
  PROVE  \/ \E plan \in Plans, position \in Nat : Registered(Admin, plan, position)
         \/ Reactivated(Admin)
<1>1. CASE Inserts(Admin, "enterprise", Unlimited)
  <2>1. "enterprise" \in Plans /\ Unlimited \in Nat
    BY PositionsAreNumbers DEF Plans
  <2>2. Registered(Admin, "enterprise", Unlimited)
    BY <1>1 DEF SeedAdmin, Inserts, Registered, Exists, stripe
  <2> QED
    BY <2>1, <2>2
<1>2. CASE ~Inserts(Admin, "enterprise", Unlimited)
  BY <1>2 DEF SeedAdmin, Reactivated, stripe
<1> QED
  BY <1>1, <1>2

LEMMA GrantedPast ==
  ASSUME Shape, NEW u \in Users, NEW plan \in Plans,
         past' = [past EXCEPT !.granted[u] = @ \cup {plan}]
  PROVE  /\ past' \in PastSet
         /\ \A v \in Users : past.granted[v] \subseteq past'.granted[v]
         /\ plan \in past'.granted[u]
         /\ past'.spent = past.spent /\ past'.raced = past.raced
         /\ past'.contested = past.contested
BY DEF Shape, PastSet

LEMMA RegisterShape ==
  ASSUME Shape, NEW u \in Users, NEW plan \in Plans, NEW position \in Nat,
         Registered(u, plan, position)
  PROVE  Shape'
<1>1. NewRow(plan, position) \in Row
  BY NewRowShape
<1>2. /\ rows' \in [Users -> Row \cup {NoRow}]
      /\ \A v \in Users : rows[v] \in Row => rows'[v] \in Row
  BY <1>1 DEF Shape, Registered
<1>3. \A q \in Slots : Busy(q)' => Placed(q)'
  BY <1>2 DEF Shape, Registered, Busy, Placed
<1>4. past' \in PastSet
  BY GrantedPast DEF Registered
<1>5. \A s \in Subs : Sold(s)'
  BY DEF Shape, Sold, Registered
<1>6. requests' \in Nat
  BY DEF Shape, Registered
<1> QED
  BY <1>2, <1>3, <1>4, <1>5, <1>6 DEF Shape, Registered

(* Of the columns that the invariants are about, none changes when a row   *)
(* gets active.                                                            *)
LEMMA ReactivatedRows ==
  ASSUME Shape, NEW u \in Users, Reactivated(u), NEW v \in Users
  PROVE  /\ Exists(v)' <=> Exists(v)
         /\ rows[v] \in Row => /\ rows'[v] \in Row
                               /\ rows'[v].plan = rows[v].plan
                               /\ rows'[v].customer = rows[v].customer
                               /\ rows'[v].wallet = rows[v].wallet
                               /\ rows'[v].reset = rows[v].reset
         /\ rows'[v] \in Row \cup {NoRow}
         /\ v # u => rows'[v] = rows[v]
<1>1. rows[u] \in Row
  BY DEF Shape, Reactivated, Exists
<1>2. [rows[u] EXCEPT !.active = TRUE] \in Row
  BY <1>1 DEF Row
<1>3. rows' = [rows EXCEPT ![u] = [rows[u] EXCEPT !.active = TRUE]]
  BY DEF Reactivated, Shape
<1>4. CASE v = u
  <2>1. rows'[v] = [rows[u] EXCEPT !.active = TRUE]
    BY <1>3, <1>4 DEF Shape
  <2> QED
    BY <1>1, <1>2, <1>4, <2>1, NoRowAssumption DEF Row, Exists
<1>5. CASE v # u
  <2>1. rows'[v] = rows[v]
    BY <1>3, <1>5 DEF Shape
  <2> QED
    BY <1>5, <2>1 DEF Shape, Exists
<1> QED
  BY <1>4, <1>5

LEMMA ReactivatedShape ==
  ASSUME Shape, NEW u \in Users, Reactivated(u)
  PROVE  Shape'
<1>1. rows' \in [Users -> Row \cup {NoRow}]
  <2>1. DOMAIN rows' = Users /\ rows' = [v \in Users |-> rows'[v]]
    BY DEF Reactivated, Shape
  <2> QED
    BY <2>1, ReactivatedRows
<1>2. \A q \in Slots : Busy(q)' => Placed(q)'
  BY ReactivatedRows DEF Shape, Reactivated, Busy, Placed
<1>3. \A s \in Subs : Sold(s)'
  BY DEF Shape, Sold, Reactivated
<1> QED
  BY <1>1, <1>2, <1>3 DEF Shape, Reactivated

(* What the steps of Stripe do to a subscription that has been sold.       *)
LEMMA EmitsEvent ==
  ASSUME Shape, NEW s \in Subs, subs[s].user \in Users,
         NEW kind \in {"completed", "updated", "deleted"}, NEW plan \in Plans,
         NEW status \in {"active", "past_due", "canceled"},
         Emits(kind, s, plan, status)
  PROVE  LET e == [kind |-> kind, sub |-> s, user |-> subs[s].user, plan |-> plan,
                   status |-> status]
         IN /\ IsFiniteSet(DOMAIN events') /\ DOMAIN events' \subseteq Nat
            /\ \A n \in DOMAIN events' :
                 /\ events'[n] \in EventSet
                 /\ \/ n \in DOMAIN events /\ events'[n] = events[n]
                    \/ events'[n] = e
<1> DEFINE e == [kind |-> kind, sub |-> s, user |-> subs[s].user, plan |-> plan,
                 status |-> status]
           m == Cardinality(DOMAIN events) + 1
<1>1. e \in EventSet
  BY DEF EventSet
<1>2. m \in Nat
  BY FS_CardinalityType DEF Shape
<1>3. events' = [n \in DOMAIN events \cup {m} |->
                   IF n \in DOMAIN events THEN events[n] ELSE e]
  BY DEF Emits
<1> HIDE DEF e, m
<1>4. DOMAIN events' = DOMAIN events \cup {m}
  BY <1>3
<1>5. IsFiniteSet(DOMAIN events') /\ DOMAIN events' \subseteq Nat
  BY <1>2, <1>4, FS_AddElement DEF Shape
<1>6. \A n \in DOMAIN events' :
        /\ events'[n] \in EventSet
        /\ \/ n \in DOMAIN events /\ events'[n] = events[n]
           \/ events'[n] = e
  BY <1>1, <1>3, <1>4 DEF Shape
<1> QED
  BY <1>5, <1>6 DEF e

(* The events of a subscription that is paid, changes, and is canceled.    *)
Tells(s, kind, status) ==
  \/ kind = "completed" /\ subs[s].status = "open" /\ status = "active"
  \/ /\ kind = "updated"
     /\ subs[s].status \in {"active", "past_due"} /\ status \in {"active", "past_due"}
  \/ /\ kind = "deleted"
     /\ subs[s].status \in {"active", "past_due"} /\ status = "canceled"

(* A step of Stripe on a subscription: it changes, an event of it is       *)
(* emitted, and a plan counts as granted when it becomes active.            *)
Moves(s, plan, status) ==
  /\ subs[s].user \in Users
  /\ plan \in Plans
  /\ status \in {"active", "past_due", "canceled"}
  /\ subs' = [subs EXCEPT ![s].plan = plan, ![s].status = status]
  /\ \E kind \in {"completed", "updated", "deleted"} :
       /\ Emits(kind, s, plan, status)
       /\ Tells(s, kind, status)
  /\ past' = IF status = "active"
             THEN [past EXCEPT !.granted[subs[s].user] = @ \cup {plan}]
             ELSE past
  /\ UNCHANGED <<rows, slots, requests>>

LEMMA StripeMoves ==
  ASSUME Shape, NEW s \in Subs, Pay(s) \/ Change(s) \/ Cancel(s)
  PROVE  \E plan, status : Moves(s, plan, status)
<1>1. subs[s] \in SubSet /\ Sold(s)
  BY DEF Shape
<1>2. CASE Pay(s)
  <2>1. subs[s].user \in Users /\ subs[s].plan \in Plans
    BY <1>1, <1>2 DEF Pay, Sold, SubSet
  <2>2. [subs EXCEPT ![s].plan = subs[s].plan, ![s].status = "active"]
          = [subs EXCEPT ![s].status = "active"]
    BY <1>1 DEF Shape, SubSet
  <2>3. Moves(s, subs[s].plan, "active")
    BY <1>2, <2>1, <2>2 DEF Pay, Moves, Tells
  <2> QED
    BY <2>3
<1>3. CASE Change(s)
  <2>1. PICK plan \in Offered \cup {subs[s].plan}, status \in {"active", "past_due"} :
          /\ subs' = [subs EXCEPT ![s].plan = plan, ![s].status = status]
          /\ Emits("updated", s, plan, status)
          /\ past' = IF status = "active"
                     THEN [past EXCEPT !.granted[subs[s].user] = @ \cup {plan}]
                     ELSE past
    BY <1>3 DEF Change
  <2>2. subs[s].user \in Users
    BY <1>1, <1>3 DEF Change, Sold
  <2>3. plan \in Plans
    BY <1>1, AccountsAssumption DEF SubSet
  <2>4. Moves(s, plan, status)
    BY <1>3, <2>1, <2>2, <2>3 DEF Change, Moves, Tells
  <2> QED
    BY <2>4
<1>4. CASE Cancel(s)
  <2>1. subs[s].user \in Users /\ subs[s].plan \in Plans
    BY <1>1, <1>4 DEF Cancel, Sold, SubSet
  <2>2. [subs EXCEPT ![s].plan = subs[s].plan, ![s].status = "canceled"]
          = [subs EXCEPT ![s].status = "canceled"]
    BY <1>1 DEF Shape, SubSet
  <2>3. Moves(s, subs[s].plan, "canceled")
    BY <1>4, <2>1, <2>2 DEF Cancel, Moves, Tells
  <2> QED
    BY <2>3
<1> QED
  BY <1>2, <1>3, <1>4

LEMMA MovesSubs ==
  ASSUME Shape, NEW s \in Subs, NEW plan, NEW status, Moves(s, plan, status)
  PROVE  /\ subs' \in [Subs -> SubSet]
         /\ \A t \in Subs : subs'[t].user = subs[t].user
         /\ \A t \in Subs : Sold(t)'
<1>1. subs[s] \in SubSet
  BY DEF Shape
<1>2. subs' = [subs EXCEPT ![s] = [subs[s] EXCEPT !.plan = plan, !.status = status]]
  BY DEF Moves, Shape
<1>3. /\ [subs[s] EXCEPT !.plan = plan, !.status = status] \in SubSet
      /\ [subs[s] EXCEPT !.plan = plan, !.status = status].user = subs[s].user
  BY <1>1 DEF SubSet, Moves
<1>4. subs' \in [Subs -> SubSet] /\ \A t \in Subs : subs'[t].user = subs[t].user
  BY <1>2, <1>3 DEF Shape
<1>5. \A t \in Subs : Sold(t)'
  <2> SUFFICES ASSUME NEW t \in Subs PROVE Sold(t)'
    OBVIOUS
  <2>1. CASE t = s
    BY <2>1, <1>4 DEF Sold, Moves
  <2>2. CASE t # s
    BY <2>2, <1>2 DEF Sold, Shape
  <2> QED
    BY <2>1, <2>2
<1> QED
  BY <1>4, <1>5

LEMMA MovesEvents ==
  ASSUME Shape, NEW s \in Subs, NEW plan, NEW status, Moves(s, plan, status)
  PROVE  /\ IsFiniteSet(DOMAIN events') /\ DOMAIN events' \subseteq Nat
         /\ \A n \in DOMAIN events' :
              /\ events'[n] \in EventSet
              /\ \/ n \in DOMAIN events /\ events'[n] = events[n]
                 \/ /\ events'[n].user = subs[s].user
                    /\ events'[n].sub = s
                    /\ events'[n].plan = plan
                    /\ events'[n].status = status
                    /\ events'[n].kind = "completed" => status = "active"
<1>1. PICK kind \in {"completed", "updated", "deleted"} :
        Emits(kind, s, plan, status) /\ (kind = "completed" => status = "active")
  BY DEF Moves, Tells
<1>2. /\ subs[s].user \in Users /\ plan \in Plans
      /\ status \in {"active", "past_due", "canceled"}
  BY DEF Moves
<1> QED
  BY <1>1, <1>2, EmitsEvent

LEMMA MovesPast ==
  ASSUME Shape, NEW s \in Subs, NEW plan, NEW status, Moves(s, plan, status)
  PROVE  /\ past' \in PastSet
         /\ \A v \in Users : past.granted[v] \subseteq past'.granted[v]
         /\ status = "active" => plan \in past'.granted[subs[s].user]
         /\ past'.spent = past.spent /\ past'.raced = past.raced
         /\ past'.contested = past.contested
<1>1. subs[s].user \in Users /\ plan \in Plans
  BY DEF Moves
<1>2. CASE status = "active"
  BY <1>1, <1>2, GrantedPast DEF Moves
<1>3. CASE status # "active"
  BY <1>3 DEF Moves, Shape
<1> QED
  BY <1>2, <1>3

LEMMA MovesShape ==
  ASSUME Shape, NEW s \in Subs, NEW plan, NEW status, Moves(s, plan, status)
  PROVE  Shape'
<1>1. UNCHANGED <<rows, slots, requests>>
  BY DEF Moves
<1>2. \A q \in Slots : Busy(q)' => Placed(q)'
  BY <1>1 DEF Shape, Busy, Placed
<1> QED
  BY <1>1, <1>2, MovesSubs, MovesEvents, MovesPast DEF Shape

(* What Checkout does.                                                     *)
Opened(u, s, plan) ==
  /\ Exists(u)
  /\ subs[s].user = NoUser /\ subs[s].status = "none"
  /\ subs' = [subs EXCEPT ![s] = [user |-> u, plan |-> plan, status |-> "open"]]
  /\ UNCHANGED <<rows, slots, events, requests, past>>

LEMMA CheckoutOpens ==
  ASSUME NEW u \in Users, NEW s \in Subs, Checkout(u, s)
  PROVE  \E plan \in Plans : Opened(u, s, plan)
<1>1. PICK plan \in Bought :
        subs' = [subs EXCEPT ![s] = [user |-> u, plan |-> plan, status |-> "open"]]
  BY DEF Checkout
<1>2. plan \in Plans
  BY AccountsAssumption
<1>3. Exists(u) /\ subs[s].user = NoUser /\ subs[s].status = "none"
  BY DEF Checkout, Unsold
<1>4. UNCHANGED <<rows, slots, events, requests, past>>
  BY DEF Checkout
<1> QED
  BY <1>1, <1>2, <1>3, <1>4 DEF Opened

LEMMA OpenedShape ==
  ASSUME Shape, NEW u \in Users, NEW s \in Subs, NEW plan \in Plans, Opened(u, s, plan)
  PROVE  Shape'
<1>1. [user |-> u, plan |-> plan, status |-> "open"] \in SubSet
  BY DEF SubSet
<1>2. subs' \in [Subs -> SubSet] /\ \A t \in Subs : Sold(t)'
  BY <1>1 DEF Shape, Opened, Sold
<1>3. \A q \in Slots : Busy(q)' => Placed(q)'
  BY DEF Opened, Shape, Busy, Placed
<1> QED
  BY <1>2, <1>3 DEF Opened, Shape

------------------------------------------------------------------------------
(* The kinds of steps.                                                     *)

Still == UNCHANGED <<rows, slots, subs, events, requests, past>>

LEMMA NextKinds ==
  ASSUME Shape, [Next]_vars
  PROVE  \/ \E r \in Slots, u \in Users : \E place, wanted : Begun(r, u, place, wanted)
         \/ \E r \in Slots : CheckWallet(r)
         \/ \E r \in Slots : \E n \in DOMAIN events : Deliver(r, n)
         \/ \E r \in Slots : Commit(r)
         \/ \E r \in Slots : Lose(r)
         \/ \E u \in Users, plan \in Plans, position \in Nat : Registered(u, plan, position)
         \/ Reactivated(Admin)
         \/ \E s \in Subs : \E plan, status : Moves(s, plan, status)
         \/ \E u \in Users, s \in Subs, plan \in Plans : Opened(u, s, plan)
         \/ Still
<1>1. CASE \E r \in Slots : Request(r)
  BY <1>1, HandleBegins, WalletBegins, ForgotPasswordBegins, ResetPasswordBegins,
     DebugUpdateBegins DEF Request
<1>2. CASE \E r \in Slots : Webhook(r)
  BY <1>2 DEF Webhook
<1>3. CASE \E r \in Slots : Commit(r) \/ Lose(r)
  BY <1>3
<1>4. CASE \E u \in Users : Register(u) \/ DebugCreate(u)
  BY <1>4, RegisterKinds, DebugCreateKinds
<1>8. CASE SeedAdmin
  BY <1>8, SeedAdminKinds, AccountsAssumption
<1>5. CASE \E u \in Users : ExpireToken(u)
  BY <1>5 DEF ExpireToken, Still, stripe
<1>6. CASE Stripe
  <2>1. PICK s \in Subs :
          Pay(s) \/ Change(s) \/ Cancel(s) \/ \E u \in Users : Checkout(u, s)
    BY <1>6 DEF Stripe
  <2>2. CASE Pay(s) \/ Change(s) \/ Cancel(s)
    BY <2>2, StripeMoves
  <2>3. CASE \E u \in Users : Checkout(u, s)
    BY <2>3, CheckoutOpens
  <2> QED
    BY <2>1, <2>2, <2>3
<1>7. CASE UNCHANGED vars
  BY <1>7 DEF vars, stripe, Still
<1> QED
  BY <1>1, <1>2, <1>3, <1>4, <1>5, <1>6, <1>7, <1>8 DEF Next

Base == Shape /\ \A r \in Slots : Wants(r)

LEMMA InitBase ==
  ASSUME Init
  PROVE  Base
<1>1. Free \in SlotSet
  BY DEF Free, SlotSet, Places, Writing
<1>2. Unsold \in SubSet
  BY DEF Unsold, SubSet, Plans
<1>3. past \in PastSet
  BY DEF Init, Nothing, PastSet
<1>4. DOMAIN events = {}
  BY DEF Init
<1>5. IsFiniteSet(DOMAIN events)
  BY <1>4, FS_EmptySet
<1>6. \A r \in Slots : ~Busy(r) /\ Wants(r)
  BY DEF Init, Busy, Wants, Free
<1>7. \A s \in Subs : Sold(s)
  BY DEF Init, Sold, Unsold
<1> QED
  BY <1>1, <1>2, <1>3, <1>4, <1>5, <1>6, <1>7 DEF Init, Base, Shape

LEMMA NextShape ==
  ASSUME Base, [Next]_vars
  PROVE  Shape'
<1>1. Shape /\ \A r \in Slots : Wants(r)
  BY DEF Base
<1>2. CASE Still
  BY <1>1, <1>2 DEF Still, Shape, Busy, Placed, Sold
<1> QED
  BY <1>1, <1>2, AccountsAssumption, NextKinds, BegunShape, CheckWalletShape, DeliverShape, CommitShape,
     LoseShape, RegisterShape, ReactivatedShape, MovesShape, OpenedShape

(* A taken slot holds what it was taken with; the other slots are as they  *)
(* were.                                                                   *)
LEMMA TakenSlots ==
  ASSUME Shape, NEW r \in Slots, NEW u, NEW place, NEW wanted, NEW n,
         Takes(r, place, u, wanted, n)
  PROVE  /\ slots'[r].at = place /\ slots'[r].user = u
         /\ slots'[r].loaded = rows[u] /\ slots'[r].wanted = wanted
         /\ \A q \in Slots : q # r => slots'[q] = slots[q]
BY DEF Shape, Takes

(* A claiming slot holds what it held before; the other slots are as they  *)
(* were.                                                                   *)
LEMMA ClaimedSlots ==
  ASSUME Shape, NEW r \in Slots, Claimed(r)
  PROVE  /\ slots'[r].at = "claiming" /\ slots'[r].user = slots[r].user
         /\ slots'[r].loaded = slots[r].loaded /\ slots'[r].wanted = slots[r].wanted
         /\ \A q \in Slots : q # r => slots'[q] = slots[q]
<1>1. slots[r] \in SlotSet
  BY DEF Shape
<1> QED
  BY <1>1 DEF Shape, SlotSet, Claimed

(* An ended slot is free; the other slots are as they were.                *)
LEMMA EndedSlots ==
  ASSUME Shape, NEW r \in Slots, Ends(r)
  PROVE  slots'[r].at = "free" /\ \A q \in Slots : q # r => slots'[q] = slots[q]
BY DEF Shape, Ends, Free

LEMMA NextWants ==
  ASSUME Base, [Next]_vars, NEW q \in Slots
  PROVE  Wants(q)'
<1>0. Shape /\ Wants(q)
  BY DEF Base
<1>1. ASSUME NEW r \in Slots, NEW u \in Users, NEW place, NEW wanted,
             Begun(r, u, place, wanted)
      PROVE  Wants(q)'
  <2>1. Takes(r, place, u, wanted, 0) /\ rows' = rows
    BY <1>1 DEF Begun
  <2>2. CASE q = r
    BY <1>0, <1>1, <2>1, <2>2, TakenSlots DEF Wants, Begun
  <2>3. CASE q # r
    BY <1>0, <2>1, <2>3, TakenSlots DEF Wants
  <2> QED
    BY <2>2, <2>3
<1>2. ASSUME NEW r \in Slots, CheckWallet(r)
      PROVE  Wants(q)'
  <2>1. CASE Claimed(r)
    <3>1. CASE q = r
      BY <1>0, <2>1, <3>1, ClaimedSlots DEF Wants, Claimed
    <3>2. CASE q # r
      BY <1>0, <2>1, <3>2, ClaimedSlots DEF Wants
    <3> QED
      BY <3>1, <3>2
  <2>2. CASE Ends(r)
    BY <1>0, <2>2, EndedSlots DEF Wants
  <2> QED
    BY <1>2, <2>1, <2>2, CheckWalletKinds
<1>3. ASSUME NEW r \in Slots, NEW n \in DOMAIN events, Deliver(r, n)
      PROVE  Wants(q)'
  <2>1. CASE UNCHANGED slots
    BY <1>0, <2>1 DEF Wants
  <2>2. ASSUME NEW u \in Concerned(events[n]),
               Takes(r, "ready", u, Updated(events[n], rows[u]), n)
        PROVE  Wants(q)'
    <3>1. Updated(events[n], rows[u]).wallet = rows[u].wallet
      BY <1>0, ConcernedRow, UpdatedRow
    <3>2. CASE q = r
      BY <1>0, <2>2, <3>1, <3>2, TakenSlots DEF Wants
    <3>3. CASE q # r
      BY <1>0, <2>2, <3>3, TakenSlots DEF Wants
    <3> QED
      BY <3>2, <3>3
  <2> QED
    BY <1>3, <2>1, <2>2, DeliverKinds
<1>4. ASSUME NEW r \in Slots, Commit(r) \/ Lose(r)
      PROVE  Wants(q)'
  <2>1. Ends(r)
    BY <1>4, CommitKinds DEF Lose
  <2> QED
    BY <1>0, <2>1, EndedSlots DEF Wants
<1>5. CASE UNCHANGED slots
  BY <1>0, <1>5 DEF Wants
<1> QED
  BY <1>0, <1>1, <1>2, <1>3, <1>4, <1>5, NextKinds
     DEF Registered, Reactivated, Moves, Opened, Still

LEMMA NextBase ==
  ASSUME Base, [Next]_vars
  PROVE  Base'
BY NextShape, NextWants DEF Base

------------------------------------------------------------------------------
(* Wallets.                                                                *)

(* Users who hold a wallet, or have found it free and not written it yet.  *)
Claims(u, w) ==
  \/ u \in Holders(w)
  \/ \E r \in Slots : /\ slots[r].at = "claiming"
                      /\ slots[r].user = u
                      /\ slots[r].wanted.wallet = w

(* A wallet that was never contested is claimed once.                      *)
ClaimedOnce ==
  \A w \in Wallets \ past.contested : \A a, b \in Users :
    Claims(a, w) /\ Claims(b, w) => a = b

(* If nobody claims more than before, nothing is claimed twice.            *)
LEMMA NoNewClaim ==
  ASSUME ClaimedOnce, past.contested \subseteq past'.contested,
         \A u \in Users, w \in Wallets : Claims(u, w)' => Claims(u, w)
  PROVE  ClaimedOnce'
BY DEF ClaimedOnce

LEMMA ThereIs ==
  ASSUME Shape, NEW u \in Users
  PROVE  Exists(u) <=> rows[u] \in Row
BY NoRowAssumption DEF Shape, Exists

LEMMA SameRowsSameHolders ==
  ASSUME rows' = rows, NEW w
  PROVE  Holders(w)' = Holders(w)
BY DEF Holders, Exists

(* A slot that is not claiming adds no claim.                              *)
LEMMA OtherSlots ==
  ASSUME NEW r \in Slots, slots'[r].at # "claiming",
         \A q \in Slots : q # r => slots'[q] = slots[q],
         NEW u \in Users, NEW w \in Wallets, Claims(u, w)',
         u \in Holders(w)' => Claims(u, w)
  PROVE  Claims(u, w)
<1>1. CASE u \in Holders(w)'
  BY <1>1
<1>2. ASSUME NEW q \in Slots, slots'[q].at = "claiming", slots'[q].user = u,
             slots'[q].wanted.wallet = w
      PROVE  Claims(u, w)
  BY <1>2 DEF Claims
<1> QED
  BY <1>1, <1>2 DEF Claims

LEMMA ClaimKeeps ==
  ASSUME Base, ClaimedOnce, NEW r \in Slots, Claimed(r), rows' = rows
  PROVE  ClaimedOnce'
<1> DEFINE u == slots[r].user
           v == slots[r].wanted.wallet
<1>0. Shape /\ u \in Users /\ v \in Wallets
  BY DEF Base, Shape, Claimed, Busy, Placed, Wants
(* Claims are those before, and that of the slot.                          *)
<1>1. ASSUME NEW a \in Users, NEW w \in Wallets, Claims(a, w)'
      PROVE  Claims(a, w) \/ (a = u /\ w = v)
  <2>1. CASE a \in Holders(w)'
    BY <2>1, SameRowsSameHolders DEF Claims
  <2>2. ASSUME NEW q \in Slots, slots'[q].at = "claiming", slots'[q].user = a,
               slots'[q].wanted.wallet = w
        PROVE  Claims(a, w) \/ (a = u /\ w = v)
    <3>1. CASE q = r
      BY <1>0, <2>2, <3>1, ClaimedSlots
    <3>2. CASE q # r
      <4>1. slots'[q] = slots[q]
        BY <1>0, <3>2, ClaimedSlots
      <4> QED
        BY <2>2, <4>1 DEF Claims
    <3> QED
      BY <3>1, <3>2
  <2> QED
    BY <1>1, <2>1, <2>2 DEF Claims
(* Without rivals, nobody else claims the wallet.                          *)
<1>2. ASSUME NEW a \in Users, Claims(a, v), v \notin past'.contested
      PROVE  a = u
  <2>1. Rivals(r) = {}
    <3> SUFFICES ASSUME Rivals(r) # {} PROVE FALSE
      OBVIOUS
    <3>1. past' = [past EXCEPT !.contested = @ \cup {v}]
      BY DEF Claimed
    <3> QED
      BY <1>0, <1>2, <3>1 DEF Shape, PastSet
  <2>2. CASE a \in Holders(v)
    BY <2>2 DEF Claimed, WalletFree
  <2>3. ASSUME NEW q \in Slots, slots[q].at = "claiming", slots[q].user = a,
               slots[q].wanted.wallet = v
        PROVE  a = u
    BY <2>1, <2>3 DEF Rivals
  <2> QED
    BY <1>2, <2>2, <2>3 DEF Claims
<1>3. past.contested \subseteq past'.contested
  BY <1>0 DEF Claimed, Shape, PastSet
<1> HIDE DEF u, v
<1> SUFFICES ASSUME NEW w \in Wallets \ past'.contested,
                    NEW a \in Users, NEW b \in Users, Claims(a, w)', Claims(b, w)'
             PROVE  a = b
  BY DEF ClaimedOnce
<1>4. CASE w = v
  BY <1>1, <1>2, <1>4
<1>5. CASE w # v
  BY <1>1, <1>3, <1>5 DEF ClaimedOnce
<1> QED
  BY <1>4, <1>5

LEMMA CommitKeeps ==
  ASSUME Base, ClaimedOnce, NEW r \in Slots, Commit(r)
  PROVE  ClaimedOnce'
<1>0. /\ Shape /\ Wants(r) /\ Busy(r) /\ Placed(r)
      /\ slots[r].at \in Writing
      /\ rows' = [rows EXCEPT ![slots[r].user] = New(r)]
      /\ Ends(r)
  BY CommitKinds DEF Base, Shape, Busy, Writing
<1>1. past'.contested = past.contested
  BY CommitPast DEF Base
<1>2. slots'[r].at # "claiming" /\ \A q \in Slots : q # r => slots'[q] = slots[q]
  BY <1>0, EndedSlots
<1>3. ASSUME NEW u \in Users, NEW w \in Wallets, u \in Holders(w)'
      PROVE  Claims(u, w)
  <2>1. CASE u # slots[r].user
    <3>1. rows'[u] = rows[u]
      BY <1>0, <2>1 DEF Shape
    <3> QED
      BY <1>3, <3>1 DEF Holders, Exists, Claims
  <2>2. CASE u = slots[r].user
    <3>1. New(r).wallet = w
      BY <1>0, <1>3, <2>2 DEF Holders, Shape
    <3>2. CASE slots[r].wanted.wallet = slots[r].loaded.wallet
      <4>1. rows[u].wallet = w /\ rows[u] \in Row
        BY <1>0, <2>2, <3>1, <3>2, NewRowOf DEF Placed
      <4> QED
        BY <1>0, <4>1, ThereIs DEF Holders, Claims
    <3>3. CASE slots[r].wanted.wallet # slots[r].loaded.wallet
      <4>1. slots[r].wanted.wallet = w
        BY <1>0, <3>1, <3>3, NewRowOf
      <4>2. slots[r].at = "claiming"
        BY <1>0, <3>3, <4>1, AccountsAssumption DEF Wants, Writing
      <4> QED
        BY <2>2, <4>1, <4>2 DEF Claims
    <3> QED
      BY <3>2, <3>3
  <2> QED
    BY <2>1, <2>2
<1>4. \A u \in Users, w \in Wallets : Claims(u, w)' => Claims(u, w)
  BY <1>2, <1>3, OtherSlots
<1> QED
  BY <1>1, <1>4, NoNewClaim

LEMMA BegunKeeps ==
  ASSUME Base, ClaimedOnce, NEW r \in Slots, NEW u \in Users, NEW place, NEW wanted,
         Begun(r, u, place, wanted)
  PROVE  ClaimedOnce'
<1>1. /\ Shape /\ rows' = rows /\ past' = past /\ place # "claiming"
      /\ Takes(r, place, u, wanted, 0)
  BY DEF Base, Begun
<1>2. \A v \in Users, w \in Wallets : Claims(v, w)' => Claims(v, w)
  BY <1>1, TakenSlots, OtherSlots, SameRowsSameHolders DEF Claims
<1> QED
  BY <1>1, <1>2, NoNewClaim

LEMMA DeliverKeeps ==
  ASSUME Base, ClaimedOnce, NEW r \in Slots, NEW n \in DOMAIN events, Deliver(r, n)
  PROVE  ClaimedOnce'
<1>1. Shape /\ rows' = rows /\ past'.contested = past.contested
  BY DeliverKinds, RemembersPast DEF Base, Remembers
<1>2. CASE UNCHANGED slots
  <2>1. \A v \in Users, w \in Wallets : Claims(v, w)' => Claims(v, w)
    BY <1>1, <1>2, SameRowsSameHolders DEF Claims
  <2> QED
    BY <1>1, <2>1, NoNewClaim
<1>3. ASSUME NEW u \in Concerned(events[n]),
             Takes(r, "ready", u, Updated(events[n], rows[u]), n)
      PROVE  ClaimedOnce'
  <2>1. \A v \in Users, w \in Wallets : Claims(v, w)' => Claims(v, w)
    BY <1>1, <1>3, TakenSlots, OtherSlots, SameRowsSameHolders DEF Claims
  <2> QED
    BY <1>1, <2>1, NoNewClaim
<1> QED
  BY <1>2, <1>3, DeliverKinds

LEMMA EndsKeeps ==
  ASSUME Base, ClaimedOnce, NEW r \in Slots, Ends(r), UNCHANGED <<rows, past>>
  PROVE  ClaimedOnce'
<1>1. slots'[r].at # "claiming" /\ \A q \in Slots : q # r => slots'[q] = slots[q]
  BY EndedSlots DEF Base
<1>2. \A v \in Users, w \in Wallets : Claims(v, w)' => Claims(v, w)
  BY <1>1, OtherSlots, SameRowsSameHolders DEF Claims
<1> QED
  BY <1>2, NoNewClaim

LEMMA RegisterKeeps ==
  ASSUME Base, ClaimedOnce, NEW u \in Users, NEW plan \in Plans, NEW position \in Nat,
         Registered(u, plan, position)
  PROVE  ClaimedOnce'
<1>1. past'.contested = past.contested /\ slots' = slots
  BY GrantedPast DEF Base, Registered
<1>2. ASSUME NEW v \in Users, NEW w \in Wallets, v \in Holders(w)'
      PROVE  v \in Holders(w)
  <2>1. CASE v = u
    <3>1. rows'[v].wallet = NoWallet
      BY <2>1, NewRowShape DEF Base, Shape, Registered
    <3> QED
      BY <1>2, <3>1, AccountsAssumption DEF Holders
  <2>2. CASE v # u
    <3>1. rows'[v] = rows[v]
      BY <2>2 DEF Base, Shape, Registered
    <3> QED
      BY <1>2, <3>1 DEF Holders, Exists
  <2> QED
    BY <2>1, <2>2
<1>3. \A v \in Users, w \in Wallets : Claims(v, w)' => Claims(v, w)
  BY <1>1, <1>2 DEF Claims
<1> QED
  BY <1>1, <1>3, NoNewClaim

LEMMA ReactivatedKeeps ==
  ASSUME Base, ClaimedOnce, NEW u \in Users, Reactivated(u)
  PROVE  ClaimedOnce'
<1>1. past'.contested = past.contested /\ slots' = slots
  BY DEF Reactivated
<1>2. ASSUME NEW v \in Users, NEW w \in Wallets, v \in Holders(w)'
      PROVE  v \in Holders(w)
  BY <1>2, ReactivatedRows, ThereIs DEF Base, Holders
<1>3. \A v \in Users, w \in Wallets : Claims(v, w)' => Claims(v, w)
  BY <1>1, <1>2 DEF Claims
<1> QED
  BY <1>1, <1>3, NoNewClaim

LEMMA StillKeeps ==
  ASSUME ClaimedOnce, UNCHANGED <<rows, slots>>, past'.contested = past.contested
  PROVE  ClaimedOnce'
<1>1. \A v \in Users, w \in Wallets : Claims(v, w)' => Claims(v, w)
  BY SameRowsSameHolders DEF Claims
<1> QED
  BY <1>1, NoNewClaim

LEMMA NextClaimedOnce ==
  ASSUME Base, ClaimedOnce, [Next]_vars
  PROVE  ClaimedOnce'
<1>1. ASSUME NEW r \in Slots, CheckWallet(r)
      PROVE  ClaimedOnce'
  BY <1>1, CheckWalletKinds, ClaimKeeps, EndsKeeps
<1>2. ASSUME NEW r \in Slots, Lose(r)
      PROVE  ClaimedOnce'
  BY <1>2, EndsKeeps DEF Lose
<1>3. ASSUME NEW s \in Subs, NEW plan, NEW status, Moves(s, plan, status)
      PROVE  ClaimedOnce'
  BY <1>3, MovesPast, StillKeeps DEF Base, Moves
<1>4. ASSUME NEW u \in Users, NEW s \in Subs, NEW plan \in Plans, Opened(u, s, plan)
      PROVE  ClaimedOnce'
  BY <1>4, StillKeeps DEF Opened
<1>5. CASE Still
  BY <1>5, StillKeeps DEF Still
<1> QED
  BY <1>1, <1>2, <1>3, <1>4, <1>5, AccountsAssumption, NextKinds, BegunKeeps, DeliverKeeps, CommitKeeps,
     RegisterKeeps, ReactivatedKeeps DEF Base

(* Two accounts hold the same wallet only if both were between looking it  *)
(* up and writing it at the same time, in save_wallet or wallet_link.      *)
THEOREM WalletsSharedOnlyIfContested == Spec => []SharedOnlyIfContested
<1>1. Init => Base /\ ClaimedOnce
  <2>1. ASSUME Init PROVE ClaimedOnce
    <3>1. \A u \in Users, w \in Wallets : ~Claims(u, w)
      BY <2>1 DEF Init, Claims, Holders, Exists, Free
    <3> QED
      BY <3>1 DEF ClaimedOnce
  <2> QED
    BY <2>1, InitBase
<1>2. Base /\ ClaimedOnce /\ [Next]_vars => (Base /\ ClaimedOnce)'
  BY NextBase, NextClaimedOnce
<1>3. Base /\ ClaimedOnce => SharedOnlyIfContested
  BY DEF ClaimedOnce, SharedOnlyIfContested, Claims, Holders
<1> QED
  BY <1>1, <1>2, <1>3, PTL DEF Spec

------------------------------------------------------------------------------
(* Plans.                                                                  *)

(* The plan of a row was granted, and its customer is a subscription of the*)
(* user.                                                                   *)
Backed(u, row) ==
  /\ row.plan \in past.granted[u] \cup {"basic"}
  /\ row.customer # NoSub => subs[row.customer].user = u

(* What an event says of its user is so, and stays so.                     *)
True(e) ==
  /\ subs[e.sub].user = e.user
  /\ e.kind = "completed" => e.status = "active"
  /\ e.status = "active" => e.plan \in past.granted[e.user]

RowsBacked == \A u \in Users : Exists(u) => Backed(u, rows[u])
SlotsBacked == \A r \in Slots : Busy(r) => Backed(slots[r].user, slots[r].wanted)
EventsTrue == \A n \in DOMAIN events : True(events[n])

PlanInv == RowsBacked /\ SlotsBacked /\ EventsTrue

(* Plans stay granted, and subscriptions stay their users'.               *)
Grows ==
  /\ \A u \in Users : past.granted[u] \subseteq past'.granted[u]
  /\ \A s \in Subs : subs[s].user \in Users => subs'[s].user = subs[s].user

LEMMA BackedStays ==
  ASSUME Grows, NEW u \in Users, NEW row \in Row, Backed(u, row)
  PROVE  Backed(u, row)'
BY AccountsAssumption DEF Grows, Backed, Row

LEMMA EventsStayTrue ==
  ASSUME Shape, Grows, EventsTrue, UNCHANGED events
  PROVE  EventsTrue'
<1> SUFFICES ASSUME NEW n \in DOMAIN events PROVE True(events[n])'
  BY DEF EventsTrue
<1>1. True(events[n]) /\ events[n] \in EventSet
  BY DEF EventsTrue, Shape
<1> QED
  BY <1>1 DEF True, Grows, EventSet

LEMMA RowsStayBacked ==
  ASSUME Shape, Grows, RowsBacked, UNCHANGED rows
  PROVE  RowsBacked'
<1> SUFFICES ASSUME NEW u \in Users, Exists(u)' PROVE Backed(u, rows[u])'
  BY DEF RowsBacked
<1>1. Backed(u, rows[u]) /\ rows[u] \in Row
  BY ThereIs DEF RowsBacked, Exists
<1> QED
  BY <1>1 DEF Grows, Backed, Row

(* A slot that is as it was stays backed.                                  *)
LEMMA SlotStaysBacked ==
  ASSUME Shape, Grows, SlotsBacked, NEW q \in Slots, slots'[q] = slots[q], Busy(q)'
  PROVE  Backed(slots[q].user, slots[q].wanted)'
<1>1. Busy(q)
  BY DEF Busy
<1>2. /\ Backed(slots[q].user, slots[q].wanted)
      /\ slots[q].user \in Users /\ slots[q].wanted \in Row
  BY <1>1 DEF SlotsBacked, Shape, Placed
<1> QED
  BY <1>2 DEF Grows, Backed, Row

LEMMA SameGrows ==
  ASSUME UNCHANGED subs, past'.granted = past.granted
  PROVE  Grows
BY DEF Grows

LEMMA TakesBacked ==
  ASSUME Shape, PlanInv, Grows, NEW r \in Slots, NEW u \in Users, NEW place,
         NEW wanted \in Row, NEW n, Takes(r, place, u, wanted, n), UNCHANGED subs,
         past'.granted = past.granted, Backed(u, wanted)
  PROVE  SlotsBacked'
<1> SUFFICES ASSUME NEW q \in Slots, Busy(q)'
             PROVE  Backed(slots[q].user, slots[q].wanted)'
  BY DEF SlotsBacked
<1>1. CASE q = r
  BY <1>1, TakenSlots DEF Backed
<1>2. CASE q # r
  BY <1>2, TakenSlots, SlotStaysBacked DEF PlanInv
<1> QED
  BY <1>1, <1>2

LEMMA BegunPlans ==
  ASSUME Base, PlanInv, NEW r \in Slots, NEW u \in Users, NEW place, NEW wanted,
         Begun(r, u, place, wanted)
  PROVE  PlanInv'
<1>1. /\ Shape /\ Takes(r, place, u, wanted, 0)
      /\ rows[u] \in Row /\ Keeps(rows[u], wanted)
      /\ UNCHANGED <<rows, subs, events, past>>
  BY DEF Base, Begun
<1>2. Grows
  BY <1>1, SameGrows
<1>3. Backed(u, wanted) /\ wanted \in Row
  <2>1. Backed(u, rows[u])
    BY <1>1, ThereIs DEF PlanInv, RowsBacked
  <2> QED
    BY <1>1, <2>1 DEF Backed, Keeps
<1>4. SlotsBacked'
  BY <1>1, <1>2, <1>3, TakesBacked
<1> QED
  BY <1>1, <1>2, <1>4, RowsStayBacked, EventsStayTrue DEF PlanInv

LEMMA DeliverPlans ==
  ASSUME Base, PlanInv, NEW r \in Slots, NEW n \in DOMAIN events, Deliver(r, n)
  PROVE  PlanInv'
<1>1. Shape /\ UNCHANGED <<rows, subs, events>> /\ past'.granted = past.granted
  BY DeliverKinds, RemembersPast DEF Base, Remembers
<1>2. Grows
  BY <1>1, SameGrows
<1>3. ASSUME UNCHANGED slots
      PROVE  SlotsBacked'
  BY <1>1, <1>2, <1>3, SlotStaysBacked DEF SlotsBacked, PlanInv
<1>4. ASSUME NEW u \in Concerned(events[n]),
             Takes(r, "ready", u, Updated(events[n], rows[u]), n)
      PROVE  SlotsBacked'
  <2>1. /\ u \in Users /\ rows[u] \in Row /\ events[n] \in EventSet
        /\ IF events[n].kind = "completed" THEN u = events[n].user
                                           ELSE rows[u].customer = events[n].sub
    BY <1>1, ConcernedRow
  <2>2. Backed(u, rows[u]) /\ True(events[n])
    BY <1>1, <2>1, ThereIs DEF PlanInv, RowsBacked, EventsTrue
  <2>3. u = events[n].user
    BY <2>1, <2>2, AccountsAssumption DEF Backed, True, EventSet
  <2>4. Backed(u, Updated(events[n], rows[u])) /\ Updated(events[n], rows[u]) \in Row
    BY <2>1, <2>2, <2>3, UpdatedRow DEF Backed, True
  <2> QED
    BY <1>1, <1>2, <1>4, <2>1, <2>4, TakesBacked
<1>5. SlotsBacked'
  BY <1>3, <1>4, DeliverKinds
<1> QED
  BY <1>1, <1>2, <1>5, RowsStayBacked, EventsStayTrue DEF PlanInv

LEMMA EndsBacked ==
  ASSUME Shape, Grows, SlotsBacked, NEW r \in Slots, Ends(r)
  PROVE  SlotsBacked'
<1> SUFFICES ASSUME NEW q \in Slots, Busy(q)'
             PROVE  Backed(slots[q].user, slots[q].wanted)'
  BY DEF SlotsBacked
<1>1. slots'[q] = slots[q]
  BY EndedSlots DEF Busy
<1> QED
  BY <1>1, SlotStaysBacked

LEMMA CommitPlans ==
  ASSUME Base, PlanInv, NEW r \in Slots, Commit(r)
  PROVE  PlanInv'
<1>1. /\ Shape /\ Busy(r) /\ Placed(r)
      /\ rows' = [rows EXCEPT ![slots[r].user] = New(r)]
      /\ Ends(r) /\ UNCHANGED <<subs, events>>
  BY CommitKinds DEF Base, Shape, Busy, Writing
<1>2. past'.granted = past.granted
  BY CommitPast DEF Base
<1>3. Grows
  BY <1>1, <1>2, SameGrows
<1>4. Backed(slots[r].user, New(r))
  <2>1. Backed(slots[r].user, slots[r].wanted)
    BY <1>1 DEF PlanInv, SlotsBacked
  <2>2. Backed(slots[r].user, rows[slots[r].user])
    BY <1>1, ThereIs DEF PlanInv, RowsBacked, Placed
  <2> QED
    BY <1>1, <2>1, <2>2, NewRowOf DEF Backed
<1>5. RowsBacked'
  <2> SUFFICES ASSUME NEW u \in Users, Exists(u)' PROVE Backed(u, rows[u])'
    BY DEF RowsBacked
  <2>1. CASE u = slots[r].user
    <3>1. rows'[u] = New(r)
      BY <1>1, <2>1 DEF Shape
    <3> QED
      BY <1>1, <1>2, <1>4, <2>1, <3>1 DEF Backed
  <2>2. CASE u # slots[r].user
    <3>1. rows'[u] = rows[u]
      BY <1>1, <2>2 DEF Shape
    <3>2. Backed(u, rows[u])
      BY <3>1 DEF Exists, PlanInv, RowsBacked
    <3> QED
      BY <1>1, <1>2, <3>1, <3>2 DEF Backed
  <2> QED
    BY <2>1, <2>2
<1> QED
  BY <1>1, <1>3, <1>5, EndsBacked, EventsStayTrue DEF PlanInv

LEMMA RegisterPlans ==
  ASSUME Base, PlanInv, NEW u \in Users, NEW plan \in Plans, NEW position \in Nat,
         Registered(u, plan, position)
  PROVE  PlanInv'
<1>1. /\ Shape /\ UNCHANGED <<slots, subs, events>>
      /\ rows' = [rows EXCEPT ![u] = NewRow(plan, position)]
      /\ past' = [past EXCEPT !.granted[u] = @ \cup {plan}]
  BY DEF Base, Registered
<1>2. Grows /\ plan \in past'.granted[u]
  BY <1>1, GrantedPast DEF Grows
<1>3. SlotsBacked'
  BY <1>1, <1>2, SlotStaysBacked DEF SlotsBacked, PlanInv
<1>4. RowsBacked'
  <2> SUFFICES ASSUME NEW v \in Users, Exists(v)' PROVE Backed(v, rows[v])'
    BY DEF RowsBacked
  <2>1. CASE v = u
    <3>1. rows'[v] = NewRow(plan, position)
      BY <1>1, <2>1 DEF Shape
    <3> QED
      BY <1>2, <2>1, <3>1, NewRowShape DEF Backed
  <2>2. CASE v # u
    <3>1. rows'[v] = rows[v]
      BY <1>1, <2>2 DEF Shape
    <3>2. Backed(v, rows[v]) /\ rows[v] \in Row
      BY <1>1, <3>1, ThereIs DEF Exists, PlanInv, RowsBacked
    <3>3. past.granted[v] \subseteq past'.granted[v]
      BY <1>2 DEF Grows
    <3> QED
      BY <1>1, <3>1, <3>2, <3>3 DEF Backed
  <2> QED
    BY <2>1, <2>2
<1> QED
  BY <1>1, <1>2, <1>3, <1>4, EventsStayTrue DEF PlanInv

LEMMA ReactivatedPlans ==
  ASSUME Base, PlanInv, NEW u \in Users, Reactivated(u)
  PROVE  PlanInv'
<1>1. Shape /\ UNCHANGED <<slots, subs, events, past>>
  BY DEF Base, Reactivated
<1>2. Grows
  BY <1>1, SameGrows
<1>3. SlotsBacked'
  BY <1>1, <1>2, SlotStaysBacked DEF SlotsBacked, PlanInv
<1>4. RowsBacked'
  <2> SUFFICES ASSUME NEW v \in Users, Exists(v)' PROVE Backed(v, rows[v])'
    BY DEF RowsBacked
  <2>1. Exists(v) /\ rows[v] \in Row
    BY <1>1, ReactivatedRows, ThereIs
  <2>2. Backed(v, rows[v])
    BY <2>1 DEF PlanInv, RowsBacked
  <2>3. rows'[v].plan = rows[v].plan /\ rows'[v].customer = rows[v].customer
    BY <1>1, <2>1, ReactivatedRows
  <2> QED
    BY <1>1, <2>2, <2>3 DEF Backed
<1> QED
  BY <1>1, <1>2, <1>3, <1>4, EventsStayTrue DEF PlanInv

LEMMA MovesPlans ==
  ASSUME Base, PlanInv, NEW s \in Subs, NEW plan, NEW status, Moves(s, plan, status)
  PROVE  PlanInv'
<1>1. /\ Shape /\ UNCHANGED <<rows, slots>> /\ subs[s].user \in Users
  BY DEF Base, Moves
<1>2. \A t \in Subs : subs'[t].user = subs[t].user
  BY <1>1, MovesSubs
<1>3. Grows /\ (status = "active" => plan \in past'.granted[subs[s].user])
  BY <1>1, <1>2, MovesPast DEF Grows
<1>4. SlotsBacked'
  BY <1>1, <1>3, SlotStaysBacked DEF SlotsBacked, PlanInv
<1>5. EventsTrue'
  <2> SUFFICES ASSUME NEW n \in DOMAIN events' PROVE True(events[n])'
    BY DEF EventsTrue
  <2>1. CASE n \in DOMAIN events /\ events'[n] = events[n]
    <3>1. True(events[n]) /\ events[n] \in EventSet
      BY <1>1, <2>1 DEF PlanInv, EventsTrue, Shape
    <3> QED
      BY <1>3, <2>1, <3>1 DEF True, Grows, EventSet
  <2>2. CASE /\ events'[n].user = subs[s].user
             /\ events'[n].sub = s
             /\ events'[n].plan = plan
             /\ events'[n].status = status
             /\ events'[n].kind = "completed" => status = "active"
    BY <1>2, <1>3, <2>2 DEF True
  <2> QED
    BY <1>1, <2>1, <2>2, MovesEvents
<1> QED
  BY <1>1, <1>3, <1>4, <1>5, RowsStayBacked DEF PlanInv

LEMMA OpenedPlans ==
  ASSUME Base, PlanInv, NEW u \in Users, NEW s \in Subs, NEW plan \in Plans,
         Opened(u, s, plan)
  PROVE  PlanInv'
<1>1. /\ Shape /\ UNCHANGED <<rows, slots, events, past>>
      /\ subs[s].user = NoUser
  BY DEF Base, Opened
<1>2. \A t \in Subs : subs[t].user \in Users => subs'[t].user = subs[t].user
  BY <1>1, AccountsAssumption DEF Opened, Shape
<1>3. Grows
  BY <1>1, <1>2 DEF Grows
<1>4. SlotsBacked'
  BY <1>1, <1>3, SlotStaysBacked DEF SlotsBacked, PlanInv
<1> QED
  BY <1>1, <1>3, <1>4, RowsStayBacked, EventsStayTrue DEF PlanInv

LEMMA NextPlans ==
  ASSUME Base, PlanInv, [Next]_vars
  PROVE  PlanInv'
<1>1. ASSUME NEW r \in Slots, CheckWallet(r)
      PROVE  PlanInv'
  <2>1. Shape /\ UNCHANGED <<rows, subs, events>>
    BY <1>1, CheckWalletKinds DEF Base
  <2>2. past'.granted = past.granted
    BY <1>1, CheckWalletKinds DEF Claimed, Base, Shape, PastSet
  <2>3. Grows
    BY <2>1, <2>2, SameGrows
  <2>4. SlotsBacked'
    <3>1. CASE Ends(r)
      BY <2>1, <2>3, <3>1, EndsBacked DEF PlanInv
    <3>2. ASSUME Claimed(r)
          PROVE  SlotsBacked'
      <4> SUFFICES ASSUME NEW q \in Slots, Busy(q)'
                   PROVE  Backed(slots[q].user, slots[q].wanted)'
        BY DEF SlotsBacked
      <4>1. CASE q = r
        <5>1. Backed(slots[r].user, slots[r].wanted)
          BY <3>2 DEF PlanInv, SlotsBacked, Busy, Claimed
        <5> QED
          BY <2>1, <2>2, <3>2, <4>1, <5>1, ClaimedSlots DEF Backed
      <4>2. CASE q # r
        BY <2>1, <2>3, <3>2, <4>2, ClaimedSlots, SlotStaysBacked DEF PlanInv
      <4> QED
        BY <4>1, <4>2
    <3> QED
      BY <1>1, <3>1, <3>2, CheckWalletKinds
  <2> QED
    BY <2>1, <2>3, <2>4, RowsStayBacked, EventsStayTrue DEF PlanInv
<1>2. ASSUME NEW r \in Slots, Lose(r)
      PROVE  PlanInv'
  <2>1. Shape /\ Ends(r) /\ UNCHANGED <<rows, subs, events, past>>
    BY <1>2 DEF Base, Lose, stripe
  <2>2. Grows
    BY <2>1, SameGrows
  <2> QED
    BY <2>1, <2>2, EndsBacked, RowsStayBacked, EventsStayTrue DEF PlanInv
<1>3. CASE Still
  <2>1. Shape /\ UNCHANGED <<rows, slots, subs, events, past>>
    BY <1>3 DEF Base, Still
  <2>2. Grows
    BY <2>1, SameGrows
  <2>3. SlotsBacked'
    BY <2>1, <2>2, SlotStaysBacked DEF SlotsBacked, PlanInv
  <2> QED
    BY <2>1, <2>2, <2>3, RowsStayBacked, EventsStayTrue DEF PlanInv
<1> QED
  BY <1>1, <1>2, <1>3, AccountsAssumption, NextKinds, BegunPlans, DeliverPlans, CommitPlans, RegisterPlans,
     ReactivatedPlans, MovesPlans, OpenedPlans DEF Base

(* In whatever order, and however often, the webhooks of Stripe arrive, and*)
(* whatever requests overtake them: a plan above the basic one was chosen  *)
(* at registration, given by the debug route or the seeding, or paid for at*)
(* some time.                                                              *)
THEOREM PlansWereGranted == Spec => []PlanWasGranted
<1>1. Init => Base /\ PlanInv
  <2>1. ASSUME Init PROVE PlanInv
    BY <2>1 DEF Init, PlanInv, RowsBacked, SlotsBacked, EventsTrue, Exists, Busy, Free
  <2> QED
    BY <2>1, InitBase
<1>2. Base /\ PlanInv /\ [Next]_vars => (Base /\ PlanInv)'
  BY NextBase, NextPlans
<1>3. PlanInv => PlanWasGranted
  BY DEF PlanInv, RowsBacked, Backed, PlanWasGranted
<1> QED
  BY <1>1, <1>2, <1>3, PTL DEF Spec

------------------------------------------------------------------------------
(* Reset tokens.                                                           *)

Loaded(q) == slots[q].loaded.reset
Wanted(q) == slots[q].wanted.reset

(* The tokens of a user: in the row, and in the requests under way.        *)
Known(u, t) ==
  /\ t # NoToken
  /\ \/ Exists(u) /\ rows[u].reset = t
     \/ \E q \in Slots : Busy(q) /\ slots[q].user = u /\ t \in {Loaded(q), Wanted(q)}

(* A token made by a request that has not committed.                       *)
Fresh(q) == Busy(q) /\ Wanted(q) \notin {Loaded(q), NoToken}

(* Tokens are numbers of requests so far.                                  *)
Old ==
  /\ \A u \in Users : Exists(u) => rows[u].reset <= requests
  /\ \A q \in Slots : Busy(q) => Loaded(q) <= requests /\ Wanted(q) <= requests
  /\ \A t \in past.spent : t <= requests

(* A token is one user's.                                                  *)
Owned == \A u, v \in Users : \A t \in Nat : Known(u, t) /\ Known(v, t) => u = v

(* The token of a row was not used or replaced.                            *)
Live == /\ NoToken \notin past.spent
        /\ past.raced \subseteq past.spent
        /\ \A u \in Users : Exists(u) => rows[u].reset \notin past.spent

(* A fresh token is nowhere but in its request.                            *)
Apart(q) ==
  /\ Wanted(q) \notin past.spent
  /\ \A u \in Users : Exists(u) => rows[u].reset # Wanted(q)
  /\ \A p \in Slots : Busy(p) => Loaded(p) # Wanted(q)
  /\ \A p \in Slots \ {q} : Busy(p) => Wanted(p) # Wanted(q)

FreshApart == \A q \in Slots : Fresh(q) => Apart(q)

TokenInv == Old /\ Owned /\ Live /\ FreshApart

(* No slot, and no row, has a token it did not have.                       *)
Less ==
  /\ \A q \in Slots : Busy(q)' => /\ Busy(q)
                                  /\ slots'[q].user = slots[q].user
                                  /\ slots'[q].loaded = slots[q].loaded
                                  /\ slots'[q].wanted = slots[q].wanted
  /\ \A u \in Users : Exists(u)' => \/ rows'[u].reset = NoToken
                                    \/ Exists(u) /\ rows'[u].reset = rows[u].reset
  /\ past'.spent = past.spent /\ past'.raced = past.raced
  /\ requests' \in Nat /\ requests <= requests'

LEMMA LessKnown ==
  ASSUME Less, NEW u \in Users, NEW t \in Nat, Known(u, t)'
  PROVE  Known(u, t)
<1>1. CASE Exists(u)' /\ rows'[u].reset = t
  BY <1>1 DEF Less, Known
<1>2. ASSUME NEW q \in Slots, Busy(q)', slots'[q].user = u, t \in {Loaded(q), Wanted(q)}'
      PROVE  Known(u, t)
  BY <1>2 DEF Less, Known, Loaded, Wanted
<1> QED
  BY <1>1, <1>2 DEF Known

LEMMA LessTokens ==
  ASSUME Shape, TokenInv, Less
  PROVE  TokenInv'
<1>1. Old'
  <2>1. requests \in Nat /\ requests' \in Nat /\ requests <= requests'
    BY DEF Shape, Less
  <2>2. ASSUME NEW u \in Users, Exists(u)'
        PROVE  rows'[u].reset <= requests'
    <3>1. CASE rows'[u].reset = NoToken
      BY <2>1, <3>1 DEF NoToken
    <3>2. CASE Exists(u) /\ rows'[u].reset = rows[u].reset
      <4>1. rows[u].reset \in Nat /\ rows[u].reset <= requests
        BY <3>2, ThereIs DEF TokenInv, Old, Row
      <4> QED
        BY <2>1, <3>2, <4>1
    <3> QED
      BY <2>2, <3>1, <3>2 DEF Less
  <2>3. ASSUME NEW q \in Slots, Busy(q)'
        PROVE  Loaded(q)' <= requests' /\ Wanted(q)' <= requests'
    <3>1. Busy(q) /\ Loaded(q)' = Loaded(q) /\ Wanted(q)' = Wanted(q)
      BY <2>3 DEF Less, Loaded, Wanted
    <3>2. Loaded(q) \in Nat /\ Wanted(q) \in Nat
      BY <3>1 DEF Shape, Placed, Row, Loaded, Wanted
    <3>3. Loaded(q) <= requests /\ Wanted(q) <= requests
      BY <3>1 DEF TokenInv, Old
    <3> QED
      BY <2>1, <3>1, <3>2, <3>3
  <2>4. ASSUME NEW t \in past'.spent
        PROVE  t <= requests'
    <3>1. t \in past.spent /\ t \in Nat
      BY DEF Less, Shape, PastSet
    <3>2. t <= requests
      BY <3>1 DEF TokenInv, Old
    <3> QED
      BY <2>1, <3>1, <3>2
  <2> QED
    BY <2>2, <2>3, <2>4 DEF Old
<1>2. Owned'
  BY LessKnown DEF TokenInv, Owned
<1>3. Live'
  BY DEF TokenInv, Live, Less
<1>4. FreshApart'
  <2> SUFFICES ASSUME NEW q \in Slots, Fresh(q)' PROVE Apart(q)'
    BY DEF FreshApart
  <2>1. Busy(q)' /\ Wanted(q)' = Wanted(q) /\ Loaded(q)' = Loaded(q)
    BY DEF Fresh, Less, Wanted, Loaded
  <2>2. Fresh(q) /\ Apart(q) /\ Wanted(q) # NoToken
    BY <2>1 DEF Fresh, Less, TokenInv, FreshApart
  <2>3. \A u \in Users : Exists(u)' => rows'[u].reset # Wanted(q)
    BY <2>2 DEF Apart, Less
  <2>4. \A p \in Slots : Busy(p)' => /\ Loaded(p)' # Wanted(q)
                                     /\ p # q => Wanted(p)' # Wanted(q)
    BY <2>2 DEF Apart, Less, Loaded, Wanted
  <2> QED
    BY <2>1, <2>2, <2>3, <2>4 DEF Apart, Less
<1> QED
  BY <1>1, <1>2, <1>3, <1>4 DEF TokenInv

LEMMA EndsLess ==
  ASSUME Shape, NEW r \in Slots, Ends(r), past'.spent = past.spent,
         past'.raced = past.raced, UNCHANGED <<rows, requests>>
  PROVE  Less
<1>1. requests' \in Nat /\ requests <= requests'
  BY DEF Shape
<1> QED
  BY <1>1, EndedSlots DEF Less, Busy, Exists

LEMMA SlotsSameLess ==
  ASSUME Shape, past'.spent = past.spent, past'.raced = past.raced,
         UNCHANGED <<rows, slots, requests>>
  PROVE  Less
<1>1. requests' \in Nat /\ requests <= requests'
  BY DEF Shape
<1> QED
  BY <1>1 DEF Less, Busy, Exists

(* A row is loaded, and its token kept, cleared, or replaced by a new one. *)
LEMMA TakesTokens ==
  ASSUME Shape, TokenInv, NEW r \in Slots, NEW u \in Users, NEW place, NEW wanted \in Row,
         NEW n, Takes(r, place, u, wanted, n), rows[u] \in Row,
         requests' \in Nat, requests <= requests',
         \/ wanted.reset \in {rows[u].reset, NoToken}
         \/ wanted.reset = requests + 1 /\ requests' = requests + 1,
         rows' = rows, past'.spent = past.spent, past'.raced = past.raced
  PROVE  TokenInv'
<1> DEFINE new == wanted.reset
<1>0. /\ Loaded(r)' = rows[u].reset /\ Wanted(r)' = new /\ slots'[r].user = u
      /\ \A q \in Slots \ {r} : /\ Loaded(q)' = Loaded(q) /\ Wanted(q)' = Wanted(q)
                                /\ slots'[q].user = slots[q].user
                                /\ Busy(q)' = Busy(q)
  BY TakenSlots DEF Loaded, Wanted, Busy
<1>1. /\ new \in Nat /\ rows[u].reset \in Nat /\ requests \in Nat /\ Exists(u)
      /\ \A v \in Users : Exists(v) => rows[v].reset \in Nat
      /\ \A q \in Slots : Busy(q) => Loaded(q) \in Nat /\ Wanted(q) \in Nat
      /\ past.spent \subseteq Nat
      /\ \A v \in Users : Exists(v)' = Exists(v)
  BY ThereIs DEF Shape, Row, Placed, Loaded, Wanted, PastSet, Exists
<1> HIDE DEF new
<1>2. new \in {rows[u].reset, NoToken} \/ (new = requests + 1 /\ requests' = requests + 1)
  BY DEF new
<1>3. /\ rows[u].reset <= requests
      /\ \A v \in Users : Exists(v) => rows[v].reset <= requests
      /\ \A q \in Slots : Busy(q) => Loaded(q) <= requests /\ Wanted(q) <= requests
      /\ \A t \in past.spent : t <= requests
  BY <1>1 DEF TokenInv, Old
<1>4. new <= requests'
  BY <1>1, <1>2, <1>3 DEF NoToken
<1>5. Old'
  <2>1. \A v \in Users : Exists(v)' => rows'[v].reset <= requests'
    BY <1>1, <1>3
  <2>2. ASSUME NEW q \in Slots, Busy(q)'
        PROVE  Loaded(q)' <= requests' /\ Wanted(q)' <= requests'
    <3>1. CASE q = r
      BY <1>0, <1>1, <1>3, <1>4, <3>1
    <3>2. CASE q # r
      BY <1>0, <1>1, <1>3, <2>2, <3>2
    <3> QED
      BY <3>1, <3>2
  <2>3. \A t \in past'.spent : t <= requests'
    BY <1>1, <1>3
  <2> QED
    BY <2>1, <2>2, <2>3 DEF Old
(* What is known now was known, or is the new token of the user.           *)
<1>6. ASSUME NEW v \in Users, NEW t \in Nat, Known(v, t)'
      PROVE  Known(v, t) \/ (v = u /\ t = requests + 1)
  <2>1. CASE Exists(v)' /\ rows'[v].reset = t
    BY <1>1, <1>6, <2>1 DEF Known
  <2>2. ASSUME NEW q \in Slots, Busy(q)', slots'[q].user = v,
               t \in {Loaded(q), Wanted(q)}'
        PROVE  Known(v, t) \/ (v = u /\ t = requests + 1)
    <3>1. CASE q = r
      BY <1>0, <1>1, <1>2, <1>6, <2>2, <3>1 DEF Known
    <3>2. CASE q # r
      BY <1>0, <1>6, <2>2, <3>2 DEF Known
    <3> QED
      BY <3>1, <3>2
  <2> QED
    BY <1>6, <2>1, <2>2 DEF Known
<1>7. ASSUME NEW v \in Users, NEW t \in Nat, Known(v, t)
      PROVE  t <= requests
  BY <1>3, <1>7 DEF Known
<1>8. Owned'
  <2> SUFFICES ASSUME NEW a \in Users, NEW b \in Users, NEW t \in Nat,
                      Known(a, t)', Known(b, t)'
               PROVE  a = b
    BY DEF Owned
  <2>1. CASE t = requests + 1
    <3>1. ~ (t <= requests)
      BY <1>1, <2>1
    <3> QED
      BY <1>6, <1>7, <3>1
  <2>2. CASE t # requests + 1
    BY <1>6, <2>2 DEF TokenInv, Owned
  <2> QED
    BY <2>1, <2>2
<1>9. Live'
  BY <1>1 DEF TokenInv, Live
<1>10. FreshApart'
  <2> SUFFICES ASSUME NEW q \in Slots, Fresh(q)' PROVE Apart(q)'
    BY DEF FreshApart
  <2>1. CASE q = r
    <3>1. new = requests + 1
      BY <1>0, <1>2, <2>1 DEF Fresh
    <3>2. /\ new \notin past.spent
          /\ \A v \in Users : Exists(v) => rows[v].reset # new
          /\ \A p \in Slots : Busy(p) => Loaded(p) # new /\ Wanted(p) # new
          /\ rows[u].reset # new
      BY <1>1, <1>3, <3>1
    <3> QED
      BY <1>0, <1>1, <2>1, <3>2 DEF Apart
  <2>2. CASE q # r
    <3>1. Fresh(q) /\ Wanted(q)' = Wanted(q)
      BY <1>0, <2>2 DEF Fresh
    <3>2. Apart(q) /\ Wanted(q) # NoToken /\ Wanted(q) <= requests /\ Wanted(q) \in Nat
      BY <1>1, <1>3, <3>1 DEF TokenInv, FreshApart, Fresh
    <3>3. rows[u].reset # Wanted(q)
      BY <1>1, <3>2 DEF Apart
    <3>4. new # Wanted(q)
      BY <1>1, <1>2, <3>2, <3>3
    <3> QED
      BY <1>0, <1>1, <2>2, <3>1, <3>2, <3>3, <3>4 DEF Apart
  <2> QED
    BY <2>1, <2>2
<1> QED
  BY <1>5, <1>8, <1>9, <1>10 DEF TokenInv

LEMMA CommitTokens ==
  ASSUME Base, TokenInv, NEW r \in Slots, Commit(r)
  PROVE  TokenInv'
<1> DEFINE u == slots[r].user
           new == New(r).reset
           was == rows[u].reset
<1>0. /\ Shape /\ Wants(r)
      /\ Busy(r) /\ Placed(r) /\ Ends(r) /\ requests' = requests
      /\ rows' = [rows EXCEPT ![u] = New(r)] /\ New(r) \in Row
  BY CommitKinds, NewRowOf DEF Base, Shape, Busy, Writing
<1>1. /\ u \in Users /\ Exists(u) /\ was \in Nat /\ new \in Nat /\ requests \in Nat
      /\ Loaded(r) \in Nat /\ Wanted(r) \in Nat
      /\ past.spent \subseteq Nat
      /\ new = IF Wanted(r) # Loaded(r) THEN Wanted(r) ELSE was
  BY <1>0, ThereIs, NewRowOf DEF Placed, Shape, PastSet, Row, Loaded, Wanted
<1>2. /\ past'.spent \subseteq past.spent \cup ({was, Loaded(r)} \ {NoToken, new})
      /\ past'.raced \subseteq past'.spent
  <2>1. slots[r].at = "resetting" => new = NoToken
    BY <1>0, <1>1 DEF Wants, Loaded, Wanted
  <2>2. Spends(r) \subseteq {was, Loaded(r)} \ {NoToken, new}
    BY <2>1 DEF Spends, Uses, Loaded
  <2>3. /\ past'.spent = past.spent \cup Spends(r)
        /\ past'.raced = past.raced \cup (Spends(r) \cap InHands(r))
    BY <1>0, CommitPast
  <2> QED
    BY <2>2, <2>3 DEF TokenInv, Live
<1>3. /\ rows'[u].reset = new
      /\ \A v \in Users : v # u => rows'[v] = rows[v] /\ Exists(v)' = Exists(v)
  <2>1. rows'[u] = New(r) /\ \A v \in Users : v # u => rows'[v] = rows[v]
    BY <1>0, <1>1 DEF Shape
  <2>2. rows'[u].reset = new
    BY <2>1
  <2>3. ASSUME NEW v \in Users, v # u
        PROVE  rows'[v] = rows[v] /\ Exists(v)' = Exists(v)
    BY <2>1, <2>3 DEF Exists
  <2> QED
    BY <2>2, <2>3
<1>4. /\ ~Busy(r)'
      /\ \A q \in Slots : q # r => /\ Busy(q)' = Busy(q)
                                   /\ slots'[q].user = slots[q].user
                                   /\ Loaded(q)' = Loaded(q)
                                   /\ Wanted(q)' = Wanted(q)
  BY <1>0, EndedSlots DEF Busy, Loaded, Wanted
<1> HIDE DEF new, was, u
<1>5. Known(u, was) \/ was = NoToken
  BY <1>1 DEF Known, was
<1>6. Known(u, Loaded(r)) \/ Loaded(r) = NoToken
  BY <1>0 DEF Known, u
<1>7. Known(u, new) \/ new = NoToken
  <2>1. Known(u, Wanted(r)) \/ Wanted(r) = NoToken
    BY <1>0 DEF Known, u
  <2> QED
    BY <1>1, <1>5, <2>1
<1>8. /\ \A v \in Users : Exists(v) => rows[v].reset <= requests
      /\ \A q \in Slots : Busy(q) => Loaded(q) <= requests /\ Wanted(q) <= requests
      /\ \A t \in past.spent : t <= requests
  BY DEF TokenInv, Old
<1>9. was <= requests /\ Loaded(r) <= requests /\ new <= requests
  BY <1>0, <1>1, <1>8 DEF was
<1>10. Old'
  <2>1. \A v \in Users : Exists(v)' => rows'[v].reset <= requests'
    <3> SUFFICES ASSUME NEW v \in Users, Exists(v)' PROVE rows'[v].reset <= requests'
      OBVIOUS
    <3>1. CASE v = u
      BY <1>0, <1>3, <1>9, <3>1
    <3>2. CASE v # u
      BY <1>0, <1>3, <1>8, <3>2
    <3> QED
      BY <3>1, <3>2
  <2>2. \A q \in Slots : Busy(q)' => Loaded(q)' <= requests' /\ Wanted(q)' <= requests'
    BY <1>0, <1>4, <1>8
  <2>3. \A t \in past'.spent : t <= requests'
    BY <1>0, <1>2, <1>8, <1>9
  <2> QED
    BY <2>1, <2>2, <2>3 DEF Old
<1>11. ASSUME NEW v \in Users, NEW t \in Nat, Known(v, t)'
       PROVE  Known(v, t)
  <2>1. CASE Exists(v)' /\ rows'[v].reset = t
    <3>1. CASE v = u
      BY <1>3, <1>7, <1>11, <2>1, <3>1 DEF Known
    <3>2. CASE v # u
      BY <1>3, <1>11, <2>1, <3>2 DEF Known
    <3> QED
      BY <3>1, <3>2
  <2>2. ASSUME NEW q \in Slots, Busy(q)', slots'[q].user = v,
               t \in {Loaded(q), Wanted(q)}'
        PROVE  Known(v, t)
    BY <1>4, <1>11, <2>2 DEF Known
  <2> QED
    BY <1>11, <2>1, <2>2 DEF Known
<1>12. Owned'
  BY <1>11 DEF TokenInv, Owned
(* The new token of the row is the one it had, or a fresh one.             *)
<1>13. new \notin past'.spent
  <2>1. new \notin past.spent
    <3>1. CASE Wanted(r) = Loaded(r)
      BY <1>1, <3>1 DEF TokenInv, Live, was
    <3>2. CASE Wanted(r) # Loaded(r) /\ Wanted(r) = NoToken
      BY <1>1, <3>2 DEF TokenInv, Live
    <3>3. CASE Wanted(r) # Loaded(r) /\ Wanted(r) # NoToken
      BY <1>0, <1>1, <3>3 DEF TokenInv, FreshApart, Fresh, Apart
    <3> QED
      BY <3>1, <3>2, <3>3
  <2> QED
    BY <1>2, <2>1
<1>14. Live'
  <2>1. NoToken \notin past'.spent
    BY <1>2 DEF TokenInv, Live
  <2>2. ASSUME NEW v \in Users, Exists(v)'
        PROVE  rows'[v].reset \notin past'.spent
    <3>1. CASE v = u
      BY <1>3, <1>13, <3>1
    <3>2. CASE v # u
      <4>1. Exists(v) /\ rows'[v] = rows[v] /\ rows[v].reset \in Nat
        BY <1>0, <1>3, <2>2, <3>2, ThereIs DEF Row
      <4>2. rows[v].reset \notin past.spent
        BY <4>1 DEF TokenInv, Live
      <4>3. rows[v].reset # NoToken => Known(v, rows[v].reset)
        BY <4>1 DEF Known
      <4>4. rows[v].reset # NoToken => rows[v].reset # was /\ rows[v].reset # Loaded(r)
        BY <1>1, <1>5, <1>6, <3>2, <4>1, <4>3 DEF TokenInv, Owned
      <4> QED
        BY <1>2, <4>1, <4>2, <4>4
    <3> QED
      BY <3>1, <3>2
  <2> QED
    BY <1>2, <2>1, <2>2 DEF Live
<1>15. FreshApart'
  <2> SUFFICES ASSUME NEW q \in Slots, Fresh(q)' PROVE Apart(q)'
    BY DEF FreshApart
  <2>1. q # r /\ Wanted(q)' = Wanted(q) /\ Fresh(q)
    BY <1>4 DEF Fresh
  <2>2. Apart(q) /\ Wanted(q) # NoToken
    BY <2>1 DEF TokenInv, FreshApart, Fresh
  <2>3. Wanted(q) # was /\ Wanted(q) # Loaded(r) /\ Wanted(q) # Wanted(r)
    BY <1>0, <1>1, <2>1, <2>2 DEF Apart, was
  <2>4. Wanted(q) # new
    BY <1>1, <2>3
  <2>5. Wanted(q) \notin past'.spent
    BY <1>2, <2>2, <2>3 DEF Apart
  <2>6. \A v \in Users : Exists(v)' => rows'[v].reset # Wanted(q)
    <3> SUFFICES ASSUME NEW v \in Users, Exists(v)' PROVE rows'[v].reset # Wanted(q)
      OBVIOUS
    <3>1. CASE v = u
      BY <1>3, <2>4, <3>1
    <3>2. CASE v # u
      BY <1>3, <2>2, <3>2 DEF Apart
    <3> QED
      BY <3>1, <3>2
  <2>7. \A p \in Slots : Busy(p)' => /\ Loaded(p)' # Wanted(q)
                                     /\ p # q => Wanted(p)' # Wanted(q)
    BY <1>4, <2>2 DEF Apart
  <2> QED
    BY <2>1, <2>5, <2>6, <2>7 DEF Apart
<1> QED
  BY <1>10, <1>12, <1>14, <1>15 DEF TokenInv

LEMMA NextTokens ==
  ASSUME Base, TokenInv, [Next]_vars
  PROVE  TokenInv'
<1>0. Shape
  BY DEF Base
<1>1. ASSUME NEW r \in Slots, NEW u \in Users, NEW place, NEW wanted,
             Begun(r, u, place, wanted)
      PROVE  TokenInv'
  <2>1. requests' \in Nat /\ requests <= requests' /\ requests' = requests + 1
    BY <1>0, <1>1 DEF Begun, Shape
  <2>2. /\ Takes(r, place, u, wanted, 0) /\ rows[u] \in Row /\ wanted \in Row
        /\ wanted.reset \in {rows[u].reset, NoToken, requests + 1}
        /\ rows' = rows /\ past' = past
    BY <1>1 DEF Begun, Keeps
  <2> QED
    BY <1>0, <2>1, <2>2, TakesTokens
<1>2. ASSUME NEW r \in Slots, CheckWallet(r)
      PROVE  TokenInv'
  <2>1. UNCHANGED <<rows, requests>>
    BY <1>2, CheckWalletKinds
  <2>2. CASE Ends(r) /\ UNCHANGED past
    BY <1>0, <2>1, <2>2, EndsLess, LessTokens
  <2>3. CASE Claimed(r)
    <3>1. /\ past'.spent = past.spent /\ past'.raced = past.raced
          /\ requests' \in Nat /\ requests <= requests'
      BY <1>0, <2>1, <2>3 DEF Claimed, Shape, PastSet
    <3>2. Less
      BY <1>0, <2>1, <2>3, <3>1, ClaimedSlots DEF Less, Busy, Exists, Claimed
    <3> QED
      BY <1>0, <3>2, LessTokens
  <2> QED
    BY <1>2, <2>2, <2>3, CheckWalletKinds
<1>3. ASSUME NEW r \in Slots, NEW n \in DOMAIN events, Deliver(r, n)
      PROVE  TokenInv'
  <2>1. /\ UNCHANGED <<rows, requests>>
        /\ past'.spent = past.spent /\ past'.raced = past.raced
    BY <1>0, <1>3, DeliverKinds, RemembersPast DEF Remembers
  <2>2. CASE UNCHANGED slots
    BY <1>0, <2>1, <2>2, SlotsSameLess, LessTokens
  <2>3. ASSUME NEW u \in Concerned(events[n]),
               Takes(r, "ready", u, Updated(events[n], rows[u]), n)
        PROVE  TokenInv'
    <3>1. /\ u \in Users /\ rows[u] \in Row
          /\ Updated(events[n], rows[u]) \in Row
          /\ Updated(events[n], rows[u]).reset = rows[u].reset
      BY <1>0, ConcernedRow, UpdatedRow
    <3>2. requests' \in Nat /\ requests <= requests'
      BY <1>0, <2>1 DEF Shape
    <3> QED
      BY <1>0, <2>1, <2>3, <3>1, <3>2, TakesTokens
  <2> QED
    BY <1>3, <2>2, <2>3, DeliverKinds
<1>4. ASSUME NEW r \in Slots, Lose(r)
      PROVE  TokenInv'
  BY <1>0, <1>4, EndsLess, LessTokens DEF Lose
<1>5. ASSUME NEW u \in Users, NEW plan \in Plans, NEW position \in Nat,
             Registered(u, plan, position)
      PROVE  TokenInv'
  <2>1. /\ past'.spent = past.spent /\ past'.raced = past.raced
        /\ requests' \in Nat /\ requests <= requests'
    BY <1>0, <1>5, GrantedPast DEF Registered, Shape
  <2>2. ASSUME NEW v \in Users, Exists(v)'
        PROVE  rows'[v].reset = NoToken \/ (Exists(v) /\ rows'[v].reset = rows[v].reset)
    <3>1. CASE v = u
      BY <1>0, <1>5, <3>1, NewRowShape DEF Registered, Shape
    <3>2. CASE v # u
      BY <1>0, <1>5, <2>2, <3>2 DEF Registered, Shape, Exists
    <3> QED
      BY <3>1, <3>2
  <2>3. Less
    BY <1>5, <2>1, <2>2 DEF Less, Registered, Busy
  <2> QED
    BY <1>0, <2>3, LessTokens
<1>6. ASSUME NEW s \in Subs, NEW plan, NEW status, Moves(s, plan, status)
      PROVE  TokenInv'
  BY <1>0, <1>6, MovesPast, SlotsSameLess, LessTokens DEF Moves
<1>7. ASSUME NEW u \in Users, NEW s \in Subs, NEW plan \in Plans, Opened(u, s, plan)
      PROVE  TokenInv'
  BY <1>0, <1>7, SlotsSameLess, LessTokens DEF Opened
<1>8. CASE Still
  BY <1>0, <1>8, SlotsSameLess, LessTokens DEF Still
<1>9. ASSUME NEW u \in Users, Reactivated(u)
      PROVE  TokenInv'
  <2>1. UNCHANGED <<slots, requests, past>> /\ requests \in Nat
    BY <1>0, <1>9 DEF Reactivated, Shape
  <2>2. \A v \in Users : Exists(v)' => Exists(v) /\ rows'[v].reset = rows[v].reset
    BY <1>0, <1>9, ReactivatedRows, ThereIs
  <2>3. Less
    BY <2>1, <2>2 DEF Less, Busy
  <2> QED
    BY <1>0, <2>3, LessTokens
<1> QED
  BY <1>0, <1>1, <1>2, <1>3, <1>4, <1>5, <1>6, <1>7, <1>8, <1>9,
     AccountsAssumption, NextKinds, CommitTokens

LEMMA InitTokens == Init => Base /\ TokenInv
<1> SUFFICES ASSUME Init PROVE TokenInv
  BY InitBase
<1>1. (\A u \in Users : ~Exists(u)) /\ (\A q \in Slots : ~Busy(q))
  BY DEF Init, Exists, Busy, Free
<1>2. past.spent = {} /\ past.raced = {}
  BY DEF Init, Nothing
<1> QED
  BY <1>1, <1>2 DEF TokenInv, Old, Owned, Known, Live, FreshApart, Fresh

(* A reset token that was used, or replaced by a newer one, never comes    *)
(* back into a row, whatever requests had loaded the row before.           *)
THEOREM SpentTokensStaySpent == Spec => []SpentStaysSpent
<1>1. Init => Base /\ TokenInv
  BY InitTokens
<1>2. Base /\ TokenInv /\ [Next]_vars => (Base /\ TokenInv)'
  BY NextBase, NextTokens
<1>3. TokenInv => SpentStaysSpent
  BY DEF TokenInv, Live, SpentStaysSpent
<1> QED
  BY <1>1, <1>2, <1>3, PTL DEF Spec

(* A request that sets a password, with a token that is spent meanwhile,   *)
(* had found the token before it was.                                      *)
Found(q) ==
  slots[q].at = "resetting" /\ Loaded(q) \in past.spent => Loaded(q) \in past.raced

LEMMA SameSlotFound ==
  ASSUME NEW q \in Slots, Found(q),
         slots'[q] = slots[q] \/ slots'[q].at # "resetting",
         past'.spent = past.spent, past'.raced = past.raced
  PROVE  Found(q)'
BY DEF Found, Loaded

LEMMA CommitFound ==
  ASSUME Shape, NEW r \in Slots, Commit(r), NEW q \in Slots, Found(q)
  PROVE  Found(q)'
<1>1. /\ Ends(r)
      /\ past'.spent = past.spent \cup Spends(r)
      /\ past'.raced = past.raced \cup (Spends(r) \cap InHands(r))
  BY CommitKinds, CommitPast
<1>2. CASE q = r
  BY <1>1, <1>2, EndedSlots DEF Found
<1>3. CASE q # r
  <2>1. slots'[q] = slots[q]
    BY <1>1, <1>3, EndedSlots
  <2>2. slots[q].at = "resetting" => Loaded(q) \in InHands(r)
    BY <1>3 DEF InHands, Uses, Loaded
  <2> QED
    BY <1>1, <2>1, <2>2 DEF Found, Loaded
<1> QED
  BY <1>2, <1>3

LEMMA NextFound ==
  ASSUME Base, TokenInv, [Next]_vars, NEW q \in Slots, Found(q)
  PROVE  Found(q)'
<1>0. Shape
  BY DEF Base
<1>1. ASSUME NEW r \in Slots, NEW u \in Users, NEW place, NEW wanted,
             Begun(r, u, place, wanted)
      PROVE  Found(q)'
  <2>1. past' = past /\ rows[u] \in Row /\ Takes(r, place, u, wanted, 0)
    BY <1>1 DEF Begun
  <2>2. CASE q = r
    <3>1. Loaded(q)' = rows[u].reset
      BY <1>0, <2>1, <2>2, TakenSlots DEF Loaded
    <3>2. rows[u].reset \notin past.spent
      BY <1>0, <2>1, ThereIs DEF TokenInv, Live
    <3> QED
      BY <2>1, <3>1, <3>2 DEF Found
  <2>3. CASE q # r
    BY <1>0, <2>1, <2>3, TakenSlots, SameSlotFound
  <2> QED
    BY <2>2, <2>3
<1>2. ASSUME NEW r \in Slots, CheckWallet(r)
      PROVE  Found(q)'
  <2>1. CASE Ends(r) /\ UNCHANGED past
    BY <1>0, <2>1, EndedSlots, SameSlotFound
  <2>2. CASE Claimed(r)
    <3>1. past'.spent = past.spent /\ past'.raced = past.raced
      BY <1>0, <2>2 DEF Claimed, Shape, PastSet
    <3> QED
      BY <1>0, <2>2, <3>1, ClaimedSlots, SameSlotFound
  <2> QED
    BY <1>2, <2>1, <2>2, CheckWalletKinds
<1>3. ASSUME NEW r \in Slots, NEW n \in DOMAIN events, Deliver(r, n)
      PROVE  Found(q)'
  <2>1. past'.spent = past.spent /\ past'.raced = past.raced
    BY <1>0, <1>3, DeliverKinds, RemembersPast
  <2>2. slots'[q] = slots[q] \/ slots'[q].at # "resetting"
    BY <1>0, <1>3, DeliverKinds, TakenSlots
  <2> QED
    BY <2>1, <2>2, SameSlotFound
<1>4. ASSUME NEW r \in Slots, Lose(r)
      PROVE  Found(q)'
  BY <1>0, <1>4, EndedSlots, SameSlotFound DEF Lose
<1>5. CASE UNCHANGED slots /\ past'.spent = past.spent /\ past'.raced = past.raced
  BY <1>5, SameSlotFound
<1>6. ASSUME NEW u \in Users, NEW plan \in Plans, NEW position \in Nat,
             Registered(u, plan, position)
      PROVE  Found(q)'
  BY <1>0, <1>5, <1>6, GrantedPast DEF Registered
<1>7. ASSUME NEW s \in Subs, NEW plan, NEW status, Moves(s, plan, status)
      PROVE  Found(q)'
  BY <1>0, <1>5, <1>7, MovesPast DEF Moves
<1>8. ASSUME NEW u \in Users, NEW s \in Subs, NEW plan \in Plans, Opened(u, s, plan)
      PROVE  Found(q)'
  BY <1>5, <1>8 DEF Opened
<1>9. ASSUME NEW u \in Users, Reactivated(u)
      PROVE  Found(q)'
  BY <1>5, <1>9 DEF Reactivated
<1>10. CASE Still
  BY <1>5, <1>10 DEF Still
<1> QED
  BY <1>0, <1>1, <1>2, <1>3, <1>4, <1>6, <1>7, <1>8, <1>9, <1>10,
     AccountsAssumption, NextKinds, CommitFound

(* The token of a link sets a password that is written only once, and not  *)
(* at all when a newer one has replaced it, but for requests that had found*)
(* it in time.                                                             *)
THEOREM LinksSetOnePassword == Spec => LinkSetsOnePassword
<1> DEFINE AllFound == \A q \in Slots : Found(q)
<1>1. Init => Base /\ TokenInv /\ AllFound
  <2>1. ASSUME Init PROVE AllFound
    BY <2>1 DEF Init, Found, Free
  <2> QED
    BY <2>1, InitTokens
<1>2. Base /\ TokenInv /\ AllFound /\ [Next]_vars => (Base /\ TokenInv /\ AllFound)'
  <2> SUFFICES ASSUME Base, TokenInv, AllFound, [Next]_vars
               PROVE  (Base /\ TokenInv)' /\ \A q \in Slots : Found(q)'
    OBVIOUS
  <2> QED
    BY NextBase, NextTokens, NextFound
<1>3. AllFound /\ [Next]_vars
        => [\A r \in Slots :
              Resets(r) => slots[r].loaded.reset \notin past.spent \ past.raced]_vars
  BY DEF Resets, Found, Loaded
<1> HIDE DEF AllFound
<1> QED
  BY <1>1, <1>2, <1>3, PTL DEF Spec, LinkSetsOnePassword

------------------------------------------------------------------------------
(* Checks.                                                                 *)

LEMMA UpdatedUnchecked ==
  ASSUME NEW e \in EventSet, NEW l \in Row
  PROVE  Unchecked(l, Updated(e, l))
BY DEF Updated, Row, Unchecked

(* The write of a request whose checks allowed what it wants.              *)
LEMMA WrittenAllowed ==
  ASSUME NEW row \in Row, NEW l \in Row, NEW wanted \in Row, Allowed(l, l, wanted)
  PROVE  Allowed(l, row, Written(row, l, wanted))
<1> DEFINE new == Written(row, l, wanted)
<1>1. /\ new.trade = IF wanted.trade # l.trade THEN wanted.trade ELSE row.trade
      /\ new.position = IF wanted.position # l.position THEN wanted.position
                                                        ELSE row.position
      /\ new.pairs = IF wanted.pairs # l.pairs THEN wanted.pairs ELSE row.pairs
      /\ new.active = IF wanted.active # l.active THEN wanted.active ELSE row.active
  BY DEF Written, Row
<1> HIDE DEF new
<1>2. (new.trade # row.trade /\ new.trade = "futures") => ~SpotOnly(l.plan)
  BY <1>1 DEF Allowed
<1>3. new.position # row.position => new.position <= MaxPosition(l.plan)
  BY <1>1 DEF Allowed
<1>4. new.pairs # row.pairs => new.pairs <= MaxPairs(l.plan)
  BY <1>1 DEF Allowed
<1>5. (new.active /\ ~row.active /\ l.mode = "live") => l.keys # NoKeys
  <2> SUFFICES ASSUME new.active, ~row.active, l.mode = "live"
               PROVE  l.keys # NoKeys
    OBVIOUS
  <2>1. wanted.active /\ ~l.active
    BY <1>1 DEF Row
  <2> QED
    BY <2>1 DEF Allowed
<1> QED
  BY <1>2, <1>3, <1>4, <1>5 DEF Allowed, new

(* Checks of a row that is judged as the row written allow the same.       *)
LEMMA SameJudged ==
  ASSUME NEW l, NEW row, NEW new, Judged(l) = Judged(row), Allowed(l, row, new)
  PROVE  Allowed(row, row, new)
<1>1. l.plan = row.plan /\ l.mode = row.mode /\ (l.keys = NoKeys) = (row.keys = NoKeys)
  BY DEF Judged
<1>2. (l.keys # NoKeys) <=> (row.keys # NoKeys)
  BY <1>1, Zenon
<1>3. (new.trade # row.trade /\ new.trade = "futures") => ~SpotOnly(row.plan)
  BY <1>1 DEF Allowed
<1>4. new.position # row.position => new.position <= MaxPosition(row.plan)
  BY <1>1 DEF Allowed
<1>5. new.pairs # row.pairs => new.pairs <= MaxPairs(row.plan)
  BY <1>1 DEF Allowed
<1>6. (new.active /\ ~row.active /\ row.mode = "live") => row.keys # NoKeys
  BY <1>1, <1>2 DEF Allowed
<1> QED
  BY <1>3, <1>4, <1>5, <1>6, Zenon DEF Allowed

(* The write of a request that wants nothing that is checked.              *)
LEMMA WrittenUnchecked ==
  ASSUME NEW row \in Row, NEW l \in Row, NEW wanted \in Row, Unchecked(l, wanted)
  PROVE  Allowed(row, row, Written(row, l, wanted))
<1> DEFINE new == Written(row, l, wanted)
<1>1. /\ new.trade = row.trade /\ new.position = row.position
      /\ new.pairs = row.pairs /\ new.active = row.active
  BY DEF Written, Row, Unchecked
<1> HIDE DEF new
<1> QED
  BY <1>1 DEF Allowed, new

(* What a request wants, its checks have allowed, or is not for checks; or *)
(* the request comes by the debug route.                                   *)
Checked(q) ==
  Busy(q) =>
    \/ slots[q].at = "ready" /\ Allowed(slots[q].loaded, slots[q].loaded, slots[q].wanted)
    \/ Unchecked(slots[q].loaded, slots[q].wanted)
    \/ slots[q].at = "forced"

LEMMA TakesChecked ==
  ASSUME Shape, NEW r \in Slots, NEW u, NEW place, NEW wanted, NEW n,
         Takes(r, place, u, wanted, n), NEW q \in Slots, Checked(q),
         \/ place = "ready" /\ Allowed(rows[u], rows[u], wanted)
         \/ Unchecked(rows[u], wanted)
         \/ place = "forced"
  PROVE  Checked(q)'
<1>1. CASE q = r
  BY <1>1, TakenSlots DEF Checked
<1>2. CASE q # r
  BY <1>2, TakenSlots DEF Checked, Busy
<1> QED
  BY <1>1, <1>2

LEMMA NextChecked ==
  ASSUME Base, [Next]_vars, NEW q \in Slots, Checked(q)
  PROVE  Checked(q)'
<1>0. Shape
  BY DEF Base
<1>1. ASSUME NEW r \in Slots, NEW u \in Users, NEW place, NEW wanted,
             Begun(r, u, place, wanted)
      PROVE  Checked(q)'
  BY <1>0, <1>1, TakesChecked DEF Begun
<1>2. ASSUME NEW r \in Slots, Ends(r)
      PROVE  Checked(q)'
  BY <1>0, <1>2, EndedSlots DEF Checked, Busy
<1>3. ASSUME NEW r \in Slots, Claimed(r)
      PROVE  Checked(q)'
  <2>1. CASE q = r
    BY <1>0, <1>3, <2>1, ClaimedSlots DEF Checked, Claimed, Busy
  <2>2. CASE q # r
    BY <1>0, <1>3, <2>2, ClaimedSlots DEF Checked, Busy
  <2> QED
    BY <2>1, <2>2
<1>4. ASSUME NEW n \in DOMAIN events, NEW r \in Slots, NEW u \in Concerned(events[n]),
             Takes(r, "ready", u, Updated(events[n], rows[u]), n)
      PROVE  Checked(q)'
  BY <1>0, <1>4, ConcernedRow, UpdatedUnchecked, TakesChecked
<1>5. CASE UNCHANGED slots
  BY <1>5 DEF Checked, Busy
<1>6. ASSUME NEW r \in Slots, NEW n \in DOMAIN events, Deliver(r, n)
      PROVE  Checked(q)'
  BY <1>4, <1>5, <1>6, DeliverKinds
<1>7. ASSUME NEW r \in Slots, CheckWallet(r)
      PROVE  Checked(q)'
  BY <1>2, <1>3, <1>7, CheckWalletKinds
<1>8. ASSUME NEW r \in Slots, Commit(r) \/ Lose(r)
      PROVE  Checked(q)'
  BY <1>2, <1>8, CommitKinds DEF Lose
<1> QED
  BY <1>0, <1>1, <1>5, <1>6, <1>7, <1>8, NextKinds
     DEF Registered, Reactivated, Moves, Opened, Still

AllowedStep ==
  \A u \in Users : Exists(u) =>
    \/ Allowed(rows[u], rows[u], rows'[u])
    \/ \E r \in Slots : /\ Commits(r, u)
                        /\ slots[r].at = "forced" \/ Overtaken(r, rows'[u])
    \/ u = Admin /\ \A r \in Slots : slots[r] = Free

LEMMA SameAllowed ==
  ASSUME NEW row \in Row
  PROVE  Allowed(row, row, row)
BY DEF Allowed

LEMMA CommitAllowed ==
  ASSUME Shape, NEW r \in Slots, Commit(r), Checked(r)
  PROVE  AllowedStep
<1>1. /\ Busy(r) /\ Placed(r) /\ slots[r] # Free /\ slots'[r] = Free
      /\ rows' = [rows EXCEPT ![slots[r].user] = New(r)]
  <2>1. Busy(r) /\ Ends(r) /\ rows' = [rows EXCEPT ![slots[r].user] = New(r)]
    BY CommitKinds DEF Busy, Writing
  <2>2. slots[r] # Free
    BY <2>1 DEF Busy, Free
  <2>3. slots'[r] = Free
    BY <2>1 DEF Ends, Shape
  <2> QED
    BY <2>1, <2>2, <2>3 DEF Shape
<1> SUFFICES ASSUME NEW u \in Users, Exists(u)
             PROVE  \/ Allowed(rows[u], rows[u], rows'[u])
                    \/ /\ Commits(r, u)
                       /\ slots[r].at = "forced" \/ Overtaken(r, rows'[u])
  BY DEF AllowedStep
<1>2. CASE u = slots[r].user
  <2> DEFINE l == slots[r].loaded
             wanted == slots[r].wanted
  <2>1. rows'[u] = Written(rows[u], l, wanted)
    BY <1>1, <1>2 DEF Shape, New
  <2>2. rows[u] \in Row /\ l \in Row /\ wanted \in Row
    BY <1>1, <1>2 DEF Placed
  <2>3. Commits(r, u)
    BY <1>1, <1>2 DEF Commits
  <2>4. CASE Unchecked(l, wanted)
    <3> HIDE DEF l, wanted
    <3> QED
      BY <2>1, <2>2, <2>4, WrittenUnchecked
  <2>5. CASE slots[r].at = "ready" /\ Allowed(l, l, wanted)
    <3>1. Allowed(l, rows[u], rows'[u])
      <4> HIDE DEF l, wanted
      <4> QED
        BY <2>1, <2>2, <2>5, WrittenAllowed
    <3>2. CASE Judged(l) = Judged(rows[u])
      <4> HIDE DEF l
      <4> QED
        BY <3>1, <3>2, SameJudged
    <3>3. CASE Judged(l) # Judged(rows[u])
      BY <1>2, <2>3, <2>5, <3>1, <3>3 DEF Overtaken
    <3> QED
      BY <3>2, <3>3
  <2>6. CASE slots[r].at = "forced"
    BY <2>3, <2>6
  <2> QED
    BY <1>1, <2>4, <2>5, <2>6 DEF Checked
<1>3. CASE u # slots[r].user
  <2>1. rows'[u] = rows[u] /\ rows[u] \in Row
    BY <1>1, <1>3, ThereIs DEF Shape
  <2> QED
    BY <2>1, SameAllowed
<1> QED
  BY <1>2, <1>3

LEMMA SameRowsAllowed ==
  ASSUME Shape, \A u \in Users : Exists(u) => rows'[u] = rows[u]
  PROVE  AllowedStep
<1> SUFFICES ASSUME NEW u \in Users, Exists(u)
             PROVE  Allowed(rows[u], rows[u], rows'[u])
  BY DEF AllowedStep
<1>1. rows'[u] = rows[u] /\ rows[u] \in Row
  BY ThereIs
<1> QED
  BY <1>1, SameAllowed

(* Only the admin gets active at the start, when nothing is under way.     *)
LEMMA SeedAllowed ==
  ASSUME Shape, Reactivated(Admin)
  PROVE  AllowedStep
<1> SUFFICES ASSUME NEW u \in Users, Exists(u), u # Admin
             PROVE  Allowed(rows[u], rows[u], rows'[u])
  BY DEF AllowedStep, Reactivated
<1>1. rows'[u] = rows[u] /\ rows[u] \in Row
  BY ThereIs, ReactivatedRows, AccountsAssumption
<1> QED
  BY <1>1, SameAllowed

LEMMA NextAllowed ==
  ASSUME Base, [Next]_vars, \A q \in Slots : Checked(q)
  PROVE  AllowedStep
<1>0. Shape
  BY DEF Base
<1>1. CASE UNCHANGED rows
  BY <1>0, <1>1, SameRowsAllowed
<1>2. ASSUME NEW r \in Slots, Commit(r)
      PROVE  AllowedStep
  BY <1>0, <1>2, CommitAllowed
<1>3. ASSUME NEW v \in Users, NEW plan \in Plans, NEW position \in Nat,
             Registered(v, plan, position)
      PROVE  AllowedStep
  <2>1. \A u \in Users : Exists(u) => rows'[u] = rows[u]
    BY <1>0, <1>3 DEF Registered, Exists, Shape
  <2> QED
    BY <1>0, <2>1, SameRowsAllowed
<1>4. ASSUME NEW r \in Slots, Lose(r) \/ CheckWallet(r)
      PROVE  UNCHANGED rows
  BY <1>4, CheckWalletKinds DEF Lose
<1>5. ASSUME NEW r \in Slots, NEW n \in DOMAIN events, Deliver(r, n)
      PROVE  UNCHANGED rows
  BY <1>5, DeliverKinds DEF Remembers
<1>6. ASSUME Reactivated(Admin)
      PROVE  AllowedStep
  BY <1>0, <1>6, SeedAllowed
<1> QED
  BY <1>0, <1>1, <1>2, <1>3, <1>4, <1>5, <1>6, NextKinds DEF Begun, Moves, Opened, Still

(* A row gets futures, a larger position, more pairs, or a live bot without*)
(* keys only from a request that was allowed as much by what it had loaded *)
(* and was overtaken, from the debug route, or, of the admin, at the start.*)
THEOREM ChecksHold == Spec => ChecksHoldUnlessOvertaken
<1> DEFINE AllChecked == \A q \in Slots : Checked(q)
<1>1. Init => Base /\ AllChecked
  <2>1. ASSUME Init PROVE AllChecked
    BY <2>1 DEF Init, Checked, Busy, Free
  <2> QED
    BY <2>1, InitBase
<1>2. Base /\ AllChecked /\ [Next]_vars => (Base /\ AllChecked)'
  <2> SUFFICES ASSUME Base, AllChecked, [Next]_vars
               PROVE  Base' /\ \A q \in Slots : Checked(q)'
    OBVIOUS
  <2> QED
    BY NextBase, NextChecked
<1>3. Base /\ AllChecked /\ [Next]_vars => [AllowedStep]_vars
  BY NextAllowed
<1> HIDE DEF AllChecked
<1> QED
  BY <1>1, <1>2, <1>3, PTL DEF Spec, ChecksHoldUnlessOvertaken, AllowedStep


------------------------------------------------------------------------------
(* Types.  Events are numbered, and everything that names one names one    *)
(* that was emitted; the bounds of the model hold.                         *)

Count == Cardinality(DOMAIN events)

Numbers(S) == S \cup {0}

Limits ==
  /\ events = [n \in DOMAIN events |-> events[n]]
  /\ DOMAIN events = 1..Count /\ Count <= MaxEvents
  /\ requests <= MaxRequests
  /\ faults \in 0..MaxFaults
  /\ handled \subseteq DOMAIN events
  /\ past.latest \in Numbers(DOMAIN events)
  /\ \A q \in Slots : slots[q].event \in Numbers(DOMAIN events)
  /\ expired \subseteq 1..requests

LEMMA WithinBound ==
  ASSUME NEW R \in Nat \ {0}, NEW E \in Nat \ {0}, NEW r \in Nat, NEW c \in Nat,
         r * E + c * R <= R * E
  PROVE  r <= R /\ c <= E
<1> DEFINE x == r * E
           y == c * R
<1>1. x \in Nat /\ y \in Nat
  OBVIOUS
<1>2. x <= R * E /\ y <= R * E
  <2> HIDE DEF x, y
  <2>1. R * E \in Nat /\ x + y <= R * E
    BY DEF x, y
  <2> DEFINE z == R * E
  <2> HIDE DEF z
  <2> QED
    BY <1>1, <2>1 DEF z
<1>3. r <= R
  <2> SUFFICES ASSUME r >= R + 1 PROVE FALSE
    OBVIOUS
  <2>1. r * E >= (R + 1) * E
    OBVIOUS
  <2>2. (R + 1) * E = R * E + E
    OBVIOUS
  <2> QED
    BY <1>2, <2>1, <2>2
<1>4. c <= E
  <2> SUFFICES ASSUME c >= E + 1 PROVE FALSE
    OBVIOUS
  <2>1. c * R >= (E + 1) * R
    OBVIOUS
  <2>2. (E + 1) * R = R * E + R
    OBVIOUS
  <2> QED
    BY <1>2, <2>1, <2>2
<1> QED
  BY <1>3, <1>4

LEMMA RoomLeft ==
  ASSUME Shape
  PROVE  /\ Room(1, 0) => requests + 1 <= MaxRequests
         /\ Room(0, 1) => Count + 1 <= MaxEvents
<1> DEFINE r == requests
           c == Count
<1>1. r \in Nat /\ c \in Nat
  BY FS_CardinalityType DEF Shape, Count
<1>2. MaxRequests \in Nat \ {0} /\ MaxEvents \in Nat \ {0}
  BY AccountsAssumption
<1>3. /\ Room(1, 0) <=> (r + 1) * MaxEvents + (c + 0) * MaxRequests
                          <= MaxRequests * MaxEvents
      /\ Room(0, 1) <=> (r + 0) * MaxEvents + (c + 1) * MaxRequests
                          <= MaxRequests * MaxEvents
  BY DEF Room, Count
<1> HIDE DEF r, c
<1>4. r + 1 \in Nat /\ c + 1 \in Nat /\ r + 0 = r /\ c + 0 = c
  BY <1>1
<1>5. Room(1, 0) => r + 1 <= MaxRequests
  BY <1>1, <1>2, <1>3, <1>4, WithinBound
<1>6. Room(0, 1) => c + 1 <= MaxEvents
  BY <1>1, <1>2, <1>3, <1>4, WithinBound
<1> QED
  BY <1>5, <1>6 DEF r, c

LEMMA RequestSteps ==
  ASSUME [Next]_vars
  PROVE  requests' = requests \/ (Room(1, 0) /\ requests' = requests + 1)
<1>1. CASE \E r \in Slots : Request(r)
  BY <1>1 DEF Request, Handle, Wallet, ForgotPassword, ResetPassword,
             DebugUpdate, Begins, CheckWallet
<1>2. CASE \E r \in Slots : Webhook(r) \/ Commit(r) \/ Lose(r)
  BY <1>2 DEF Webhook, Deliver, Commit, Lose
<1>3. CASE SeedAdmin \/ \E u \in Users : Register(u) \/ DebugCreate(u) \/ ExpireToken(u)
  BY <1>3 DEF Register, DebugCreate, ExpireToken, SeedAdmin, Fault
<1>4. CASE Stripe \/ UNCHANGED vars
  BY <1>4 DEF Stripe, Pay, Change, Cancel, Checkout, vars
<1> QED
  BY <1>1, <1>2, <1>3, <1>4 DEF Next

LEMMA FaultSteps ==
  ASSUME [Next]_vars
  PROVE  faults' = faults \/ (faults < MaxFaults /\ faults' = faults + 1)
<1>1. CASE \E r \in Slots : Request(r)
  BY <1>1 DEF Request, Handle, Wallet, ForgotPassword, ResetPassword,
             DebugUpdate, CheckWallet
<1>2. CASE \E r \in Slots : Webhook(r) \/ Commit(r) \/ Lose(r)
  BY <1>2 DEF Webhook, Deliver, Commit, Lose, Fault
<1>3. CASE SeedAdmin \/ \E u \in Users : Register(u) \/ DebugCreate(u) \/ ExpireToken(u)
  BY <1>3 DEF Register, DebugCreate, ExpireToken, SeedAdmin, Fault
<1>4. CASE Stripe \/ UNCHANGED vars
  BY <1>4 DEF Stripe, Pay, Change, Cancel, Checkout, vars
<1> QED
  BY <1>1, <1>2, <1>3, <1>4 DEF Next

LEMMA HandledSteps ==
  ASSUME [Next]_vars
  PROVE  \/ handled' = handled
         \/ \E r \in Slots : Commit(r)
         \/ \E r \in Slots : \E n \in DOMAIN events : Deliver(r, n)
<1>1. CASE \E r \in Slots : Request(r)
  BY <1>1 DEF Request, Handle, Wallet, ForgotPassword, ResetPassword,
             DebugUpdate, CheckWallet
<1>2. CASE \E r \in Slots : Webhook(r) \/ Commit(r) \/ Lose(r)
  BY <1>2 DEF Webhook, Lose
<1>3. CASE SeedAdmin \/ \E u \in Users : Register(u) \/ DebugCreate(u) \/ ExpireToken(u)
  BY <1>3 DEF Register, DebugCreate, ExpireToken, SeedAdmin, Fault
<1>4. CASE Stripe \/ UNCHANGED vars
  BY <1>4 DEF Stripe, Pay, Change, Cancel, Checkout, vars
<1> QED
  BY <1>1, <1>2, <1>3, <1>4 DEF Next

LEMMA ExpiredSteps ==
  ASSUME [Next]_vars
  PROVE  expired' = expired \/ \E u \in Users : ExpireToken(u)
<1>1. CASE \E r \in Slots : Request(r)
  BY <1>1 DEF Request, Handle, Wallet, ForgotPassword, ResetPassword,
             DebugUpdate, CheckWallet
<1>2. CASE \E r \in Slots : Webhook(r) \/ Commit(r) \/ Lose(r)
  BY <1>2 DEF Webhook, Deliver, Commit, Lose
<1>3. CASE SeedAdmin \/ \E u \in Users : Register(u) \/ DebugCreate(u)
  BY <1>3 DEF Register, DebugCreate, SeedAdmin
<1>4. CASE Stripe \/ UNCHANGED vars
  BY <1>4 DEF Stripe, Pay, Change, Cancel, Checkout, vars
<1> QED
  BY <1>1, <1>2, <1>3, <1>4 DEF Next

(* A new event has the next number.                                        *)
LEMMA NextNumber ==
  ASSUME Shape, Limits, NEW s \in Subs, NEW plan, NEW status, Moves(s, plan, status)
  PROVE  /\ DOMAIN events' = 1..Count' /\ Count' = Count + 1 /\ Count' <= MaxEvents
         /\ DOMAIN events' = DOMAIN events \cup {Count + 1}
         /\ Count \in Nat
<1>1. PICK kind : Emits(kind, s, plan, status)
  BY DEF Moves
<1>2. Room(0, 1) /\ DOMAIN events' = DOMAIN events \cup {Count + 1}
  BY <1>1 DEF Emits, Count
<1>3. Count \in Nat /\ DOMAIN events = 1..Count
  BY FS_CardinalityType DEF Shape, Count, Limits
<1> DEFINE m == Count
<1>4. m \in Nat /\ DOMAIN events = 1..m
  BY <1>3
<1> HIDE DEF m
<1>5. 1..(m + 1) = (1..m) \cup {m + 1}
  BY <1>4
<1>6. DOMAIN events' = 1..(m + 1)
  BY <1>2, <1>4, <1>5 DEF m
<1>7. Cardinality(1..(m + 1)) = m + 1
  BY <1>4, FS_Interval
<1>8. Count' = m + 1
  BY <1>6, <1>7 DEF Count
<1>9. m + 1 <= MaxEvents
  BY <1>2, RoomLeft DEF m
<1> QED
  BY <1>2, <1>4, <1>6, <1>8, <1>9 DEF m

LEMMA EventSteps ==
  ASSUME Shape, [Next]_vars
  PROVE  \/ events' = events
         \/ \E s \in Subs : \E plan, status : Moves(s, plan, status)
BY NextKinds, CheckWalletKinds, CommitKinds, DeliverKinds
   DEF Begun, Remembers, Lose, stripe, Registered, Reactivated, Opened, Still

LEMMA EventsStay ==
  ASSUME Shape, Limits, [Next]_vars
  PROVE  DOMAIN events \subseteq DOMAIN events' /\ DOMAIN events' = 1..Count'
         /\ Count' <= MaxEvents
<1>1. CASE events' = events
  BY <1>1 DEF Limits, Count
<1>2. ASSUME NEW s \in Subs, NEW plan, NEW status, Moves(s, plan, status)
      PROVE  DOMAIN events \subseteq DOMAIN events' /\ DOMAIN events' = 1..Count'
             /\ Count' <= MaxEvents
  BY <1>2, NextNumber
<1> QED
  BY <1>1, <1>2, EventSteps

(* Only a delivery makes another event the latest.                         *)
LEMMA PastSteps ==
  ASSUME Shape, [Next]_vars
  PROVE  \/ past'.latest = past.latest /\ past'.ordered = past.ordered
         \/ \E r \in Slots : \E n \in DOMAIN events : Deliver(r, n)
<1>0. past \in PastSet
  BY DEF Shape
<1>1. ASSUME NEW r \in Slots, CheckWallet(r)
      PROVE  past'.latest = past.latest /\ past'.ordered = past.ordered
  BY <1>0, <1>1, CheckWalletKinds DEF Claimed, PastSet
<1>2. ASSUME NEW r \in Slots, Commit(r)
      PROVE  past'.latest = past.latest /\ past'.ordered = past.ordered
  BY <1>2, CommitPast
<1>3. ASSUME NEW u \in Users, NEW plan, NEW position, Registered(u, plan, position)
      PROVE  past'.latest = past.latest /\ past'.ordered = past.ordered
  BY <1>0, <1>3 DEF Registered, PastSet
<1>4. ASSUME NEW s \in Subs, NEW plan, NEW status, Moves(s, plan, status)
      PROVE  past'.latest = past.latest /\ past'.ordered = past.ordered
  BY <1>0, <1>4 DEF Moves, PastSet
<1> QED
  BY <1>1, <1>2, <1>3, <1>4, NextKinds DEF Begun, Lose, Reactivated, Opened, Still

(* The event of a slot.                                                    *)
LEMMA SlotSteps ==
  ASSUME Shape, [Next]_vars, NEW q \in Slots
  PROVE  \/ slots'[q].event \in {slots[q].event, 0}
         \/ \E r \in Slots : \E n \in DOMAIN events :
              Deliver(r, n) /\ slots'[q].event = n
<1>1. ASSUME NEW r \in Slots, NEW u, NEW place, NEW wanted, NEW n,
             Takes(r, place, u, wanted, n)
      PROVE  slots'[q].event \in {slots[q].event, n}
  <2>1. CASE q = r
    BY <1>1, <2>1 DEF Shape, Takes
  <2>2. CASE q # r
    BY <1>1, <2>2, TakenSlots
  <2> QED
    BY <2>1, <2>2
<1>2. ASSUME NEW r \in Slots, Ends(r)
      PROVE  slots'[q].event \in {slots[q].event, 0}
  <2>1. CASE q = r
    BY <1>2, <2>1 DEF Shape, Ends, Free
  <2>2. CASE q # r
    BY <1>2, <2>2, EndedSlots
  <2> QED
    BY <2>1, <2>2
<1>3. ASSUME NEW r \in Slots, Claimed(r)
      PROVE  slots'[q].event = slots[q].event
  <2>1. CASE q = r
    BY <1>3, <2>1 DEF Shape, SlotSet, Claimed
  <2>2. CASE q # r
    BY <1>3, <2>2, ClaimedSlots
  <2> QED
    BY <2>1, <2>2
<1>4. ASSUME NEW r \in Slots, NEW u \in Users, NEW place, NEW wanted,
             Begun(r, u, place, wanted)
      PROVE  slots'[q].event \in {slots[q].event, 0}
  BY <1>1, <1>4 DEF Begun
<1>5. ASSUME NEW r \in Slots, NEW n \in DOMAIN events, Deliver(r, n)
      PROVE  \/ slots'[q].event \in {slots[q].event, 0}
             \/ slots'[q].event = n
  BY <1>1, <1>5, DeliverKinds
<1>6. ASSUME NEW r \in Slots, CheckWallet(r)
      PROVE  slots'[q].event \in {slots[q].event, 0}
  BY <1>2, <1>3, <1>6, CheckWalletKinds
<1>7. ASSUME NEW r \in Slots, Commit(r) \/ Lose(r)
      PROVE  slots'[q].event \in {slots[q].event, 0}
  BY <1>2, <1>7, CommitKinds DEF Lose
<1>8. CASE UNCHANGED slots
  BY <1>8
<1> QED
  BY <1>4, <1>5, <1>6, <1>7, <1>8, NextKinds
     DEF Registered, Reactivated, Moves, Opened, Still

LEMMA LimitsKept ==
  ASSUME Base, Base', TokenInv, Limits, [Next]_vars
  PROVE  Limits'
<1>0. Shape /\ Shape'
  BY DEF Base
<1>1. DOMAIN events \subseteq DOMAIN events' /\ DOMAIN events' = 1..Count'
      /\ Count' <= MaxEvents
  BY <1>0, EventsStay
<1>8. events' = [n \in DOMAIN events' |-> events'[n]]
  <2>1. ASSUME NEW s, NEW plan, NEW status, Moves(s, plan, status)
        PROVE  events' = [n \in DOMAIN events' |-> events'[n]]
    <3>1. PICK kind : Emits(kind, s, plan, status)
      BY <2>1 DEF Moves
    <3> QED
      BY <3>1 DEF Emits
  <2> QED
    BY <1>0, <2>1, EventSteps DEF Limits
<1>2. requests' <= MaxRequests /\ requests <= requests' /\ requests' \in Nat
  <2>1. requests \in Nat /\ requests <= MaxRequests /\ requests' \in Nat
    BY <1>0 DEF Shape, Limits
  <2>2. requests' = requests
        \/ (requests' = requests + 1 /\ requests + 1 <= MaxRequests)
    BY <1>0, RequestSteps, RoomLeft
  <2> QED
    BY <2>1, <2>2
<1>3. faults' \in 0..MaxFaults
  <2>1. faults \in 0..MaxFaults /\ MaxFaults \in Nat
    BY AccountsAssumption DEF Limits
  <2> QED
    BY <2>1, FaultSteps
<1>4. handled' \subseteq DOMAIN events'
  <2>1. handled \subseteq DOMAIN events
    BY DEF Limits
  <2>2. CASE handled' = handled
    BY <1>1, <2>1, <2>2
  <2>3. ASSUME NEW r \in Slots, Commit(r) PROVE handled' \subseteq DOMAIN events'
    <3>1. handled' = handled \cup ({slots[r].event} \ {0})
      BY <2>3 DEF Commit
    <3>2. slots[r].event \in DOMAIN events \cup {0}
      BY DEF Limits, Numbers
    <3> QED
      BY <1>1, <2>1, <3>1, <3>2
  <2>4. ASSUME NEW r \in Slots, NEW n \in DOMAIN events, Deliver(r, n)
        PROVE  handled' \subseteq DOMAIN events'
    <3>1. handled' = handled \cup {n} \/ handled' = handled
      BY <2>4 DEF Deliver
    <3> QED
      BY <1>1, <2>1, <3>1
  <2> QED
    BY <2>2, <2>3, <2>4, HandledSteps
<1>5. past'.latest \in Numbers(DOMAIN events')
  <2>1. CASE past'.latest = past.latest
    BY <1>1, <2>1 DEF Limits, Numbers
  <2>2. ASSUME NEW r \in Slots, NEW n \in DOMAIN events, Deliver(r, n)
        PROVE  past'.latest \in Numbers(DOMAIN events')
    <3>1. past'.latest = n
      BY <1>0, <2>2 DEF Deliver, Shape, PastSet
    <3> QED
      BY <1>1, <3>1 DEF Numbers
  <2> QED
    BY <1>0, <2>1, <2>2, PastSteps
<1>6. ASSUME NEW q \in Slots PROVE slots'[q].event \in Numbers(DOMAIN events')
  <2>1. slots[q].event \in Numbers(DOMAIN events)
    BY DEF Limits
  <2>2. slots'[q].event \in {slots[q].event, 0} \/ slots'[q].event \in DOMAIN events
    BY <1>0, SlotSteps
  <2> QED
    BY <1>1, <2>1, <2>2 DEF Numbers
<1>7. expired' \subseteq 1..requests'
  <2>1. expired \subseteq 1..requests /\ requests \in Nat
    BY <1>0 DEF Limits, Shape
  <2>2. expired \subseteq 1..requests'
    BY <1>2, <2>1
  <2>3. ASSUME NEW u \in Users, ExpireToken(u) PROVE expired' \subseteq 1..requests'
    <3>1. /\ Exists(u) /\ rows[u].reset # NoToken /\ requests' = requests
          /\ expired' = expired \cup {rows[u].reset}
      BY <2>3 DEF ExpireToken
    <3>2. rows[u].reset \in Nat /\ rows[u].reset <= requests
      BY <1>0, <3>1, ThereIs DEF TokenInv, Old, Row
    <3>3. rows[u].reset \in 1..requests
      BY <2>1, <3>1, <3>2 DEF NoToken
    <3> QED
      BY <2>1, <3>1, <3>3
  <2> QED
    BY <2>2, <2>3, ExpiredSteps
<1> QED
  BY <1>1, <1>2, <1>3, <1>4, <1>5, <1>6, <1>7, <1>8 DEF Limits

LEMMA InitLimits == Init => Limits
<1> SUFFICES ASSUME Init PROVE Limits
  OBVIOUS
<1>1. DOMAIN events = {} /\ Count = 0
  BY FS_EmptySet DEF Init, Count
<1>2. 1..0 = {}
  OBVIOUS
<1>3. \A q \in Slots : slots[q].event = 0
  BY DEF Init, Free
<1>4. past.latest = 0 /\ requests = 0 /\ faults = 0 /\ handled = {} /\ expired = {}
  BY DEF Init, Nothing
<1>5. events = [n \in DOMAIN events |-> events[n]]
  BY DEF Init
<1> QED
  BY <1>1, <1>2, <1>3, <1>4, <1>5, AccountsAssumption DEF Limits, Numbers

WebInv == Base /\ TokenInv /\ Limits

LEMMA InitWeb == Init => WebInv
BY InitTokens, InitLimits DEF WebInv

LEMMA NextWeb == WebInv /\ [Next]_vars => WebInv'
<1> SUFFICES ASSUME WebInv, [Next]_vars PROVE WebInv'
  OBVIOUS
<1>1. Base'
  BY NextBase DEF WebInv
<1> QED
  BY <1>1, NextTokens, LimitsKept DEF WebInv

LEMMA WebTypes == WebInv => TypeOK
<1> SUFFICES ASSUME WebInv PROVE TypeOK
  OBVIOUS
<1>1. Shape /\ TokenInv /\ Limits
  BY DEF WebInv, Base
<1>2. rows \in [Users -> Row \cup {NoRow}] /\ subs \in [Subs -> SubSet]
      /\ slots \in [Slots -> SlotSet] /\ past \in PastSet /\ requests \in Nat
  BY <1>1 DEF Shape
<1>3. DOMAIN events \subseteq 1..MaxEvents /\ DOMAIN events \subseteq Nat
  <2> DEFINE c == Count
             D == DOMAIN events
  <2>1. D = 1..c /\ c <= MaxEvents /\ c \in Nat /\ MaxEvents \in Nat /\ D \subseteq Nat
    BY <1>1, FS_CardinalityType, AccountsAssumption DEF Limits, Shape, Count
  <2> HIDE DEF c, D
  <2>2. D \subseteq 1..MaxEvents /\ D \subseteq Nat
    BY <2>1
  <2> QED
    BY <2>2 DEF D
<1>4. Numbers(DOMAIN events) \subseteq 0..MaxEvents
  <2>1. MaxEvents \in Nat
    BY AccountsAssumption
  <2> QED
    BY <1>3, <2>1 DEF Numbers
<1>5. \A q \in Slots : slots[q].event \in 0..MaxEvents
  BY <1>1, <1>4 DEF Limits
<1>6. slots \in [Slots -> [at : Places, user : Users \cup {NoUser},
                           loaded : Row \cup {NoRow}, wanted : Row \cup {NoRow},
                           event : 0..MaxEvents]]
  <2>1. ASSUME NEW q \in Slots
        PROVE  slots[q] \in [at : Places, user : Users \cup {NoUser},
                             loaded : Row \cup {NoRow}, wanted : Row \cup {NoRow},
                             event : 0..MaxEvents]
    <3>1. slots[q] \in SlotSet /\ slots[q].event \in 0..MaxEvents
      BY <1>2, <1>5
    <3> QED
      BY <3>1 DEF SlotSet
  <2> QED
    BY <1>2, <2>1
<1>7. events \in [DOMAIN events -> EventSet]
  <2>1. \A n \in DOMAIN events : events[n] \in EventSet
    BY <1>1 DEF Shape
  <2>2. events = [n \in DOMAIN events |-> events[n]]
    BY <1>1 DEF Limits
  <2> QED
    BY <2>1, <2>2
<1>8. requests \in 0..MaxRequests /\ MaxRequests \in Nat
  BY <1>1, <1>2, AccountsAssumption DEF Limits
<1>9. expired \subseteq 1..MaxRequests
  <2>1. expired \subseteq 1..requests
    BY <1>1 DEF Limits
  <2>2. 1..requests \subseteq 1..MaxRequests
    BY <1>8
  <2> QED
    BY <2>1, <2>2
<1>10. past.spent \subseteq 1..MaxRequests
  <2> SUFFICES ASSUME NEW t \in past.spent PROVE t \in 1..MaxRequests
    OBVIOUS
  <2>1. t \in Nat /\ t <= requests /\ t # 0
    BY <1>1, <1>2 DEF TokenInv, Old, Live, NoToken, PastSet
  <2> QED
    BY <1>8, <2>1
<1>11. past.latest \in 0..MaxEvents
  BY <1>1, <1>4 DEF Limits
<1>14. past.raced \subseteq 1..MaxRequests
  BY <1>1, <1>10 DEF TokenInv, Live
<1>12. past \in [granted : [Users -> SUBSET Plans], spent : SUBSET (1..MaxRequests),
                 raced : SUBSET (1..MaxRequests),
                 contested : SUBSET Wallets, latest : 0..MaxEvents, ordered : BOOLEAN]
  BY <1>2, <1>10, <1>11, <1>14 DEF PastSet
<1>13. handled \subseteq DOMAIN events /\ faults \in 0..MaxFaults
  BY <1>1 DEF Limits
<1> QED
  BY <1>2, <1>3, <1>6, <1>7, <1>8, <1>9, <1>12, <1>13 DEF TypeOK, SubSet, EventSet

(* Types: tokens, passwords and keys are those of requests made, webhooks handle      *)
(* events that Stripe emitted, and the columns of a row that users and     *)
(* webhooks write at the same time keep their values.                      *)
THEOREM WebTypesHold == Spec => []TypeOK
BY InitWeb, NextWeb, WebTypes, PTL DEF Spec
==============================================================================
