------------------------------- MODULE Accounts -------------------------------
(***************************************************************************)
(* The web process: requests that read a row of the table of users, check  *)
(* it, and write it back in a later transaction; the webhooks of Stripe,   *)
(* which may arrive again and out of order; and the ways into the table    *)
(* that check nothing, a debug route and the seeding at the start.         *)
(*                                                                         *)
(* Requests interleave at every await.  A row is written by column: a      *)
(* session sends the columns that differ from what it has loaded, and      *)
(* leaves the others to what has become of them meanwhile.                 *)
(***************************************************************************)
EXTENDS Integers, FiniteSets

CONSTANTS
  Users,        (* emails; the token of a user names the same user          *)
  Admin,        (* the email that is seeded                                 *)
  Wallets,      (* addresses                                                *)
  Subs,         (* subscriptions at Stripe, each with a customer of its own *)
  Slots,        (* requests under way at the same time                      *)
  Chosen,       (* plans chosen at registration                             *)
  Bought,       (* plans bought at a checkout                               *)
  Offered,      (* plans a subscription may be changed to                   *)
  Positions,    (* max_position_usdt users ask for                          *)
  PairCounts,   (* pairs users select: one list for each number             *)
  NoRow, NoUser, NoWallet, NoSub,
  MaxRequests,  (* bound of the model: requests of users                    *)
  MaxEvents,    (* bound of the model: events emitted by Stripe             *)
  MaxFaults     (* bound of the model: requests lost, events delivered once *)
                (* more, and restarts that seed                             *)

Plans == {"basic", "pro", "enterprise"}

ASSUME AccountsAssumption ==
  /\ Chosen \subseteq Plans /\ Bought \subseteq Plans /\ Offered \subseteq Plans
  /\ Positions \subseteq Nat /\ PairCounts \subseteq Nat
  /\ NoUser \notin Users
  /\ Admin \in Users
  /\ NoWallet \notin Wallets
  /\ NoSub \notin Subs
  /\ MaxRequests \in Nat \ {0} /\ MaxEvents \in Nat \ {0} /\ MaxFaults \in Nat

VARIABLES
  rows,      (* user -> row of the table, or NoRow                          *)
  slots,     (* slot -> request                                             *)
  subs,      (* subscription -> what Stripe knows of it                     *)
  events,    (* events emitted by Stripe, by number                         *)
  handled,   (* numbers of the events that were acknowledged                *)
  expired,   (* reset tokens whose hour is over                             *)
  requests,  (* requests so far; its number names the token, the password  *)
             (* or the keys of a request                                   *)
  faults,    (* requests lost, events delivered once more, and restarts     *)
             (* that seeded so far                                          *)
  past       (* what has happened, for the properties                       *)

stripe == <<subs, events>>
vars == <<rows, slots, stripe, handled, expired, requests, faults, past>>

(* Bound of the model: the more requests, the fewer events.                *)
Room(r, e) ==
  (requests + r) * MaxEvents + (Cardinality(DOMAIN events) + e) * MaxRequests
    <= MaxRequests * MaxEvents

------------------------------------------------------------------------------
(* Plans.                                                                  *)

Unlimited == 999999

SpotOnly(plan)    == plan = "basic"
MaxPosition(plan) ==
  IF plan = "basic" THEN 500 ELSE IF plan = "pro" THEN 5000 ELSE Unlimited
MaxPairs(plan) == IF plan = "basic" THEN 3 ELSE IF plan = "pro" THEN 10 ELSE 999

------------------------------------------------------------------------------
(* Rows.                                                                   *)

NoToken == 0
NoKeys == 0

(* A row that is inserted.                                                 *)
NewRow(plan, position) ==
  [plan |-> plan, position |-> position, trade |-> "spot", pairs |-> 3,
   mode |-> "paper", keys |-> NoKeys, active |-> TRUE, wallet |-> NoWallet,
   password |-> 0, reset |-> NoToken, customer |-> NoSub, anonymous |-> FALSE]

(* Slip: the session sends every column.                                   *)
WrittenInFull(row, loaded, wanted) == wanted

(* The session sends the columns it has changed.                           *)
Written(row, loaded, wanted) ==
  [column \in DOMAIN row |->
     IF wanted[column] # loaded[column] THEN wanted[column] ELSE row[column]]

Exists(u) == rows[u] # NoRow
Holders(w) == {u \in Users : Exists(u) /\ rows[u].wallet = w}

------------------------------------------------------------------------------
(* Handlers: the rows that the handler of a request may want, given the one*)
(* it has loaded; none if a check refuses it.                              *)

(* update_settings; a type that is not given is left as it is.             *)
WithSettings(l, mode, trade, position) ==
  [l EXCEPT !.mode = mode, !.trade = trade, !.position = position]

Trades(plan) == IF SpotOnly(plan) THEN {"spot"} ELSE {"spot", "futures"}
Sizes(plan) == {x \in Positions : x <= MaxPosition(plan)}

Settings(l) ==
  {WithSettings(l, mode, trade, position) :
     mode \in {"paper", "live"}, trade \in Trades(l.plan) \cup {l.trade},
     position \in Sizes(l.plan)}

(* update_selected_pairs.                                                  *)
SelectedPairs(l) ==
  {[l EXCEPT !.pairs = n] : n \in {x \in PairCounts : x <= MaxPairs(l.plan)}}

(* update_exchange_keys, of keys the exchange accepts; no two ciphers are   *)
(* the same.                                                               *)
ExchangeKeys(l) == {[l EXCEPT !.keys = requests + 1]}

(* Slip: keys are not asked for.                                           *)
ControlBotAnyway(l) == {[l EXCEPT !.active = FALSE], [l EXCEPT !.active = TRUE]}

(* control_bot: a live bot is started with keys only.                      *)
ControlBot(l) ==
  {[l EXCEPT !.active = FALSE]}
  \cup IF l.mode = "live" /\ l.keys = NoKeys THEN {} ELSE {[l EXCEPT !.active = TRUE]}

(* Slip: the empty address instead of none.                                *)
DeleteWalletEmpty(l) == {[l EXCEPT !.wallet = ""]}

DeleteWallet(l) == {[l EXCEPT !.wallet = NoWallet]}

(* delete_user_data: the reset token and the customer are left.            *)
DeleteData(l) ==
  {[l EXCEPT !.active = FALSE, !.keys = NoKeys, !.wallet = NoWallet,
             !.password = requests + 1, !.anonymous = TRUE]}

Handled(l) ==
  Settings(l) \cup SelectedPairs(l) \cup ExchangeKeys(l) \cup ControlBot(l)
  \cup DeleteWallet(l) \cup DeleteData(l)

------------------------------------------------------------------------------
(* Requests: the row before and after, and the number of a webhook's event.*)
(* A request that is refused, or writes nothing, leaves no trace.          *)

Free == [at |-> "free", user |-> NoUser, loaded |-> NoRow, wanted |-> NoRow,
         event |-> 0]

Takes(r, place, u, wanted, n) ==
  slots' = [slots EXCEPT ![r] = [at |-> place, user |-> u, loaded |-> rows[u],
                                 wanted |-> wanted, event |-> n]]
Fault == faults < MaxFaults /\ faults' = faults + 1
Ends(r) == slots' = [slots EXCEPT ![r] = Free]

(* A request of a user that exists loads the row.                          *)
Begins(r, u) ==
  /\ slots[r] = Free
  /\ Exists(u)
  /\ Room(1, 0)
  /\ requests' = requests + 1

Handle(r, u) ==
  /\ Begins(r, u)
  /\ \E wanted \in Handled(rows[u]) \ {rows[u]} : Takes(r, "ready", u, wanted, 0)
  /\ UNCHANGED <<rows, stripe, handled, expired, faults, past>>

(* save_wallet, with the token of the user, and wallet_link, by email and  *)
(* password.                                                               *)
Wallet(r, u) ==
  /\ Begins(r, u)
  /\ \E w \in Wallets :
       LET wanted == [rows[u] EXCEPT !.wallet = w]
       IN \/ Takes(r, "saving", u, wanted, 0)
          \/ ~rows[u].anonymous /\ Takes(r, "linking", u, wanted, 0)
  /\ UNCHANGED <<rows, stripe, handled, expired, faults, past>>

(* Slip: a wallet of another account is not looked for.                    *)
WalletFreeForAll(r, w) == TRUE

(* save_wallet lets the wallet of the account itself pass, wallet_link no  *)
(* wallet at all; of two rows the query raises.                            *)
WalletFree(r, w) ==
  \/ Holders(w) = {}
  \/ slots[r].at = "saving" /\ Holders(w) = {slots[r].user}

CheckWallet(r) ==
  LET w == slots[r].wanted.wallet
      rivals == {s \in Slots : /\ slots[s].at = "claiming"
                               /\ slots[s].wanted.wallet = w
                               /\ slots[s].user # slots[r].user}
  IN /\ slots[r].at \in {"saving", "linking"}
     /\ \/ /\ WalletFree(r, w)
           /\ slots' = [slots EXCEPT ![r].at = "claiming"]
           /\ past' = IF rivals = {} THEN past
                      ELSE [past EXCEPT !.contested = @ \cup {w}]
        \/ ~WalletFree(r, w) /\ Ends(r) /\ UNCHANGED past
     /\ UNCHANGED <<rows, stripe, handled, expired, requests, faults>>

(* forgot_password: the token is new.                                      *)
ForgotPassword(r, u) ==
  /\ Begins(r, u)
  /\ ~rows[u].anonymous
  /\ Takes(r, "ready", u, [rows[u] EXCEPT !.reset = requests + 1], 0)
  /\ UNCHANGED <<rows, stripe, handled, expired, faults, past>>

(* Slip: the token is left.                                                *)
ResetPasswordOnly(r, u) ==
  /\ Begins(r, u)
  /\ rows[u].reset \notin expired \cup {NoToken}
  /\ Takes(r, "resetting", u, [rows[u] EXCEPT !.password = requests + 1], 0)
  /\ UNCHANGED <<rows, stripe, handled, expired, faults, past>>

(* reset_password, with the token of the row: a new password, no token.    *)
ResetPassword(r, u) ==
  /\ Begins(r, u)
  /\ rows[u].reset \notin expired \cup {NoToken}
  /\ Takes(r, "resetting", u,
           [rows[u] EXCEPT !.password = requests + 1, !.reset = NoToken], 0)
  /\ UNCHANGED <<rows, stripe, handled, expired, faults, past>>

(* debug_create_user, of a user there is: nobody is asked who he is.       *)
DebugUpdate(r, u) ==
  /\ Begins(r, u)
  /\ ~rows[u].anonymous
  /\ Takes(r, "forced", u,
           [rows[u] EXCEPT !.password = requests + 1, !.active = TRUE], 0)
  /\ UNCHANGED <<rows, stripe, handled, expired, faults, past>>

ExpireToken(u) ==
  /\ Exists(u)
  /\ rows[u].reset \notin expired \cup {NoToken}
  /\ expired' = expired \cup {rows[u].reset}
  /\ UNCHANGED <<rows, slots, stripe, handled, requests, faults, past>>

(* The email is looked up, and unique in the table.                        *)
Inserts(u, plan, position) ==
  /\ ~Exists(u)
  /\ rows' = [rows EXCEPT ![u] = NewRow(plan, position)]
  /\ past' = [past EXCEPT !.granted[u] = @ \cup {plan}]

Register(u) ==
  /\ \E plan \in Chosen : Inserts(u, plan, MaxPosition(plan))
  /\ UNCHANGED <<slots, stripe, handled, expired, requests, faults>>

(* debug_create_user, of a new user.                                       *)
DebugCreate(u) ==
  /\ Room(1, 0)
  /\ requests' = requests + 1
  /\ Inserts(u, "pro", Unlimited)
  /\ UNCHANGED <<slots, stripe, handled, expired, faults>>

(* seed_admin, when the process has restarted and takes no requests yet.   *)
SeedAdmin ==
  /\ Fault
  /\ \A r \in Slots : slots[r] = Free
  /\ \/ Inserts(Admin, "enterprise", Unlimited)
     \/ /\ Exists(Admin)
        /\ ~rows[Admin].anonymous /\ ~rows[Admin].active
        /\ rows' = [rows EXCEPT ![Admin].active = TRUE]
        /\ UNCHANGED past
  /\ UNCHANGED <<slots, stripe, handled, expired, requests>>

------------------------------------------------------------------------------
(* Stripe.                                                                 *)

Unsold == [user |-> NoUser, plan |-> "basic", status |-> "none"]

Emits(kind, s, plan, status) ==
  /\ Room(0, 1)
  /\ events' = [n \in DOMAIN events \cup {Cardinality(DOMAIN events) + 1} |->
                  IF n \in DOMAIN events THEN events[n]
                  ELSE [kind |-> kind, sub |-> s, user |-> subs[s].user,
                        plan |-> plan, status |-> status]]

(* create_checkout, and the payment: a subscription of a new customer.     *)
Checkout(u, s) ==
  /\ Room(0, 1)
  /\ Exists(u)
  /\ subs[s] = Unsold
  /\ \E plan \in Bought :
       subs' = [subs EXCEPT ![s] = [user |-> u, plan |-> plan, status |-> "open"]]
  /\ UNCHANGED <<rows, slots, events, handled, expired, requests, faults, past>>

Pay(s) ==
  /\ subs[s].status = "open"
  /\ subs' = [subs EXCEPT ![s].status = "active"]
  /\ Emits("completed", s, subs[s].plan, "active")
  /\ past' = [past EXCEPT !.granted[subs[s].user] = @ \cup {subs[s].plan}]
  /\ UNCHANGED <<rows, slots, handled, expired, requests, faults>>

(* Another plan in the portal, a payment that fails, or one that succeeds. *)
Change(s) ==
  /\ subs[s].status \in {"active", "past_due"}
  /\ \E plan \in Offered \cup {subs[s].plan}, status \in {"active", "past_due"} :
       /\ <<plan, status>> # <<subs[s].plan, subs[s].status>>
       /\ subs' = [subs EXCEPT ![s].plan = plan, ![s].status = status]
       /\ Emits("updated", s, plan, status)
       /\ past' = IF status = "active"
                  THEN [past EXCEPT !.granted[subs[s].user] = @ \cup {plan}]
                  ELSE past
  /\ UNCHANGED <<rows, slots, handled, expired, requests, faults>>

Cancel(s) ==
  /\ subs[s].status \in {"active", "past_due"}
  /\ subs' = [subs EXCEPT ![s].status = "canceled"]
  /\ Emits("deleted", s, subs[s].plan, "canceled")
  /\ UNCHANGED <<rows, slots, handled, expired, requests, faults, past>>

------------------------------------------------------------------------------
(* stripe_webhook.                                                         *)

(* Whom the event is about: the user named at the checkout, then the one   *)
(* that has the customer.                                                  *)
Concerned(e) ==
  {u \in Users : Exists(u) /\ IF e.kind = "completed" THEN u = e.user
                              ELSE rows[u].customer = e.sub}

(* Slip: an update counts whatever its status.                             *)
UpdatedAnyway(e, l) ==
  IF e.kind = "completed" THEN [l EXCEPT !.plan = e.plan, !.customer = e.sub]
  ELSE IF e.kind = "deleted" THEN [l EXCEPT !.plan = "basic"]
  ELSE [l EXCEPT !.plan = e.plan]

(* Slip: a customer is recorded once.                                      *)
UpdatedOnce(e, l) ==
  IF e.kind = "completed"
  THEN [l EXCEPT !.plan = e.plan, !.customer = IF @ = NoSub THEN e.sub ELSE @]
  ELSE IF e.kind = "deleted" THEN [l EXCEPT !.plan = "basic"]
  ELSE IF e.status = "active" THEN [l EXCEPT !.plan = e.plan]
  ELSE l

Updated(e, l) ==
  IF e.kind = "completed" THEN [l EXCEPT !.plan = e.plan, !.customer = e.sub]
  ELSE IF e.kind = "deleted" THEN [l EXCEPT !.plan = "basic"]
  ELSE IF e.status = "active" THEN [l EXCEPT !.plan = e.plan]
  ELSE l

Webhooks == {r \in Slots : slots[r].event # 0}

(* An event that is not acknowledged is sent again; one that is may be sent*)
(* again all the same.                                                     *)
Deliver(r, n) ==
  /\ slots[r] = Free
  /\ n \in DOMAIN events
  /\ IF n \in handled THEN Fault ELSE UNCHANGED faults
  /\ past' = [past EXCEPT
                !.ordered = @ /\ Webhooks = {} /\ n \in {past.latest, past.latest + 1},
                !.latest = n]
  /\ \/ /\ Concerned(events[n]) = {}
        /\ handled' = handled \cup {n}
        /\ UNCHANGED slots
     \/ \E u \in Concerned(events[n]) :
          /\ Takes(r, "ready", u, Updated(events[n], rows[u]), n)
          /\ UNCHANGED handled
  /\ UNCHANGED <<rows, stripe, expired, requests>>

------------------------------------------------------------------------------
(* The transaction that writes.                                            *)

Writing == {"ready", "claiming", "resetting", "forced"}

(* The token with which a request sets a password, and that of requests    *)
(* other than r.                                                           *)
Uses(r) == IF slots[r].at = "resetting" THEN {slots[r].loaded.reset} ELSE {}
InHands(r) == UNION {Uses(s) : s \in Slots \ {r}}

Commit(r) ==
  LET u   == slots[r].user
      new == Written(rows[u], slots[r].loaded, slots[r].wanted)
      spent == (Uses(r) \cup ({rows[u].reset} \ {new.reset})) \ {NoToken}
  IN /\ slots[r].at \in Writing
     /\ rows' = [rows EXCEPT ![u] = new]
     /\ Ends(r)
     /\ handled' = handled \cup ({slots[r].event} \ {0})
     /\ past' = [past EXCEPT !.spent = @ \cup spent,
                             !.raced = @ \cup (spent \cap InHands(r))]
     /\ UNCHANGED <<stripe, expired, requests, faults>>

(* The process restarts, or the database raises: nothing is written.       *)
Lose(r) ==
  /\ slots[r] # Free
  /\ Fault
  /\ Ends(r)
  /\ UNCHANGED <<rows, stripe, handled, expired, requests, past>>

------------------------------------------------------------------------------
(* past: plans a user has chosen at registration, was given or has paid    *)
(* for; tokens that were used or replaced, and those of them that another  *)
(* request had found in time; wallets that two accounts were claiming at   *)
(* once; the event delivered last, and whether all were delivered one after*)
(* the other and in order.                                                 *)
Nothing ==
  [granted |-> [u \in Users |-> {}], spent |-> {}, raced |-> {}, contested |-> {},
   latest |-> 0, ordered |-> TRUE]

Init ==
  /\ rows = [u \in Users |-> NoRow]
  /\ slots = [r \in Slots |-> Free]
  /\ subs = [s \in Subs |-> Unsold]
  /\ events = [n \in {} |-> Unsold]
  /\ handled = {}
  /\ expired = {}
  /\ requests = 0
  /\ faults = 0
  /\ past = Nothing

Request(r) ==
  \/ \E u \in Users : \/ Handle(r, u) \/ Wallet(r, u)
                      \/ ForgotPassword(r, u) \/ ResetPassword(r, u)
                      \/ DebugUpdate(r, u)
  \/ CheckWallet(r)

Webhook(r) == \E n \in DOMAIN events : Deliver(r, n)

Stripe ==
  \E s \in Subs : Pay(s) \/ Change(s) \/ Cancel(s) \/ \E u \in Users : Checkout(u, s)

Next ==
  \/ \E r \in Slots : Request(r) \/ Webhook(r) \/ Commit(r) \/ Lose(r)
  \/ \E u \in Users : Register(u) \/ DebugCreate(u) \/ ExpireToken(u)
  \/ SeedAdmin
  \/ Stripe

Spec == Init /\ [][Next]_vars

------------------------------------------------------------------------------
Row == [plan : Plans, position : Nat, trade : {"spot", "futures"}, pairs : Nat,
        mode : {"paper", "live"}, keys : Nat, active : BOOLEAN,
        wallet : Wallets \cup {NoWallet}, password : Nat, reset : Nat,
        customer : Subs \cup {NoSub}, anonymous : BOOLEAN]

ASSUME NoRowAssumption == NoRow \notin Row

Places == {"free", "saving", "linking"} \cup Writing

TypeOK ==
  /\ rows \in [Users -> Row \cup {NoRow}]
  /\ slots \in [Slots -> [at : Places, user : Users \cup {NoUser},
                          loaded : Row \cup {NoRow}, wanted : Row \cup {NoRow},
                          event : 0..MaxEvents]]
  /\ subs \in [Subs -> [user : Users \cup {NoUser}, plan : Plans,
                        status : {"none", "open", "active", "past_due", "canceled"}]]
  /\ DOMAIN events \subseteq 1..MaxEvents
  /\ events \in [DOMAIN events -> [kind : {"completed", "updated", "deleted"},
                                    sub : Subs, user : Users, plan : Plans,
                                    status : {"active", "past_due", "canceled"}]]
  /\ handled \subseteq DOMAIN events
  /\ expired \subseteq 1..MaxRequests
  /\ requests \in 0..MaxRequests
  /\ faults \in 0..MaxFaults
  /\ past \in [granted : [Users -> SUBSET Plans],
               spent : SUBSET (1..MaxRequests), raced : SUBSET (1..MaxRequests),
               contested : SUBSET Wallets, latest : 0..MaxEvents, ordered : BOOLEAN]

------------------------------------------------------------------------------
(* Safety.                                                                 *)

(* The token of a link that was used, or replaced by a newer one, never    *)
(* comes back into the row: requests that loaded the row before commit     *)
(* after, and none that begins later finds the token.                      *)
SpentStaysSpent == \A u \in Users : Exists(u) => rows[u].reset \notin past.spent

(* A link sets one password, and none once a newer one has replaced it,    *)
(* unless two requests had found its token at the same time: the token is  *)
(* not asked for again when the password is written.                       *)
Resets(r) == slots[r].at = "resetting" /\ slots'[r] = Free /\ rows' # rows

LinkSetsOnePassword ==
  [][\A r \in Slots :
       Resets(r) => slots[r].loaded.reset \notin past.spent \ past.raced]_vars

(* Two accounts hold the same wallet only if they were both between looking*)
(* it up and writing it, at the same time; the column is not unique.       *)
SharedOnlyIfContested ==
  \A w \in Wallets : \A a, b \in Holders(w) : a = b \/ w \in past.contested

(* Webhooks that arrive one after the other and in order leave a user whose*)
(* subscriptions have all ended on the basic plan, whichever ended last.   *)
EndedIsBasic ==
  \A u \in Users :
    (/\ past.ordered
     /\ handled = DOMAIN events
     /\ Webhooks = {}
     /\ \E s \in Subs : subs[s].user = u /\ subs[s].status = "canceled"
     /\ \A s \in Subs : subs[s].user = u => subs[s].status \in {"open", "canceled"})
    => rows[u].plan = "basic"

(* In whatever order webhooks arrive, and however often: a plan above the  *)
(* basic one was chosen at registration, given by the debug route or the   *)
(* seeding, or paid for at some time; an old update may restore it.        *)
PlanWasGranted ==
  \A u \in Users : Exists(u) => rows[u].plan \in past.granted[u] \cup {"basic"}

(* What the checks of a handler, made of row l, allow to become of a row.  *)
Allowed(l, before, after) ==
  /\ (after.trade # before.trade /\ after.trade = "futures") => ~SpotOnly(l.plan)
  /\ after.position # before.position => after.position <= MaxPosition(l.plan)
  /\ after.pairs # before.pairs => after.pairs <= MaxPairs(l.plan)
  /\ (after.active /\ ~before.active /\ l.mode = "live") => l.keys # NoKeys

Judged(row) == <<row.plan, row.mode, row.keys = NoKeys>>

(* A request whose checks passed, of a row that has changed since: a plan  *)
(* was lowered, a mode switched to live, or keys were deleted.             *)
Overtaken(r, after) ==
  LET u == slots[r].user
  IN /\ slots[r].at = "ready"
     /\ Judged(slots[r].loaded) # Judged(rows[u])
     /\ Allowed(slots[r].loaded, rows[u], after)

Commits(r, u) == slots[r].user = u /\ slots[r] # Free /\ slots'[r] = Free

(* What the checks forbid is written by a request that was overtaken itself*)
(* after it had been allowed as much, by the debug route, or by the seeding*)
(* of the admin, and by nothing else.                                      *)
ChecksHoldUnlessOvertaken ==
  [][\A u \in Users : Exists(u) =>
       \/ Allowed(rows[u], rows[u], rows'[u])
       \/ \E r \in Slots : /\ Commits(r, u)
                           /\ slots[r].at = "forced" \/ Overtaken(r, rows'[u])
       \/ u = Admin /\ \A r \in Slots : slots[r] = Free]_vars

==============================================================================
