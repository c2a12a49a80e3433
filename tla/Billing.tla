------------------------------ MODULE Billing ------------------------------
(***************************************************************************)
(* The Telegram bot that sells subscriptions (tools/telegram_bot): the     *)
(* billing database, the polling thread that serves users and the          *)
(* administrator, the worker thread that reminds and expires, and the key  *)
(* rows that both put into and take out of the VPN server's database.      *)
(*                                                                         *)
(* Every database call is one transaction; a handler makes several, and    *)
(* the other thread or a crash may come between any two.  The unit of      *)
(* time is 24 hours: the clock does not advance while a handler or a pass  *)
(* of the worker is under way.  A message the bot sends and Telegram loses *)
(* is one that its reader never acts upon.                                 *)
(***************************************************************************)
EXTENDS Integers, FiniteSets, Sequences

CONSTANTS
  Users, Orders, ManualKeys,
  Admin,       \* the one chat for which is_admin holds
  None,
  Days,        \* length of the one plan of config.PLANS, 30 in the code
  PromoDays,   \* what the promo code grants
  MaxUses,     \* uses of the promo code
  MaxNow,      \* bound on the clock
  MaxInbox,    \* bound on the updates Telegram holds for the bot
  MaxCrashes   \* bound on the crashes of the bot process

(* The keys of users and the manual keys are drawn at random.              *)
ASSUME PersonsFresh == /\ Admin \notin Users
                       /\ None \notin Users \cup Orders \cup ManualKeys
                       /\ Users \cap ManualKeys = {}
ASSUME Lengths == /\ Days \in Nat \ {0} /\ PromoDays \in Nat \ {0}
                  /\ MaxUses \in Nat /\ MaxNow \in Nat
                  /\ MaxInbox \in Nat /\ MaxCrashes \in Nat

VARIABLES
  now,
  users,       \* users with a row in the billing database
  expires,     \* sub_expires_at, 0 for NULL
  active,      \* users with is_active = 1
  warned24, warned72,
  status,      \* of each order; "none" if there is no such order
  buyer,       \* the user_id of each order
  payments,    \* orders with a row in payments, "approved_<order>"
  used,        \* users that used the promo code
  issued,      \* manual keys generated
  server,      \* rows of the VPN server's database: <<key, name>>
  inbox,       \* updates Telegram has not seen acknowledged
  fetched,     \* how many of them the last getUpdates returned
  done,        \* how many of those the offset has passed
  pc, subject, \* polling thread: next step, order, user or key worked on
  wpc, list, target, \* worker thread: phase, users listed, user in hand
  seen,        \* how deep into the shop each user's buttons lead
  asked,       \* orders whose buttons the administrator has
  keyed,       \* users who were shown their key
  crashes,
  torn,        \* history: orders paid whose approval was interrupted
  adrift       \* history: users whose last change did not reach the server
               \* database, or overlapped a pass of the worker

clock   == <<now, crashes>>
profile == <<users, expires, active>>
flags   == <<warned24, warned72>>
orders  == <<status, buyer, payments>>
keys    == <<used, issued, server>>
chat    == <<inbox, fetched, done>>
bot     == <<pc, subject>>
worker  == <<wpc, list, target>>
views   == <<seen, asked, keyed>>
history == <<torn, adrift>>
vars == <<clock, profile, flags, orders, keys, chat, bot, worker, views,
          history>>

Names == {"tg_id_name", "tg_id", "manual"}
OfUser  == {"start", "buy", "plan", "submit", "key", "promo", "status", "info"}
OfOrder == {"approve", "reject"}
Update == [kind : OfUser, of : Users] \cup [kind : OfOrder, of : Orders]
            \cup [kind : {"create"}, of : Users \cup {Admin}]

TypeOK ==
  /\ now \in 0..MaxNow /\ crashes \in 0..MaxCrashes
  /\ users \in SUBSET Users /\ expires \in [Users -> Nat]
  /\ active \in SUBSET users
  /\ warned24 \in SUBSET users /\ warned72 \in SUBSET users
  /\ status \in [Orders -> {"none", "pending", "approved", "rejected"}]
  /\ buyer \in [Orders -> Users \cup {None}]
  /\ payments \in SUBSET Orders
  /\ used \in SUBSET users /\ issued \in SUBSET ManualKeys
  /\ server \in SUBSET ((Users \cup ManualKeys) \X Names)
  /\ inbox \in Seq(Update) /\ Len(inbox) <= MaxInbox
  /\ fetched \in 0..Len(inbox) /\ done \in 0..fetched
  /\ pc \in {"idle", "notify", "extend", "sync", "close", "answer",
             "syncPromo", "syncKey"}
  /\ subject \in Users \cup Orders \cup ManualKeys \cup {None}
  /\ wpc \in {"idle", "72h", "24h", "expired", "remove"}
  /\ list \in SUBSET users /\ target \in Users \cup {None}
  /\ seen \in [Users -> 0..3] /\ asked \in SUBSET Orders
  /\ keyed \in SUBSET Users
  /\ torn \in SUBSET Orders /\ adrift \in SUBSET Users

Init ==
  /\ now = 0 /\ crashes = 0
  /\ users = {} /\ expires = [u \in Users |-> 0] /\ active = {}
  /\ warned24 = {} /\ warned72 = {}
  /\ status = [o \in Orders |-> "none"]
  /\ buyer = [o \in Orders |-> None]
  /\ payments = {} /\ used = {} /\ issued = {} /\ server = {}
  /\ inbox = << >> /\ fetched = 0 /\ done = 0
  /\ pc = "idle" /\ subject = None
  /\ wpc = "idle" /\ list = {} /\ target = None
  /\ seen = [u \in Users |-> 0] /\ asked = {} /\ keyed = {}
  /\ torn = {} /\ adrift = {}

-----------------------------------------------------------------------------
(* Telegram: users and the administrator press the buttons they have or    *)
(* type commands; getUpdates acknowledges everything before the offset.    *)

Available(m) ==
  CASE m.kind = "plan"   -> seen[m.of] >= 2
    [] m.kind = "submit" -> seen[m.of] >= 3
    [] m.kind \in OfOrder -> m.of \in asked
    [] OTHER -> TRUE

Send(m) ==
  /\ Len(inbox) < MaxInbox
  /\ Available(m)
  /\ inbox' = Append(inbox, m)
  /\ UNCHANGED <<clock, profile, flags, orders, keys, fetched, done, bot,
                 worker, views, history>>

Poll ==
  /\ pc = "idle" /\ done = fetched
  /\ inbox' = SubSeq(inbox, done + 1, Len(inbox))
  /\ fetched' = Len(inbox')
  /\ done' = 0
  /\ UNCHANGED <<clock, profile, flags, orders, keys, bot, worker, views,
                 history>>

(* The offset passes an update before it is processed.                     *)
Handle(kind) ==
  /\ pc = "idle" /\ done < fetched
  /\ inbox[done + 1].kind = kind
  /\ done' = done + 1
  /\ UNCHANGED <<inbox, fetched>>

From == inbox[done + 1].of

-----------------------------------------------------------------------------
(* Handlers that end with their first database call.                       *)

(* Mutated form: every answer leads further.                               *)
DeeperMut(u, level) == [seen EXCEPT ![u] = @ + level]
Deeper(u, level) ==
  [seen EXCEPT ![u] = IF @ < level THEN level ELSE @]

GetOrCreateUser(u) == users' = users \cup {u}

HandleStart ==
  /\ Handle("start")
  /\ GetOrCreateUser(From)
  /\ seen' = Deeper(From, 1)
  /\ UNCHANGED <<clock, expires, active, flags, orders, keys, bot, worker,
                 asked, keyed, history>>

(* The status page reads a field that check_subscription_status does not   *)
(* return: the exception loses the update.                                 *)
HandleStatus ==
  /\ Handle("status")
  /\ UNCHANGED <<clock, profile, flags, orders, keys, bot, worker, views,
                 history>>

(* Downloads, support, the protocol, any other text: the way back to the   *)
(* main keyboard and nothing else.                                         *)
HandleInfo ==
  /\ Handle("info")
  /\ seen' = Deeper(From, 1)
  /\ UNCHANGED <<clock, profile, flags, orders, keys, bot, worker, asked,
                 keyed, history>>

HandleBuyMenu ==
  /\ Handle("buy")
  /\ seen' = Deeper(From, 2)
  /\ UNCHANGED <<clock, profile, flags, orders, keys, bot, worker, asked,
                 keyed, history>>

HandleSelectPlan ==
  /\ Handle("plan")
  /\ seen' = Deeper(From, 3)
  /\ UNCHANGED <<clock, profile, flags, orders, keys, bot, worker, asked,
                 keyed, history>>

(* check_subscription_status: is_active plays no part.                     *)
Subscribed(u) == u \in users /\ expires[u] > now

ShowKey(u) == keyed' = IF Subscribed(u) THEN keyed \cup {u} ELSE keyed

HandleGetKey ==
  /\ Handle("key")
  /\ ShowKey(From)
  /\ UNCHANGED <<clock, profile, flags, orders, keys, bot, worker, seen,
                 asked, history>>

(* Mutated form: an order may be decided whatever its status is.           *)
DecidableMut(o) == status[o] # "none"
Decidable(o) == status[o] = "pending"

RejectOrder(o) ==
  status' = IF Decidable(o) THEN [status EXCEPT ![o] = "rejected"] ELSE status

HandleReject ==
  /\ Handle("reject")
  /\ RejectOrder(From)
  /\ UNCHANGED <<clock, profile, flags, buyer, payments, keys, bot, worker,
                 views, history>>

-----------------------------------------------------------------------------
(* submit_order: the id is drawn at random.  One that exists raises, and   *)
(* the update is lost.                                                     *)

CreateOrder(o, u) ==
  /\ status' = [status EXCEPT ![o] = "pending"]
  /\ buyer' = [buyer EXCEPT ![o] = u]

HandleSubmit ==
  /\ Handle("submit")
  /\ \E o \in Orders :
       IF status[o] = "none"
       THEN CreateOrder(o, From) /\ pc' = "notify" /\ subject' = o
       ELSE UNCHANGED <<status, buyer, bot>>
  /\ UNCHANGED <<clock, profile, flags, payments, keys, worker, views,
                 history>>

NotifyAdmin ==
  /\ pc = "notify"
  /\ asked' = asked \cup {subject}
  /\ pc' = "idle" /\ subject' = None
  /\ UNCHANGED <<clock, profile, flags, orders, keys, chat, worker, seen,
                 keyed, history>>

-----------------------------------------------------------------------------
(* approve_order: check the order; extend_subscription, one transaction    *)
(* and a row in the server's database; close the order; show the key.      *)

ApproveOrder ==
  /\ Handle("approve")
  /\ IF Decidable(From) /\ buyer[From] \in users
     THEN pc' = "extend" /\ subject' = From
     ELSE UNCHANGED bot
  /\ UNCHANGED <<clock, profile, flags, orders, keys, worker, views, history>>

(* The new expiry: from the present one if that lies ahead, else from now. *)
Later(u, days) == (IF expires[u] > now THEN expires[u] ELSE now) + days

(* Mutated form: only one of the two reminders is armed again.             *)
RearmMut(u) == warned24' = warned24 /\ warned72' = warned72 \ {u}
Rearm(u) == warned24' = warned24 \ {u} /\ warned72' = warned72 \ {u}

InHand(u) == u \in list \cup {target}

(* payment_id is UNIQUE: a second payment of an order raises and rolls     *)
(* back.  Only this thread writes expires: what it read still holds.       *)
(* Mutated form: without the constraint.                                   *)
PaidMut(o) == FALSE
Paid(o) == o \in payments

ExtendSubscription ==
  LET u == buyer[subject] IN
  /\ pc = "extend"
  /\ IF Paid(subject)
     THEN /\ pc' = "idle" /\ subject' = None
          /\ UNCHANGED <<payments, profile, flags, adrift>>
     ELSE /\ payments' = payments \cup {subject}
          /\ expires' = [expires EXCEPT ![u] = Later(u, Days)]
          /\ active' = active \cup {u}
          /\ Rearm(u)
          /\ adrift' = IF InHand(u) THEN adrift \cup {u} ELSE adrift \ {u}
          /\ pc' = "sync"
          /\ UNCHANGED <<users, subject>>
  /\ UNCHANGED <<clock, status, buyer, keys, chat, worker, views, torn>>

(* sync_add_user_to_server.  A failure is reported by the result, which    *)
(* no caller looks at, or raised if the tables cannot be prepared.         *)
SyncAdd(key, name) == server' = server \cup {<<key, name>>}

SyncOrder ==
  LET u == buyer[subject] IN
  /\ pc = "sync"
  /\ \/ SyncAdd(u, "tg_id_name") /\ pc' = "close"
        /\ UNCHANGED <<subject, torn, adrift>>
     \/ UNCHANGED server /\ adrift' = adrift \cup {u}
        /\ pc' = "close" /\ UNCHANGED <<subject, torn>>
     \/ UNCHANGED server /\ adrift' = adrift \cup {u}
        /\ torn' = torn \cup {subject}
        /\ pc' = "idle" /\ subject' = None
  /\ UNCHANGED <<clock, profile, flags, orders, used, issued, chat, worker,
                 views>>

CloseOrder(o) == status' = [status EXCEPT ![o] = "approved"]

(* The last transaction may raise: the payment stands, the update is lost. *)
CloseApproval ==
  /\ pc = "close"
  /\ \/ CloseOrder(subject) /\ pc' = "answer"
        /\ UNCHANGED <<subject, torn>>
     \/ torn' = torn \cup {subject}
        /\ pc' = "idle" /\ subject' = None /\ UNCHANGED status
  /\ UNCHANGED <<clock, profile, flags, buyer, payments, keys, chat, worker,
                 views, adrift>>

AnswerApproval ==
  /\ pc = "answer"
  /\ ShowKey(buyer[subject])
  /\ pc' = "idle" /\ subject' = None
  /\ UNCHANGED <<clock, profile, flags, orders, keys, chat, worker, seen,
                 asked, history>>

-----------------------------------------------------------------------------
(* /promo: one transaction, which leaves the reminders as they were, and a *)
(* row under a name of its own.                                            *)

PromoOpen(u) == Cardinality(used) < MaxUses /\ u \notin used

ApplyPromocode ==
  /\ Handle("promo")
  /\ IF PromoOpen(From) /\ From \in users
     THEN /\ used' = used \cup {From}
          /\ expires' = [expires EXCEPT ![From] = Later(From, PromoDays)]
          /\ active' = active \cup {From}
          /\ adrift' = IF InHand(From) THEN adrift \cup {From}
                                       ELSE adrift \ {From}
          /\ pc' = "syncPromo" /\ subject' = From
     ELSE UNCHANGED <<used, expires, active, adrift, bot>>
  /\ UNCHANGED <<clock, users, flags, orders, issued, server, worker, views,
                 torn>>

SyncPromo ==
  /\ pc = "syncPromo"
  /\ \/ SyncAdd(subject, "tg_id") /\ UNCHANGED adrift
     \/ UNCHANGED server /\ adrift' = adrift \cup {subject}
  /\ pc' = "idle" /\ subject' = None
  /\ UNCHANGED <<clock, profile, flags, orders, used, issued, chat, worker,
                 views, torn>>

(* /create_key, for the administrator only.                                *)
IsAdmin(chat_id) == chat_id = Admin

CreateManualKey ==
  /\ Handle("create")
  /\ IF IsAdmin(From) /\ issued # ManualKeys
     THEN \E k \in ManualKeys \ issued :
            /\ issued' = issued \cup {k}
            /\ pc' = "syncKey" /\ subject' = k
     ELSE UNCHANGED <<issued, bot>>
  /\ UNCHANGED <<clock, profile, flags, orders, used, server, worker, views,
                 history>>

SyncManualKey ==
  /\ pc = "syncKey"
  /\ SyncAdd(subject, "manual") \/ UNCHANGED server
  /\ pc' = "idle" /\ subject' = None
  /\ UNCHANGED <<clock, profile, flags, orders, used, issued, chat, worker,
                 views, history>>

-----------------------------------------------------------------------------
(* The worker: the 72-hour reminders, the 24-hour reminders, the expired.  *)
(* Each list is read once, then worked through user by user.               *)

GetExpiringUsers(from, to, flag) ==
  {u \in active \ flag : now + from <= expires[u] /\ expires[u] <= now + to}

(* Mutated form: only those who were reminded.                             *)
GetExpiredActiveUsersMut == {u \in active \cap warned24 : expires[u] < now}
GetExpiredActiveUsers == {u \in active : expires[u] < now}

BeginPass ==
  /\ wpc = "idle"
  /\ wpc' = "72h" /\ list' = GetExpiringUsers(2, 3, warned72)
  /\ UNCHANGED <<clock, profile, flags, orders, keys, chat, bot, target,
                 views, history>>

MarkReminderSent ==
  /\ wpc \in {"72h", "24h"}
  /\ \E u \in list :
       /\ list' = list \ {u}
       /\ IF wpc = "72h"
          THEN warned72' = warned72 \cup {u} /\ UNCHANGED warned24
          ELSE warned24' = warned24 \cup {u} /\ UNCHANGED warned72
  /\ UNCHANGED <<clock, profile, orders, keys, chat, bot, wpc, target, views,
                 history>>

NextList ==
  /\ list = {}
  /\ \/ /\ wpc = "72h"
        /\ wpc' = "24h" /\ list' = GetExpiringUsers(0, 1, warned24)
     \/ /\ wpc = "24h"
        /\ wpc' = "expired" /\ list' = GetExpiredActiveUsers
  /\ UNCHANGED <<clock, profile, flags, orders, keys, chat, bot, target,
                 views, history>>

(* deactivate_user: one transaction, then the server's database.           *)
DeactivateUser ==
  /\ wpc = "expired"
  /\ \E u \in list :
       /\ active' = active \ {u}
       /\ list' = list \ {u} /\ target' = u
  /\ wpc' = "remove"
  /\ UNCHANGED <<clock, users, expires, flags, orders, keys, chat, bot, views,
                 history>>

(* sync_remove_user_from_server deletes by key: every row of the user.     *)
(* Mutated form: the row of the user's name only.                          *)
DeletedMut(u) == {<<u, "tg_id_name">>}
Deleted(u) == {u} \X Names

(* It may fail, or raise and end the pass; is_active is 0 by then, and no  *)
(* later pass lists the user again.                                        *)
RemoveUser ==
  /\ wpc = "remove"
  /\ \/ /\ server' = server \ Deleted(target)
        /\ wpc' = "expired" /\ UNCHANGED <<list, adrift>>
     \/ /\ adrift' = adrift \cup {target}
        /\ wpc' = "expired" /\ UNCHANGED <<list, server>>
     \/ /\ adrift' = adrift \cup {target}
        /\ wpc' = "idle" /\ list' = {} /\ UNCHANGED server
  /\ target' = None
  /\ UNCHANGED <<clock, profile, flags, orders, used, issued, chat, bot,
                 views, torn>>

EndPass ==
  /\ wpc = "expired" /\ list = {}
  /\ wpc' = "idle"
  /\ UNCHANGED <<clock, profile, flags, orders, keys, chat, bot, list, target,
                 views, history>>

-----------------------------------------------------------------------------
Tick ==
  /\ pc = "idle" /\ wpc = "idle" /\ now < MaxNow
  /\ now' = now + 1
  /\ UNCHANGED <<crashes, profile, flags, orders, keys, chat, bot, worker,
                 views, history>>

(* The process is killed and started again: both threads begin anew, with  *)
(* offset 0, for which Telegram returns all that was not acknowledged.     *)
Crash ==
  /\ crashes < MaxCrashes
  /\ crashes' = crashes + 1
  /\ fetched' = 0 /\ done' = 0
  /\ pc' = "idle" /\ subject' = None
  /\ wpc' = "idle" /\ list' = {} /\ target' = None
  /\ torn' = IF pc \in {"sync", "close"} THEN torn \cup {subject} ELSE torn
  /\ adrift' = adrift
               \cup (IF pc = "sync" THEN {buyer[subject]} ELSE {})
               \cup (IF pc = "syncPromo" THEN {subject} ELSE {})
               \cup (IF wpc = "remove" THEN {target} ELSE {})
  /\ UNCHANGED <<now, profile, flags, orders, keys, inbox, views>>

Polling ==
  \/ Poll
  \/ HandleStart \/ HandleStatus \/ HandleInfo \/ HandleBuyMenu
  \/ HandleSelectPlan \/ HandleGetKey
  \/ HandleSubmit \/ NotifyAdmin
  \/ ApproveOrder \/ ExtendSubscription \/ SyncOrder \/ CloseApproval
  \/ AnswerApproval \/ HandleReject
  \/ ApplyPromocode \/ SyncPromo
  \/ CreateManualKey \/ SyncManualKey

CheckExpirations ==
  BeginPass \/ MarkReminderSent \/ NextList \/ DeactivateUser \/ RemoveUser
  \/ EndPass

Next == Polling \/ CheckExpirations \/ Tick \/ Crash
        \/ \E m \in Update : Send(m)

Spec == Init /\ [][Next]_vars

(* The worker's loop never stops: an error ends a pass, and the next one   *)
(* begins a minute later.                                                  *)
Fairness == WF_vars(CheckExpirations)
LiveSpec == Spec /\ Fairness

-----------------------------------------------------------------------------
OrdersPaid(u) == {o \in payments : buyer[o] = u}
RowsOf(u) == {row \in server : row[1] = u}
DaysBought(u) ==
  Days * Cardinality(OrdersPaid(u)) + (IF u \in used THEN PromoDays ELSE 0)

(* Every day a user was granted counts, and counts once: no crash, no      *)
(* repeated click and no update delivered again after a restart adds days  *)
(* to an order twice, and an extension before the end loses none.          *)
PaidDays ==
  \A u \in Users :
    /\ DaysBought(u) <= expires[u]
    /\ expires[u] <= now + DaysBought(u)

(* An order and its payment agree: what is approved was paid for, and what *)
(* was paid for is approved, or about to be, or was interrupted between    *)
(* the two transactions, in which case the payment stands whatever the     *)
(* administrator decides next.  Nobody is shown a key who has neither paid *)
(* nor used the promo code.                                                *)
PaymentsMatchOrders ==
  /\ \A o \in Orders : status[o] = "approved" => o \in payments
  /\ \A o \in payments :
       \/ status[o] = "approved"
       \/ subject = o /\ pc \in {"sync", "close"}
       \/ o \in torn
  /\ \A u \in keyed : DaysBought(u) > 0

(* Whenever both threads rest, the key rows in the VPN server's database   *)
(* are those of the active subscriptions, except where an update of that   *)
(* database failed or the worker held the user in hand during a payment.   *)
ServerFollows ==
  \A u \in Users \ adrift :
    ~ (subject # None /\ pc = "sync" /\ buyer[subject] = u)
    /\ ~ (pc = "syncPromo" /\ subject = u) /\ ~ (wpc = "remove" /\ target = u)
      => (u \in active <=> RowsOf(u) # {})

(* A reminder that is marked as sent is the one of the present period: the *)
(* end is near.  A promo code does not arm the reminders again, nor does a *)
(* payment made between the worker's list and its mark.                    *)
RemindersOfPeriod ==
  \A u \in Users \ (adrift \cup used) :
    /\ u \in warned24 => expires[u] <= now + 1
    /\ u \in warned72 => expires[u] <= now + 3

(* A subscription that ran out ends: every user whose subscription is over *)
(* is deactivated and loses the key rows, or has renewed, although a user  *)
(* may renew while the worker has the list, and a removal that raises ends *)
(* the pass with others on it.  Rows stay only if the server's database    *)
(* could not be written or the renewal came while the worker had the user. *)
Expired(u) == u \in active /\ expires[u] < now
Served(u)  == u \notin active /\ (RowsOf(u) = {} \/ u \in adrift)
ExpiryServed == \A u \in Users : Expired(u) ~> Served(u) \/ expires[u] >= now
=============================================================================
