--------------------------- MODULE BillingProofs ---------------------------
(***************************************************************************)
(* What the bot keeps of its books, for any number of customers, orders,   *)
(* keys, promo uses, days and crashes.                                     *)
(***************************************************************************)
EXTENDS Billing, FiniteSetTheorems, TLAPS

(* What each step of the two threads has in hand.                          *)
Steps ==
  /\ pc \in {"notify", "extend", "sync", "close", "answer"} =>
       subject \in Orders
  /\ pc \in {"extend", "sync", "close", "answer"} => buyer[subject] \in users
  /\ pc = "syncPromo" => subject \in users
  /\ pc = "syncKey" => subject \in ManualKeys
  /\ wpc = "remove" => target \in users
  /\ wpc # "remove" => target = None
  /\ wpc = "idle" => list = {}

(* An order is paid once it was created, by somebody the bot knows.        *)
Ledger ==
  /\ \A o \in payments : status[o] # "none" /\ buyer[o] \in users
  /\ pc \in {"notify", "extend", "sync", "close", "answer"} =>
       status[subject] # "none"
  /\ IsFiniteSet(payments)

(* Whoever has just paid, or used the code, is subscribed and active until *)
(* the server's database is written, unless the worker had them in hand.   *)
JustPaid ==
  \A u \in Users :
    /\ pc = "sync" /\ u = buyer[subject] =>
         expires[u] > now /\ u \in adrift \cup active
    /\ pc = "syncPromo" /\ u = subject =>
         expires[u] > now /\ u \in adrift \cup active

(* The worker's lists hold what they were read for, except for those whose *)
(* subscription changed while they were listed.                            *)
Listed ==
  \A u \in Users \ adrift :
    /\ wpc = "expired" /\ u \in list => expires[u] < now
    /\ wpc = "remove" /\ (u \in list \/ u = target) => expires[u] < now
    /\ u = target => u \notin active

(* So do the lists of those to be reminded.                                *)
Reminded ==
  \A u \in Users \ (adrift \cup used) :
    /\ wpc = "72h" /\ u \in list => expires[u] <= now + 3
    /\ wpc = "24h" /\ u \in list => expires[u] <= now + 1

(* An order is paid when it is approved, or the approval is at work or was *)
(* interrupted.                                                            *)
OrdersMatch ==
  /\ \A o \in Orders : status[o] = "approved" => o \in payments
  /\ \A o \in payments :
       \/ status[o] = "approved"
       \/ subject = o /\ pc \in {"sync", "close"}
       \/ o \in torn
  /\ pc \in {"sync", "close"} => subject \in payments

KeyedPaid == \A u \in keyed : DaysBought(u) > 0

BillInv ==
  /\ TypeOK /\ Steps /\ Ledger
  /\ PaidDays /\ OrdersMatch /\ KeyedPaid
  /\ JustPaid /\ Listed /\ ServerFollows
  /\ Reminded /\ RemindersOfPeriod

-----------------------------------------------------------------------------
(* Types and steps.                                                        *)

ChatTypes ==
  /\ inbox \in Seq(Update) /\ Len(inbox) <= MaxInbox
  /\ fetched \in 0..Len(inbox) /\ done \in 0..fetched

BookTypes ==
  /\ now \in 0..MaxNow /\ crashes \in 0..MaxCrashes
  /\ users \in SUBSET Users /\ expires \in [Users -> Nat]
  /\ active \in SUBSET users
  /\ warned24 \in SUBSET users /\ warned72 \in SUBSET users
  /\ status \in [Orders -> {"none", "pending", "approved", "rejected"}]
  /\ buyer \in [Orders -> Users \cup {None}]
  /\ payments \in SUBSET Orders
  /\ used \in SUBSET users /\ issued \in SUBSET ManualKeys
  /\ server \in SUBSET ((Users \cup ManualKeys) \X Names)
  /\ pc \in {"idle", "notify", "extend", "sync", "close", "answer",
             "syncPromo", "syncKey"}
  /\ subject \in Users \cup Orders \cup ManualKeys \cup {None}
  /\ wpc \in {"idle", "72h", "24h", "expired", "remove"}
  /\ list \in SUBSET users /\ target \in Users \cup {None}
  /\ seen \in [Users -> 0..3] /\ asked \in SUBSET Orders
  /\ keyed \in SUBSET Users
  /\ torn \in SUBSET Orders /\ adrift \in SUBSET Users

LEMMA TypesSplit ==
  /\ TypeOK <=> BookTypes /\ ChatTypes
  /\ TypeOK' <=> BookTypes' /\ ChatTypes'
BY DEF TypeOK, BookTypes, ChatTypes

LEMMA InitTypes == Init => TypeOK /\ Steps /\ Ledger
<1> SUFFICES ASSUME Init PROVE TypeOK /\ Steps /\ Ledger
  OBVIOUS
<1>1. ChatTypes
  BY Lengths DEF Init, ChatTypes
<1>2. BookTypes
  BY Lengths DEF Init, BookTypes
<1>3. Steps /\ Ledger
  BY FS_EmptySet DEF Init, Steps, Ledger
<1> QED
  BY <1>1, <1>2, <1>3, TypesSplit

(* A handler is given an update that its kind describes.                   *)
LEMMA HandleTypes ==
  ASSUME TypeOK, NEW kind, Handle(kind)
  PROVE  /\ ChatTypes' /\ pc = "idle"
         /\ kind \in OfUser => From \in Users
         /\ kind \in OfOrder => From \in Orders
<1>1. done + 1 \in 1..Len(inbox) /\ inbox[done + 1] \in Update
  BY DEF TypeOK, Handle
<1>2. ChatTypes'
  BY <1>1 DEF Handle, ChatTypes, TypeOK
<1>3. /\ kind \in OfUser => From \in Users
      /\ kind \in OfOrder => From \in Orders
  BY <1>1 DEF Handle, From, Update, OfUser, OfOrder
<1> QED
  BY <1>2, <1>3 DEF Handle

LEMMA SendTypes ==
  ASSUME TypeOK, NEW m \in Update, Send(m)
  PROVE  ChatTypes'
BY Lengths DEF TypeOK, Send, ChatTypes

LEMMA PollTypes ==
  ASSUME TypeOK, Poll
  PROVE  ChatTypes'
<1>1. inbox' \in Seq(Update) /\ Len(inbox') = Len(inbox) - done
  BY DEF TypeOK, Poll
<1> QED
  BY <1>1, Lengths DEF TypeOK, Poll, ChatTypes

Books == BookTypes /\ Steps /\ Ledger

(* The handlers that an update starts.                                     *)
LEMMA HandlersKeepBooks ==
  ASSUME TypeOK, Books,
         \/ HandleStart \/ HandleStatus \/ HandleInfo \/ HandleBuyMenu
         \/ HandleSelectPlan \/ HandleGetKey \/ HandleSubmit \/ ApproveOrder
         \/ HandleReject \/ ApplyPromocode \/ CreateManualKey
  PROVE  Books' /\ ChatTypes'
<1> USE DEF clock, profile, flags, orders, keys, bot, worker, views, history
<1>1. CASE HandleStart
  <2>1. Handle("start") /\ ChatTypes' /\ pc = "idle"
    BY <1>1, HandleTypes DEF HandleStart
  <2>2. From \in Users
    BY <2>1, HandleTypes DEF OfUser, OfOrder
  <2>3. BookTypes'
    BY <1>1, <2>1, <2>2, Lengths
       DEF HandleStart, Books, BookTypes, GetOrCreateUser, Deeper
  <2>4. Steps'
    BY <1>1, <2>1, <2>2 DEF HandleStart, Books, BookTypes, Steps, Ledger,
                            GetOrCreateUser, Deeper
  <2>5. Ledger'
    BY <1>1, <2>1, <2>2
       DEF HandleStart, Books, BookTypes, Steps, Ledger, GetOrCreateUser,
           Deeper
  <2> QED
    BY <2>1, <2>3, <2>4, <2>5 DEF Books
<1>2. CASE HandleStatus
  <2>1. Handle("status") /\ ChatTypes' /\ pc = "idle"
    BY <1>2, HandleTypes DEF HandleStatus
  <2>2. BookTypes'
    BY <1>2, <2>1, Lengths DEF HandleStatus, Books, BookTypes
  <2>3. Steps'
    BY <1>2, <2>1 DEF HandleStatus, Books, BookTypes, Steps, Ledger
  <2>4. Ledger'
    BY <1>2, <2>1
       DEF HandleStatus, Books, BookTypes, Steps, Ledger
  <2> QED
    BY <2>1, <2>2, <2>3, <2>4 DEF Books
<1>3. CASE HandleInfo
  <2>1. Handle("info") /\ ChatTypes' /\ pc = "idle"
    BY <1>3, HandleTypes DEF HandleInfo
  <2>2. From \in Users
    BY <2>1, HandleTypes DEF OfUser, OfOrder
  <2>3. BookTypes'
    BY <1>3, <2>1, <2>2, Lengths DEF HandleInfo, Books, BookTypes, Deeper
  <2>4. Steps'
    BY <1>3, <2>1, <2>2 DEF HandleInfo, Books, BookTypes, Steps, Ledger, Deeper
  <2>5. Ledger'
    BY <1>3, <2>1, <2>2
       DEF HandleInfo, Books, BookTypes, Steps, Ledger, Deeper
  <2> QED
    BY <2>1, <2>3, <2>4, <2>5 DEF Books
<1>4. CASE HandleBuyMenu
  <2>1. Handle("buy") /\ ChatTypes' /\ pc = "idle"
    BY <1>4, HandleTypes DEF HandleBuyMenu
  <2>2. From \in Users
    BY <2>1, HandleTypes DEF OfUser, OfOrder
  <2>3. BookTypes'
    BY <1>4, <2>1, <2>2, Lengths DEF HandleBuyMenu, Books, BookTypes, Deeper
  <2>4. Steps'
    BY <1>4, <2>1, <2>2 DEF HandleBuyMenu, Books, BookTypes, Steps, Ledger,
                            Deeper
  <2>5. Ledger'
    BY <1>4, <2>1, <2>2
       DEF HandleBuyMenu, Books, BookTypes, Steps, Ledger, Deeper
  <2> QED
    BY <2>1, <2>3, <2>4, <2>5 DEF Books
<1>5. CASE HandleSelectPlan
  <2>1. Handle("plan") /\ ChatTypes' /\ pc = "idle"
    BY <1>5, HandleTypes DEF HandleSelectPlan
  <2>2. From \in Users
    BY <2>1, HandleTypes DEF OfUser, OfOrder
  <2>3. BookTypes'
    BY <1>5, <2>1, <2>2, Lengths DEF HandleSelectPlan, Books, BookTypes, Deeper
  <2>4. Steps'
    BY <1>5, <2>1, <2>2 DEF HandleSelectPlan, Books, BookTypes, Steps, Ledger,
                            Deeper
  <2>5. Ledger'
    BY <1>5, <2>1, <2>2
       DEF HandleSelectPlan, Books, BookTypes, Steps, Ledger, Deeper
  <2> QED
    BY <2>1, <2>3, <2>4, <2>5 DEF Books
<1>6. CASE HandleGetKey
  <2>1. Handle("key") /\ ChatTypes' /\ pc = "idle"
    BY <1>6, HandleTypes DEF HandleGetKey
  <2>2. From \in Users
    BY <2>1, HandleTypes DEF OfUser, OfOrder
  <2>3. BookTypes'
    BY <1>6, <2>1, <2>2, Lengths DEF HandleGetKey, Books, BookTypes, ShowKey
  <2>4. Steps'
    BY <1>6, <2>1, <2>2 DEF HandleGetKey, Books, BookTypes, Steps, Ledger,
                            ShowKey
  <2>5. Ledger'
    BY <1>6, <2>1, <2>2
       DEF HandleGetKey, Books, BookTypes, Steps, Ledger, ShowKey
  <2> QED
    BY <2>1, <2>3, <2>4, <2>5 DEF Books
<1>7. CASE HandleSubmit
  <2>1. Handle("submit") /\ ChatTypes' /\ pc = "idle"
    BY <1>7, HandleTypes DEF HandleSubmit
  <2>2. From \in Users
    BY <2>1, HandleTypes DEF OfUser, OfOrder
  <2>3. BookTypes'
    BY <1>7, <2>1, <2>2, Lengths
       DEF HandleSubmit, Books, BookTypes, CreateOrder
  <2>4. Steps'
    BY <1>7, <2>1, <2>2 DEF HandleSubmit, Books, BookTypes, Steps, Ledger,
                            CreateOrder
  <2>5. Ledger'
    BY <1>7, <2>1, <2>2
       DEF HandleSubmit, Books, BookTypes, Steps, Ledger, CreateOrder
  <2> QED
    BY <2>1, <2>3, <2>4, <2>5 DEF Books
<1>8. CASE ApproveOrder
  <2>1. Handle("approve") /\ ChatTypes' /\ pc = "idle"
    BY <1>8, HandleTypes DEF ApproveOrder
  <2>2. From \in Orders
    BY <2>1, HandleTypes DEF OfUser, OfOrder
  <2>3. BookTypes'
    BY <1>8, <2>1, <2>2, Lengths DEF ApproveOrder, Books, BookTypes, Decidable
  <2>4. Steps'
    BY <1>8, <2>1, <2>2 DEF ApproveOrder, Books, BookTypes, Steps, Ledger,
                            Decidable
  <2>5. Ledger'
    BY <1>8, <2>1, <2>2
       DEF ApproveOrder, Books, BookTypes, Steps, Ledger, Decidable
  <2> QED
    BY <2>1, <2>3, <2>4, <2>5 DEF Books
<1>9. CASE HandleReject
  <2>1. Handle("reject") /\ ChatTypes' /\ pc = "idle"
    BY <1>9, HandleTypes DEF HandleReject
  <2>2. From \in Orders
    BY <2>1, HandleTypes DEF OfUser, OfOrder
  <2>3. BookTypes'
    BY <1>9, <2>1, <2>2, Lengths
       DEF HandleReject, Books, BookTypes, RejectOrder, Decidable
  <2>4. Steps'
    BY <1>9, <2>1, <2>2 DEF HandleReject, Books, BookTypes, Steps, Ledger,
                            RejectOrder, Decidable
  <2>5. Ledger'
    BY <1>9, <2>1, <2>2
       DEF HandleReject, Books, BookTypes, Steps, Ledger, RejectOrder,
           Decidable
  <2> QED
    BY <2>1, <2>3, <2>4, <2>5 DEF Books
<1>10. CASE ApplyPromocode
  <2>1. Handle("promo") /\ ChatTypes' /\ pc = "idle"
    BY <1>10, HandleTypes DEF ApplyPromocode
  <2>2. From \in Users
    BY <2>1, HandleTypes DEF OfUser, OfOrder
  <2>3. BookTypes'
    BY <1>10, <2>1, <2>2, Lengths
       DEF ApplyPromocode, Books, BookTypes, Later, InHand, PromoOpen
  <2>4. Steps'
    BY <1>10, <2>1, <2>2 DEF ApplyPromocode, Books, BookTypes, Steps, Ledger,
                             Later, InHand, PromoOpen
  <2>5. Ledger'
    BY <1>10, <2>1, <2>2
       DEF ApplyPromocode, Books, BookTypes, Steps, Ledger, Later, InHand,
           PromoOpen
  <2> QED
    BY <2>1, <2>3, <2>4, <2>5 DEF Books
<1>11. CASE CreateManualKey
  <2>1. Handle("create") /\ ChatTypes' /\ pc = "idle"
    BY <1>11, HandleTypes DEF CreateManualKey
  <2>2. BookTypes'
    BY <1>11, <2>1, Lengths DEF CreateManualKey, Books, BookTypes
  <2>3. Steps'
    BY <1>11, <2>1 DEF CreateManualKey, Books, BookTypes, Steps, Ledger
  <2>4. Ledger'
    BY <1>11, <2>1
       DEF CreateManualKey, Books, BookTypes, Steps, Ledger
  <2> QED
    BY <2>1, <2>2, <2>3, <2>4 DEF Books
<1> QED
  BY <1>1, <1>2, <1>3, <1>4, <1>5, <1>6, <1>7, <1>8, <1>9, <1>10, <1>11

(* What they do next.                                                      *)
LEMMA CallsKeepBooks ==
  ASSUME TypeOK, Books,
         \/ NotifyAdmin \/ ExtendSubscription \/ SyncOrder \/ CloseApproval
         \/ AnswerApproval \/ SyncPromo \/ SyncManualKey
  PROVE  Books'
<1> USE PersonsFresh DEF clock, profile, flags, orders, keys, bot, worker,
                         views, history
<1>1. CASE NotifyAdmin
  <2>1. BookTypes'
    BY <1>1, Lengths DEF NotifyAdmin, Books, BookTypes, Steps
  <2>2. Steps'
    BY <1>1 DEF NotifyAdmin, Books, BookTypes, Steps, Ledger
  <2>3. Ledger'
    BY <1>1 DEF NotifyAdmin, Books, BookTypes, Steps, Ledger
  <2> QED
    BY <2>1, <2>2, <2>3 DEF Books
<1>2. CASE ExtendSubscription
  <2>1. BookTypes'
    BY <1>2, Lengths DEF ExtendSubscription, Books, BookTypes, Steps, Later,
                         InHand, Rearm, Paid
  <2>2. Steps'
    BY <1>2 DEF ExtendSubscription, Books, BookTypes, Steps, Ledger, Later,
                InHand, Rearm, Paid
  <2>3. Ledger'
    BY <1>2, FS_AddElement DEF ExtendSubscription, Books, BookTypes, Steps,
                               Ledger, Later, InHand, Rearm, Paid
  <2> QED
    BY <2>1, <2>2, <2>3 DEF Books
<1>3. CASE SyncOrder
  <2>1. BookTypes'
    BY <1>3, Lengths DEF SyncOrder, Books, BookTypes, Steps, SyncAdd, Names
  <2>2. Steps'
    BY <1>3 DEF SyncOrder, Books, BookTypes, Steps, Ledger, SyncAdd, Names
  <2>3. Ledger'
    BY <1>3 DEF SyncOrder, Books, BookTypes, Steps, Ledger, SyncAdd, Names
  <2> QED
    BY <2>1, <2>2, <2>3 DEF Books
<1>4. CASE CloseApproval \/ AnswerApproval
  <2>1. BookTypes'
    BY <1>4, Lengths DEF CloseApproval, AnswerApproval, Books, BookTypes,
                         Steps, CloseOrder, ShowKey
  <2>2. Steps'
    BY <1>4 DEF CloseApproval, AnswerApproval, Books, BookTypes, Steps, Ledger,
                CloseOrder, ShowKey
  <2>3. Ledger'
    BY <1>4 DEF CloseApproval, AnswerApproval, Books, BookTypes, Steps, Ledger,
                CloseOrder, ShowKey
  <2> QED
    BY <2>1, <2>2, <2>3 DEF Books
<1>5. CASE SyncPromo
  <2>1. BookTypes'
    BY <1>5, Lengths DEF SyncPromo, Books, BookTypes, Steps, SyncAdd, Names
  <2>2. Steps'
    BY <1>5 DEF SyncPromo, Books, BookTypes, Steps, Ledger, SyncAdd, Names
  <2>3. Ledger'
    BY <1>5 DEF SyncPromo, Books, BookTypes, Steps, Ledger, SyncAdd, Names
  <2> QED
    BY <2>1, <2>2, <2>3 DEF Books
<1>6. CASE SyncManualKey
  <2>1. BookTypes'
    BY <1>6, Lengths DEF SyncManualKey, Books, BookTypes, Steps, SyncAdd, Names
  <2>2. Steps'
    BY <1>6 DEF SyncManualKey, Books, BookTypes, Steps, Ledger, SyncAdd, Names
  <2>3. Ledger'
    BY <1>6 DEF SyncManualKey, Books, BookTypes, Steps, Ledger, SyncAdd, Names
  <2> QED
    BY <2>1, <2>2, <2>3 DEF Books
<1> QED
  BY <1>1, <1>2, <1>3, <1>4, <1>5, <1>6

(* The worker, the clock and the crash.                                    *)
LEMMA WorkerKeepsBooks ==
  ASSUME TypeOK, Books, CheckExpirations \/ Tick \/ Crash
  PROVE  Books'
<1> USE DEF clock, profile, flags, orders, keys, bot, worker, views, history
<1>1. CASE BeginPass
  <2>1. BookTypes'
    BY <1>1, Lengths DEF BeginPass, Books, BookTypes, Steps, GetExpiringUsers
  <2>2. Steps'
    BY <1>1 DEF BeginPass, Books, BookTypes, Steps, Ledger, GetExpiringUsers
  <2>3. Ledger'
    BY <1>1 DEF BeginPass, Books, BookTypes, Steps, Ledger, GetExpiringUsers
  <2> QED
    BY <2>1, <2>2, <2>3 DEF Books
<1>2. CASE MarkReminderSent
  <2>1. BookTypes'
    BY <1>2, Lengths DEF MarkReminderSent, Books, BookTypes, Steps
  <2>2. Steps'
    BY <1>2 DEF MarkReminderSent, Books, BookTypes, Steps, Ledger
  <2>3. Ledger'
    BY <1>2 DEF MarkReminderSent, Books, BookTypes, Steps, Ledger
  <2> QED
    BY <2>1, <2>2, <2>3 DEF Books
<1>3. CASE NextList
  <2>1. BookTypes'
    BY <1>3, Lengths DEF NextList, Books, BookTypes, Steps, GetExpiringUsers,
                         GetExpiredActiveUsers
  <2>2. Steps'
    BY <1>3 DEF NextList, Books, BookTypes, Steps, Ledger, GetExpiringUsers,
                GetExpiredActiveUsers
  <2>3. Ledger'
    BY <1>3 DEF NextList, Books, BookTypes, Steps, Ledger, GetExpiringUsers,
                GetExpiredActiveUsers
  <2> QED
    BY <2>1, <2>2, <2>3 DEF Books
<1>4. CASE DeactivateUser
  <2>1. BookTypes'
    BY <1>4, Lengths DEF DeactivateUser, Books, BookTypes, Steps
  <2>2. Steps'
    BY <1>4 DEF DeactivateUser, Books, BookTypes, Steps, Ledger
  <2>3. Ledger'
    BY <1>4 DEF DeactivateUser, Books, BookTypes, Steps, Ledger
  <2> QED
    BY <2>1, <2>2, <2>3 DEF Books
<1>5. CASE RemoveUser
  <2>1. BookTypes'
    BY <1>5, Lengths DEF RemoveUser, Books, BookTypes, Steps, Deleted
  <2>2. Steps'
    BY <1>5 DEF RemoveUser, Books, BookTypes, Steps, Ledger, Deleted
  <2>3. Ledger'
    BY <1>5 DEF RemoveUser, Books, BookTypes, Steps, Ledger, Deleted
  <2> QED
    BY <2>1, <2>2, <2>3 DEF Books
<1>6. CASE EndPass
  <2>1. BookTypes'
    BY <1>6, Lengths DEF EndPass, Books, BookTypes, Steps
  <2>2. Steps'
    BY <1>6 DEF EndPass, Books, BookTypes, Steps, Ledger
  <2>3. Ledger'
    BY <1>6 DEF EndPass, Books, BookTypes, Steps, Ledger
  <2> QED
    BY <2>1, <2>2, <2>3 DEF Books
<1>7. CASE Tick
  <2>1. BookTypes'
    BY <1>7, Lengths DEF Tick, Books, BookTypes, Steps
  <2>2. Steps'
    BY <1>7 DEF Tick, Books, BookTypes, Steps, Ledger
  <2>3. Ledger'
    BY <1>7 DEF Tick, Books, BookTypes, Steps, Ledger
  <2> QED
    BY <2>1, <2>2, <2>3 DEF Books
<1>8. CASE Crash
  <2>1. BookTypes'
    BY <1>8, Lengths DEF Crash, Books, BookTypes, Steps
  <2>2. Steps'
    BY <1>8 DEF Crash, Books, BookTypes, Steps, Ledger
  <2>3. Ledger'
    BY <1>8 DEF Crash, Books, BookTypes, Steps, Ledger
  <2> QED
    BY <2>1, <2>2, <2>3 DEF Books
<1> QED
  BY <1>1, <1>2, <1>3, <1>4, <1>5, <1>6, <1>7, <1>8 DEF CheckExpirations

LEMMA NextBooks ==
  ASSUME TypeOK, Steps, Ledger, [Next]_vars
  PROVE  TypeOK' /\ Steps' /\ Ledger'
<1> USE DEF clock, profile, flags, orders, keys, bot, worker, views, history
<1>1. Books /\ ChatTypes
  BY TypesSplit DEF Books
<1>2. CASE \/ UNCHANGED vars
           \/ Poll
           \/ \E m \in Update : Send(m)
  <2>1. ChatTypes'
    BY <1>1, <1>2, SendTypes, PollTypes DEF vars, chat, ChatTypes
  <2>2. Books'
    BY <1>1, <1>2 DEF vars, Poll, Send, Books, BookTypes, Steps, Ledger
  <2> QED
    BY <2>1, <2>2, TypesSplit DEF Books
<1>3. CASE \/ HandleStart \/ HandleStatus \/ HandleInfo \/ HandleBuyMenu
           \/ HandleSelectPlan \/ HandleGetKey \/ HandleSubmit \/ ApproveOrder
           \/ HandleReject \/ ApplyPromocode \/ CreateManualKey
  BY <1>1, <1>3, HandlersKeepBooks, TypesSplit DEF Books
<1>4. CASE \/ NotifyAdmin \/ ExtendSubscription \/ SyncOrder \/ CloseApproval
           \/ AnswerApproval \/ SyncPromo \/ SyncManualKey
  <2>1. Books'
    BY <1>1, <1>4, CallsKeepBooks
  <2>2. UNCHANGED chat
    BY <1>4 DEF NotifyAdmin, ExtendSubscription, SyncOrder, CloseApproval,
                AnswerApproval, SyncPromo, SyncManualKey
  <2> QED
    BY <1>1, <2>1, <2>2, TypesSplit DEF Books, ChatTypes, chat
<1>5. CASE CheckExpirations \/ Tick \/ Crash
  <2>1. Books'
    BY <1>1, <1>5, WorkerKeepsBooks
  <2>2. ChatTypes'
    <3>1. CASE Crash
      BY <1>1, <3>1 DEF Crash, ChatTypes
    <3>2. CASE UNCHANGED chat
      BY <1>1, <3>2 DEF ChatTypes, chat
    <3> QED
      BY <1>5, <3>1, <3>2 DEF CheckExpirations, Tick, BeginPass, NextList,
         MarkReminderSent, DeactivateUser, RemoveUser, EndPass
  <2> QED
    BY <2>1, <2>2, TypesSplit DEF Books
<1> QED
  BY <1>2, <1>3, <1>4, <1>5 DEF Next, Polling

(* Types of the books, the chat and the threads.                           *)
THEOREM BillingTypeCorrect == Spec => []TypeOK
<1>1. TypeOK /\ Steps /\ Ledger /\ [Next]_vars => TypeOK' /\ Steps' /\ Ledger'
  BY NextBooks
<1>2. Init => TypeOK /\ Steps /\ Ledger
  BY InitTypes
<1> QED
  BY <1>1, <1>2, PTL DEF Spec

-----------------------------------------------------------------------------
(* Days.                                                                   *)

LEMMA OrdersPaidFinite ==
  ASSUME Ledger, NEW u
  PROVE  /\ IsFiniteSet(OrdersPaid(u))
         /\ Cardinality(OrdersPaid(u)) \in Nat
<1>1. OrdersPaid(u) \subseteq payments
  BY DEF OrdersPaid
<1> QED
  BY <1>1, FS_Subset, FS_CardinalityType DEF Ledger

LEMMA DaysBoughtNat ==
  ASSUME Ledger, NEW u
  PROVE  DaysBought(u) \in Nat
<1>1. \A n \in Nat : Days * n \in Nat
  BY Lengths
<1> QED
  BY <1>1, OrdersPaidFinite, Lengths DEF DaysBought

(* What a user has bought depends on the payments and their buyers.        *)
LEMMA DaysBoughtKept ==
  ASSUME NEW u, UNCHANGED <<payments, used>>,
         \A o \in payments : buyer'[o] = buyer[o]
  PROVE  DaysBought(u)' = DaysBought(u)
<1>1. OrdersPaid(u)' = OrdersPaid(u)
  BY DEF OrdersPaid
<1> QED
  BY <1>1 DEF DaysBought

(* A payment adds the days of the plan to its buyer's and to nobody else's.*)
LEMMA OrderAdds ==
  ASSUME Ledger, NEW o, o \notin payments, payments' = payments \cup {o},
         UNCHANGED <<buyer, used>>, NEW u
  PROVE  DaysBought(u)' =
           DaysBought(u) + (IF u = buyer[o] THEN Days ELSE 0)
<1>1. CASE u = buyer[o]
  <2>1. OrdersPaid(u)' = OrdersPaid(u) \cup {o} /\ o \notin OrdersPaid(u)
    BY <1>1 DEF OrdersPaid
  <2>2. Cardinality(OrdersPaid(u)') = Cardinality(OrdersPaid(u)) + 1
    BY <2>1, OrdersPaidFinite, FS_AddElement
  <2>3. \A n \in Nat : Days * (n + 1) = Days * n + Days /\ Days * n \in Nat
    BY Lengths
  <2>4. Days * Cardinality(OrdersPaid(u)') =
          Days * Cardinality(OrdersPaid(u)) + Days
    BY <2>2, <2>3, OrdersPaidFinite
  <2> QED
    BY <1>1, <2>3, <2>4, OrdersPaidFinite, Lengths DEF DaysBought
<1>2. CASE u # buyer[o]
  <2>1. OrdersPaid(u)' = OrdersPaid(u)
    BY <1>2 DEF OrdersPaid
  <2> QED
    BY <1>2, <2>1, DaysBoughtNat DEF DaysBought
<1> QED
  BY <1>1, <1>2

(* So does the promo code, for who had not used it.                        *)
LEMMA PromoAdds ==
  ASSUME Ledger, NEW v, v \notin used, used' = used \cup {v},
         UNCHANGED <<buyer, payments>>, NEW u
  PROVE  DaysBought(u)' =
           DaysBought(u) + (IF u = v THEN PromoDays ELSE 0)
<1>1. OrdersPaid(u)' = OrdersPaid(u)
  BY DEF OrdersPaid
<1>2. Days * Cardinality(OrdersPaid(u)) \in Nat
  BY OrdersPaidFinite, Lengths
<1> QED
  BY <1>1, <1>2, Lengths DEF DaysBought

(* Days are only ever added; the expiry moves with them.                   *)
LEMMA DaysStep ==
  ASSUME TypeOK, Steps, Ledger, [Next]_vars
  PROVE  \/ /\ UNCHANGED expires
            /\ \A u \in Users : DaysBought(u)' = DaysBought(u)
         \/ \E u \in Users, d \in {Days, PromoDays} :
              /\ expires' = [expires EXCEPT ![u] = Later(u, d)]
              /\ UNCHANGED <<now, keyed>>
              /\ \A v \in Users :
                   DaysBought(v)' = DaysBought(v) + (IF v = u THEN d ELSE 0)
<1> USE DEF clock, profile, flags, orders, keys, bot, worker, views, history
<1>1. CASE ExtendSubscription /\ ~Paid(subject)
  <2>1. buyer[subject] \in Users
    BY <1>1 DEF ExtendSubscription, Steps, TypeOK
  <2>2. \A v \in Users :
          DaysBought(v)' =
            DaysBought(v) + (IF v = buyer[subject] THEN Days ELSE 0)
    BY <1>1, OrderAdds DEF ExtendSubscription, Paid
  <2> QED
    BY <1>1, <2>1, <2>2 DEF ExtendSubscription
<1>2. CASE ApplyPromocode /\ PromoOpen(From) /\ From \in users
  <2>1. From \in Users
    BY <1>2 DEF TypeOK
  <2>2. \A v \in Users :
          DaysBought(v)' = DaysBought(v) + (IF v = From THEN PromoDays ELSE 0)
    BY <1>2, PromoAdds DEF ApplyPromocode, PromoOpen
  <2> QED
    BY <1>2, <2>1, <2>2 DEF ApplyPromocode
<1>3. CASE HandleSubmit
  <2>1. \A o \in payments : buyer'[o] = buyer[o]
    BY <1>3 DEF HandleSubmit, CreateOrder, Ledger, TypeOK
  <2> QED
    BY <1>3, <2>1, DaysBoughtKept DEF HandleSubmit
<1>4. CASE UNCHANGED <<expires, payments, used, buyer>>
  BY <1>4, DaysBoughtKept
<1>5. \/ UNCHANGED <<expires, payments, used, buyer>>
      \/ HandleSubmit
      \/ (ExtendSubscription /\ ~Paid(subject))
      \/ (ApplyPromocode /\ PromoOpen(From) /\ From \in users)
  BY DEF Next, Polling, CheckExpirations, vars, Poll, HandleStart,
     HandleStatus, HandleInfo, HandleBuyMenu, HandleSelectPlan, HandleGetKey,
     NotifyAdmin, ApproveOrder, ExtendSubscription, SyncOrder, CloseApproval,
     AnswerApproval, HandleReject, ApplyPromocode, SyncPromo,
     CreateManualKey, SyncManualKey, BeginPass, MarkReminderSent, NextList,
     DeactivateUser, RemoveUser, EndPass, Tick, Crash, Send
<1> QED
  BY <1>1, <1>2, <1>3, <1>4, <1>5

LEMMA NowStep ==
  ASSUME TypeOK, [Next]_vars
  PROVE  now \in Nat /\ now' \in Nat /\ now <= now'
BY Lengths
   DEF Next, Polling, CheckExpirations, vars, clock, Poll, HandleStart,
       HandleStatus, HandleInfo, HandleBuyMenu, HandleSelectPlan,
       HandleGetKey, HandleSubmit, NotifyAdmin, ApproveOrder,
       ExtendSubscription, SyncOrder, CloseApproval, AnswerApproval,
       HandleReject,
       ApplyPromocode, SyncPromo, CreateManualKey, SyncManualKey, BeginPass,
       MarkReminderSent, NextList, DeactivateUser, RemoveUser, EndPass, Tick,
       Crash, Send, TypeOK

LEMMA PaidDaysStep ==
  ASSUME TypeOK, Steps, Ledger, PaidDays, [Next]_vars
  PROVE  PaidDays'
<1>1. now \in Nat /\ now' \in Nat /\ now <= now'
  BY NowStep
<1>2. \A u \in Users : DaysBought(u) \in Nat /\ expires[u] \in Nat
  BY DaysBoughtNat DEF TypeOK
<1>3. CASE /\ UNCHANGED expires
           /\ \A u \in Users : DaysBought(u)' = DaysBought(u)
  BY <1>1, <1>2, <1>3 DEF PaidDays
<1>4. CASE \E u \in Users, d \in {Days, PromoDays} :
              /\ expires' = [expires EXCEPT ![u] = Later(u, d)]
              /\ UNCHANGED <<now, keyed>>
              /\ \A v \in Users :
                   DaysBought(v)' = DaysBought(v) + (IF v = u THEN d ELSE 0)
  <2>1. PICK u \in Users, d \in {Days, PromoDays} :
              /\ expires' = [expires EXCEPT ![u] = Later(u, d)]
              /\ UNCHANGED <<now, keyed>>
              /\ \A v \in Users :
                   DaysBought(v)' = DaysBought(v) + (IF v = u THEN d ELSE 0)
    BY <1>4
  <2>2. d \in Nat
    BY Lengths
  <2>3. expires'[u] = (IF expires[u] > now THEN expires[u] ELSE now) + d
    BY <2>1 DEF TypeOK, Later
  <2>4. \A v \in Users : v # u => expires'[v] = expires[v]
    BY <2>1 DEF TypeOK
  <2>5. SUFFICES ASSUME NEW v \in Users
                 PROVE  /\ DaysBought(v)' <= expires'[v]
                        /\ expires'[v] <= now' + DaysBought(v)'
    BY DEF PaidDays
  <2>6. DaysBought(v) <= expires[v] /\ expires[v] <= now + DaysBought(v)
    BY DEF PaidDays
  <2>7. CASE v = u
    BY <1>1, <1>2, <2>1, <2>2, <2>3, <2>6, <2>7
  <2>8. CASE v # u
    BY <1>1, <1>2, <2>1, <2>4, <2>6, <2>8
  <2> QED
    BY <2>7, <2>8
<1> QED
  BY <1>3, <1>4, DaysStep

LEMMA KeyedStep ==
  ASSUME TypeOK, Steps, Ledger, PaidDays, KeyedPaid, [Next]_vars
  PROVE  KeyedPaid'
<1>1. \A u \in Users : DaysBought(u) \in Nat /\ expires[u] \in Nat
  BY DaysBoughtNat DEF TypeOK
<1>2. keyed \subseteq Users /\ users \subseteq Users /\ now \in Nat
  BY Lengths DEF TypeOK
<1>3. \A u \in users : Subscribed(u) => DaysBought(u) > 0
  BY <1>1, <1>2 DEF Subscribed, PaidDays
<1>4. \A u \in keyed' : u \in keyed \/ Subscribed(u)
  BY DEF Next, Polling, CheckExpirations, vars, views, Poll, HandleStart,
     HandleStatus, HandleInfo, HandleBuyMenu, HandleSelectPlan, HandleGetKey,
     HandleSubmit, NotifyAdmin, ApproveOrder, ExtendSubscription, SyncOrder,
     CloseApproval, AnswerApproval, ShowKey, HandleReject, ApplyPromocode,
     SyncPromo, CreateManualKey, SyncManualKey, BeginPass, MarkReminderSent,
     NextList, DeactivateUser, RemoveUser, EndPass, Tick, Crash, Send
<1>5. \A u \in keyed' : u \in Users /\ DaysBought(u) > 0
  BY <1>2, <1>3, <1>4 DEF Subscribed, KeyedPaid
<1>6. \A u \in Users : DaysBought(u)' >= DaysBought(u)
  BY <1>1, DaysStep, Lengths
<1>7. \A u \in Users : DaysBought(u)' \in Int
  BY <1>1, DaysStep, Lengths
<1> QED
  BY <1>1, <1>5, <1>6, <1>7 DEF KeyedPaid

-----------------------------------------------------------------------------
(* Orders and payments.                                                    *)

LEMMA OrdersMatchStep ==
  ASSUME TypeOK, Steps, Ledger, OrdersMatch, [Next]_vars
  PROVE  OrdersMatch'
<1> USE DEF clock, profile, flags, orders, keys, bot, worker, views, history
<1>1. CASE UNCHANGED <<status, payments, bot, torn>>
  BY <1>1 DEF OrdersMatch
<1>2. CASE HandleSubmit
  BY <1>2 DEF HandleSubmit, Handle, CreateOrder, OrdersMatch, Ledger, TypeOK
<1>3. CASE HandleReject
  BY <1>3 DEF HandleReject, Handle, RejectOrder, Decidable, OrdersMatch, TypeOK
<1>4. CASE ExtendSubscription
  BY <1>4 DEF ExtendSubscription, Paid, OrdersMatch, Steps, TypeOK
<1>5. CASE SyncOrder
  BY <1>5 DEF SyncOrder, OrdersMatch, Steps, TypeOK
<1>6. CASE CloseApproval
  BY <1>6 DEF CloseApproval, CloseOrder, OrdersMatch, Steps, TypeOK
<1>7. CASE Crash
  BY <1>7 DEF Crash, OrdersMatch, TypeOK
<1>8. CASE /\ UNCHANGED <<status, payments, torn>>
           /\ pc \notin {"sync", "close"} /\ pc' \notin {"sync", "close"}
  BY <1>8 DEF OrdersMatch
<1>9. \/ UNCHANGED <<status, payments, bot, torn>>
      \/ HandleSubmit \/ HandleReject \/ ExtendSubscription \/ SyncOrder
      \/ CloseApproval \/ Crash
      \/ /\ UNCHANGED <<status, payments, torn>>
         /\ pc \notin {"sync", "close"} /\ pc' \notin {"sync", "close"}
  BY DEF Next, Polling, CheckExpirations, vars, Poll, Handle, HandleStart,
     HandleStatus, HandleInfo, HandleBuyMenu, HandleSelectPlan, HandleGetKey,
     NotifyAdmin, ApproveOrder, AnswerApproval, ApplyPromocode, SyncPromo,
     CreateManualKey, SyncManualKey, BeginPass, MarkReminderSent, NextList,
     DeactivateUser, RemoveUser, EndPass, Tick, Send
<1> QED
  BY <1>1, <1>2, <1>3, <1>4, <1>5, <1>6, <1>7, <1>8, <1>9

-----------------------------------------------------------------------------
(* The VPN server's rows.                                                  *)

RowsMatch ==
  \A u \in Users \ adrift :
    \/ pc = "sync" /\ buyer[subject] = u
    \/ pc = "syncPromo" /\ subject = u
    \/ wpc = "remove" /\ target = u
    \/ u \in active <=> RowsOf(u) # {}

LEMMA RowsMatchMeans ==
  /\ TypeOK /\ Steps => (ServerFollows <=> RowsMatch)
  /\ TypeOK' /\ Steps' => (ServerFollows' <=> RowsMatch')
BY PersonsFresh DEF ServerFollows, RowsMatch, Steps, TypeOK

(* A row that is written is its key's; a user's are deleted together.      *)
LEMMA RowWritten ==
  ASSUME NEW k, NEW n, SyncAdd(k, n)
  PROVE  \A u : IF u = k THEN RowsOf(u)' # {} ELSE RowsOf(u)' = RowsOf(u)
<1>1. <<k, n>> \in server' /\ <<k, n>>[1] = k
  BY DEF SyncAdd
<1>2. \A row : row \in server' <=> row \in server \/ row = <<k, n>>
  BY DEF SyncAdd
<1>3. \A u : u # k => RowsOf(u)' = RowsOf(u)
  BY <1>1, <1>2 DEF RowsOf
<1>4. RowsOf(k)' # {}
  BY <1>1 DEF RowsOf
<1> QED
  BY <1>3, <1>4

LEMMA RowsDeleted ==
  ASSUME TypeOK, NEW k \in Users, server' = server \ Deleted(k)
  PROVE  \A u : RowsOf(u)' = IF u = k THEN {} ELSE RowsOf(u)
BY DEF Deleted, RowsOf, TypeOK

Follows == JustPaid /\ Listed /\ RowsMatch

LEMMA FollowsStep ==
  ASSUME TypeOK, Steps, Ledger, Follows, [Next]_vars
  PROVE  Follows'
<1> USE PersonsFresh
    DEF clock, profile, flags, orders, keys, bot, worker, views, history,
        Follows
<1>1. CASE UNCHANGED <<now, expires, active, buyer, server, bot, worker,
                       adrift>>
  BY <1>1 DEF JustPaid, Listed, RowsMatch, RowsOf
<1>2. CASE \/ HandleSubmit \/ NotifyAdmin \/ ApproveOrder \/ CloseApproval
           \/ AnswerApproval \/ CreateManualKey
           \/ (ExtendSubscription /\ Paid(subject))
  <2>1. /\ UNCHANGED <<now, expires, active, server, worker, adrift>>
        /\ pc' \notin {"sync", "syncPromo"} /\ pc \notin {"sync", "syncPromo"}
    BY <1>2 DEF HandleSubmit, NotifyAdmin, ApproveOrder, CloseApproval,
                AnswerApproval, CreateManualKey, ExtendSubscription, Handle
  <2> QED
    BY <2>1 DEF JustPaid, Listed, RowsMatch, RowsOf
<1>3. CASE ExtendSubscription /\ ~Paid(subject)
  <2>1. buyer[subject] \in Users /\ expires'[buyer[subject]] > now
    BY <1>3, Lengths DEF ExtendSubscription, Steps, TypeOK, Later
  <2>2. \A u \in Users : u # buyer[subject] => expires'[u] = expires[u]
    BY <1>3 DEF ExtendSubscription, TypeOK
  <2>3. JustPaid'
    BY <1>3, <2>1 DEF ExtendSubscription, JustPaid
  <2>4. Listed' /\ RowsMatch'
    BY <1>3, <2>1, <2>2 DEF ExtendSubscription, Listed, InHand, RowsMatch,
       RowsOf
  <2> QED
    BY <2>3, <2>4
<1>4. CASE ApplyPromocode /\ PromoOpen(From) /\ From \in users
  <2>1. From \in Users /\ expires'[From] > now
    BY <1>4, Lengths DEF ApplyPromocode, TypeOK, Later
  <2>2. \A u \in Users : u # From => expires'[u] = expires[u]
    BY <1>4 DEF ApplyPromocode, TypeOK
  <2>3. JustPaid'
    BY <1>4, <2>1 DEF ApplyPromocode, JustPaid
  <2>4. Listed' /\ RowsMatch'
    BY <1>4, <2>1, <2>2 DEF ApplyPromocode, Handle, Listed, InHand, RowsMatch,
       RowsOf
  <2> QED
    BY <2>3, <2>4
<1>5. CASE SyncOrder
  <2>1. buyer[subject] \in Users
    BY <1>5 DEF SyncOrder, Steps, TypeOK
  <2>2. JustPaid' /\ Listed'
    BY <1>5 DEF SyncOrder, JustPaid, Listed
  <2>3. RowsMatch'
    BY <1>5, <2>1, RowWritten DEF SyncOrder, JustPaid, RowsMatch, RowsOf
  <2> QED
    BY <2>2, <2>3
<1>6. CASE SyncPromo
  <2>1. subject \in Users
    BY <1>6 DEF SyncPromo, Steps, TypeOK
  <2>2. JustPaid' /\ Listed'
    BY <1>6 DEF SyncPromo, JustPaid, Listed
  <2>3. RowsMatch'
    BY <1>6, <2>1, RowWritten DEF SyncPromo, JustPaid, RowsMatch, RowsOf
  <2> QED
    BY <2>2, <2>3
<1>7. CASE SyncManualKey
  <2>1. \A u \in Users : RowsOf(u)' = RowsOf(u)
    <3>1. subject \notin Users
      BY <1>7 DEF SyncManualKey, Steps
    <3>2. CASE SyncAdd(subject, "manual")
      BY <3>1, <3>2, RowWritten
    <3>3. CASE UNCHANGED server
      BY <3>3 DEF RowsOf
    <3> QED
      BY <1>7, <3>2, <3>3 DEF SyncManualKey
  <2> QED
    BY <1>7, <2>1 DEF SyncManualKey, JustPaid, Listed, RowsMatch
<1>8. CASE CheckExpirations
  <2>1. CASE BeginPass \/ MarkReminderSent \/ NextList \/ EndPass
    <3>1. UNCHANGED <<now, expires, active, buyer, server, bot, target,
                      adrift>>
      BY <2>1 DEF BeginPass, MarkReminderSent, NextList, EndPass
    <3>2. JustPaid' /\ RowsMatch'
      BY <2>1, <3>1 DEF BeginPass, MarkReminderSent, NextList, EndPass,
                        JustPaid, RowsMatch, RowsOf
    <3>3. Listed'
      BY <2>1, <3>1 DEF BeginPass, MarkReminderSent, NextList, EndPass, Listed,
                        GetExpiredActiveUsers
    <3> QED
      BY <3>2, <3>3
  <2>2. CASE DeactivateUser
    <3>1. JustPaid'
      BY <2>2 DEF DeactivateUser, JustPaid, Listed, TypeOK
    <3>2. Listed' /\ RowsMatch'
      BY <2>2 DEF DeactivateUser, Listed, RowsMatch, RowsOf, Steps, TypeOK
    <3> QED
      BY <3>1, <3>2
  <2>3. CASE RemoveUser
    <3>1. target \in Users
      BY <2>3 DEF RemoveUser, Steps, TypeOK
    <3>2. JustPaid' /\ Listed'
      BY <2>3 DEF RemoveUser, JustPaid, Listed, TypeOK
    <3>3. RowsMatch'
      BY <2>3, <3>1, RowsDeleted DEF RemoveUser, Listed, RowsMatch, RowsOf
    <3> QED
      BY <3>2, <3>3
  <2> QED
    BY <1>8, <2>1, <2>2, <2>3 DEF CheckExpirations
<1>9. CASE Tick
  BY <1>9 DEF Tick, Steps, JustPaid, Listed, RowsMatch, RowsOf, TypeOK
<1>10. CASE Crash
  BY <1>10 DEF Crash, JustPaid, Listed, RowsMatch, RowsOf
<1>11. CASE \/ Poll \/ HandleStart \/ HandleStatus \/ HandleInfo
            \/ HandleBuyMenu \/ HandleSelectPlan \/ HandleGetKey
            \/ HandleReject \/ UNCHANGED vars \/ \E m \in Update : Send(m)
            \/ (ApplyPromocode /\ ~(PromoOpen(From) /\ From \in users))
  <2>1. UNCHANGED <<now, expires, active, buyer, server, bot, worker, adrift>>
    BY <1>11 DEF vars, Poll, HandleStart, HandleStatus, HandleInfo,
       HandleBuyMenu, HandleSelectPlan, HandleGetKey, HandleReject,
       ApplyPromocode, Send
  <2> QED
    BY <1>1, <2>1
<1>12. CASE ExtendSubscription
  BY <1>2, <1>3, <1>12
<1>13. CASE ApplyPromocode
  BY <1>4, <1>11, <1>13
<1> QED
  BY <1>2, <1>5, <1>6, <1>7, <1>8, <1>9, <1>10, <1>11, <1>12, <1>13
     DEF Next, Polling

-----------------------------------------------------------------------------
(* Reminders.                                                              *)

LEMMA RemindedStep ==
  ASSUME TypeOK, Steps, Ledger, Reminded, RemindersOfPeriod, [Next]_vars
  PROVE  Reminded' /\ RemindersOfPeriod'
<1> USE DEF clock, profile, flags, orders, keys, bot, worker, views, history
<1>1. CASE ExtendSubscription /\ ~Paid(subject)
  <2>1. \A u \in Users : u # buyer[subject] => expires'[u] = expires[u]
    BY <1>1 DEF ExtendSubscription, TypeOK
  <2> QED
    BY <1>1, <2>1 DEF ExtendSubscription, Rearm, InHand, Reminded,
                      RemindersOfPeriod
<1>2. CASE ApplyPromocode /\ PromoOpen(From) /\ From \in users
  <2>1. \A u \in Users : u # From => expires'[u] = expires[u]
    BY <1>2 DEF ApplyPromocode, TypeOK
  <2> QED
    BY <1>2, <2>1 DEF ApplyPromocode, Reminded, RemindersOfPeriod
<1>3. CASE CheckExpirations
  <2>1. UNCHANGED <<now, expires, used>> /\ adrift \subseteq adrift'
    BY <1>3 DEF CheckExpirations, BeginPass, MarkReminderSent, NextList,
                DeactivateUser, RemoveUser, EndPass
  <2>2. CASE BeginPass \/ NextList
    <3>1. Reminded'
      BY <2>1, <2>2, Lengths DEF BeginPass, NextList, GetExpiringUsers,
                                 Reminded, TypeOK
    <3>2. UNCHANGED flags
      BY <2>2 DEF BeginPass, NextList
    <3> QED
      BY <2>1, <3>1, <3>2 DEF RemindersOfPeriod
  <2>3. CASE MarkReminderSent
    BY <2>1, <2>3 DEF MarkReminderSent, Reminded, RemindersOfPeriod
  <2>4. CASE DeactivateUser \/ RemoveUser \/ EndPass
    <3>1. wpc' \notin {"72h", "24h"} /\ UNCHANGED flags
      BY <2>4 DEF DeactivateUser, RemoveUser, EndPass
    <3> QED
      BY <2>1, <3>1 DEF Reminded, RemindersOfPeriod
  <2> QED
    BY <1>3, <2>2, <2>3, <2>4 DEF CheckExpirations
<1>4. CASE /\ UNCHANGED <<expires, flags, used, worker>>
           /\ adrift \subseteq adrift'
           /\ now' = now
  BY <1>4 DEF Reminded, RemindersOfPeriod
<1>5. CASE Tick
  BY <1>5, Lengths DEF Tick, Reminded, RemindersOfPeriod, TypeOK
<1>6. CASE Crash
  BY <1>6 DEF Crash, Reminded, RemindersOfPeriod
<1>7. \/ /\ UNCHANGED <<expires, flags, used, worker>>
         /\ adrift \subseteq adrift'
         /\ now' = now
      \/ (ExtendSubscription /\ ~Paid(subject))
      \/ (ApplyPromocode /\ PromoOpen(From) /\ From \in users)
      \/ CheckExpirations \/ Tick \/ Crash
  <2>1. CASE \/ NotifyAdmin \/ SyncOrder \/ CloseApproval \/ AnswerApproval
             \/ SyncPromo \/ SyncManualKey
             \/ (ExtendSubscription /\ Paid(subject))
             \/ UNCHANGED vars \/ \E m \in Update : Send(m)
    BY <2>1 DEF NotifyAdmin, SyncOrder, CloseApproval, AnswerApproval,
       SyncPromo, vars, SyncManualKey, ExtendSubscription, Send
  <2>2. CASE \/ Poll \/ HandleStart \/ HandleStatus \/ HandleInfo
             \/ HandleBuyMenu \/ HandleSelectPlan \/ HandleGetKey
             \/ HandleSubmit \/ ApproveOrder \/ HandleReject
             \/ CreateManualKey
             \/ (ApplyPromocode /\ ~(PromoOpen(From) /\ From \in users))
    BY <2>2 DEF Poll, HandleStart, HandleStatus, HandleInfo, HandleBuyMenu,
       HandleSelectPlan, HandleGetKey, HandleSubmit, ApproveOrder,
       HandleReject, CreateManualKey, ApplyPromocode
  <2>3. CASE ExtendSubscription
    BY <2>1, <2>3
  <2>4. CASE ApplyPromocode
    BY <2>2, <2>4
  <2> QED
    BY <2>1, <2>2, <2>3, <2>4 DEF Next, Polling
<1> QED
  BY <1>1, <1>2, <1>3, <1>4, <1>5, <1>6, <1>7

-----------------------------------------------------------------------------
LEMMA BillInit == Init => BillInv
<1> SUFFICES ASSUME Init PROVE BillInv
  OBVIOUS
<1>1. TypeOK /\ Steps /\ Ledger
  BY InitTypes
<1>2. \A u \in Users : DaysBought(u) = 0
  <2>1. SUFFICES ASSUME NEW u \in Users PROVE DaysBought(u) = 0
    OBVIOUS
  <2>2. OrdersPaid(u) = {}
    BY DEF Init, OrdersPaid
  <2>3. Cardinality(OrdersPaid(u)) = 0
    BY <2>2, FS_EmptySet
  <2> QED
    BY <2>3, Lengths DEF Init, DaysBought
<1>3. PaidDays /\ KeyedPaid
  BY <1>2 DEF Init, PaidDays, KeyedPaid
<1>4. OrdersMatch /\ JustPaid /\ Listed /\ Reminded /\ RemindersOfPeriod
  BY DEF Init, OrdersMatch, JustPaid, Listed, Reminded, RemindersOfPeriod
<1>5. ServerFollows
  BY DEF Init, ServerFollows, RowsOf
<1> QED
  BY <1>1, <1>3, <1>4, <1>5 DEF BillInv

LEMMA BillStep == BillInv /\ [Next]_vars => BillInv'
<1> SUFFICES ASSUME BillInv, [Next]_vars PROVE BillInv'
  OBVIOUS
<1>1. TypeOK /\ Steps /\ Ledger /\ TypeOK' /\ Steps' /\ Ledger'
  BY NextBooks DEF BillInv
<1>2. PaidDays' /\ KeyedPaid' /\ OrdersMatch'
  BY <1>1, PaidDaysStep, KeyedStep, OrdersMatchStep DEF BillInv
<1>3. JustPaid' /\ Listed' /\ ServerFollows'
  BY <1>1, FollowsStep, RowsMatchMeans DEF Follows, BillInv
<1>4. Reminded' /\ RemindersOfPeriod'
  BY <1>1, RemindedStep DEF BillInv
<1> QED
  BY <1>1, <1>2, <1>3, <1>4 DEF BillInv

LEMMA Booked == Spec => []BillInv
BY BillInit, BillStep, PTL DEF Spec

(* Every day a user was granted counts, and counts once, through crashes,  *)
(* repeated clicks and updates delivered again.                            *)
THEOREM PaidDaysCount == Spec => []PaidDays
<1>1. BillInv => PaidDays
  BY DEF BillInv
<1> QED
  BY <1>1, Booked, PTL

(* What is approved was paid, what was paid is approved or its approval    *)
(* was cut short, and nobody is shown a key for nothing.                   *)
THEOREM PaymentsAreMatched == Spec => []PaymentsMatchOrders
<1>1. BillInv => PaymentsMatchOrders
  BY DEF BillInv, OrdersMatch, KeyedPaid, PaymentsMatchOrders
<1> QED
  BY <1>1, Booked, PTL

(* The key rows of the VPN server follow the subscriptions, but for those  *)
(* whose update failed or met the worker.                                  *)
THEOREM ServerKept == Spec => []ServerFollows
<1>1. BillInv => ServerFollows
  BY DEF BillInv
<1> QED
  BY <1>1, Booked, PTL

(* A reminder that is marked as sent is of the period that is ending.      *)
THEOREM RemindersCurrent == Spec => []RemindersOfPeriod
<1>1. BillInv => RemindersOfPeriod
  BY DEF BillInv
<1> QED
  BY <1>1, Booked, PTL
=============================================================================
