---------------------------- MODULE Notifications ----------------------------
(***************************************************************************)
(* Notifications: the rows, the device tokens, the redis channel with its  *)
(* sockets, the push queue and its worker (application/notification and    *)
(* admin/notification).                                                    *)
(*                                                                         *)
(* createNotification is the list of calls it still has to make, one of    *)
(* them a step.  The other operations are one statement each after a look  *)
(* that only chooses the answer.  An event row that no notification points *)
(* to is shown to nobody, so the event is made with its notification.      *)
(* Notifications are numbered in the order of their rows.                  *)
(***************************************************************************)
EXTENDS Naturals, Sequences

CONSTANTS
    Users, Devices,     \* a device is its FCM token
    Removable,          \* those on which the app can be uninstalled
    Sockets,
    Handlers,           \* the calls of createNotification in flight
    MaxRows, MaxFailures,   \* bounds
    None

ASSUME RemovableAreDevices == Removable \subseteq Devices
ASSUME NoneIsNobody == None \notin Users
ASSUME BoundsAreNumbers == MaxRows \in Nat /\ MaxFailures \in Nat

VARIABLES
    rows,       \* the notifications: [to, state, fits]
    tokens,     \* device_tokens: [Devices -> user or None]
    call,       \* [Handlers -> what createNotification still has to do]
    pushQueue,  \* jobs: the notification and the tokens read for it
    worker,     \* the job at work and the tokens it is about to delete
    answer,     \* [Devices -> [1..MaxRows -> did FCM take the last push]]
    gone,       \* the devices that are no app of ours (any more)
    clients,    \* [Users -> the sockets registered for them]
    subscribed, \* the subscription has been confirmed
    channel,    \* what redis has for the subscriber
    emitted,    \* <<socket, notification>>: 'receiveNotification'
    had,        \* n |-> devices that were its receiver's since its row is there
    kept,       \* n |-> those of them that have been all the time
    lost,       \* notifications a step of whose way failed
    failures

sockets == <<clients, subscribed, channel, emitted>>
history == <<had, kept, lost>>
vars == <<rows, tokens, call, pushQueue, worker, answer, gone, sockets, history,
          failures>>

Numbers == 1..MaxRows
(* fits: FCM takes the title, the body and the data of the push.           *)
Row == [ to : Users, state : {"unread", "read", "deleted"}, fits : BOOLEAN ]
Job == [ note : Numbers, tokens : SUBSET Devices ]
Replies == {"ok", "not-registered", "invalid-argument", "unavailable"}
Steps == {"row", "publish", "tokens", "queue"}
Call == [ todo : Seq(Steps), to : Users \cup {None}, note : Nat, tokens : SUBSET Devices ]
Message == [ receiver : Users \cup {None}, note : Nat ]

NoCall == [ todo |-> <<>>, to |-> None, note |-> 0, tokens |-> {} ]
Idle == [ note |-> 0, tokens |-> {}, invalid |-> {} ]

TypeOK ==
    /\ rows \in Seq(Row) /\ Len(rows) <= MaxRows
    /\ tokens \in [Devices -> Users \cup {None}]
    /\ call \in [Handlers -> Call]
    /\ pushQueue \subseteq Job
    /\ worker \in [note : 0..MaxRows, tokens : SUBSET Devices, invalid : SUBSET Devices]
    /\ answer \in [Devices -> [Numbers -> {"none", "ok", "failed"}]]
    /\ gone \subseteq Devices
    /\ clients \in [Users -> SUBSET Sockets]
    /\ subscribed \in BOOLEAN
    /\ channel \subseteq Message
    /\ emitted \subseteq Sockets \X Numbers
    /\ had \in [Numbers -> SUBSET Devices] /\ kept \in [Numbers -> SUBSET Devices]
    /\ lost \subseteq Numbers
    /\ failures \in 0..MaxFailures

Init ==
    /\ rows = <<>>
    /\ tokens = [d \in Devices |-> None]
    /\ call = [h \in Handlers |-> NoCall]
    /\ pushQueue = {} /\ worker = Idle
    /\ answer = [d \in Devices |-> [n \in Numbers |-> "none"]]
    /\ gone = {}
    /\ clients = [u \in Users |-> {}]
    /\ subscribed = FALSE
    /\ channel = {} /\ emitted = {}
    /\ had = [n \in Numbers |-> {}] /\ kept = [n \in Numbers |-> {}]
    /\ lost = {}
    /\ failures = 0

---------------------------------------------------------------------------
(* Device tokens *)

DevicesOf(u) == {d \in Devices : tokens[d] = u}

(* What the history notes when d's token changes hands.                    *)
Hand(d, u) ==
    /\ tokens' = [tokens EXCEPT ![d] = u]
    /\ had' = [n \in Numbers |-> IF n <= Len(rows) /\ rows[n].to = u
                                 THEN had[n] \cup {d} ELSE had[n]]
    /\ kept' = [n \in Numbers |-> IF n <= Len(rows) /\ rows[n].to # u
                                  THEN kept[n] \ {d} ELSE kept[n]]

(* Upsert by token: the device is the last user's who registers it.  Login *)
(* and the profile do the same.                                            *)
RegisterDeviceToken(d, u) ==
    /\ tokens[d] # u
    /\ Hand(d, u)
    /\ UNCHANGED <<rows, call, pushQueue, worker, answer, gone, sockets, lost, failures>>

UnregisterDeviceToken(d, u) ==
    /\ tokens[d] = u
    /\ Hand(d, None)
    /\ UNCHANGED <<rows, call, pushQueue, worker, answer, gone, sockets, lost, failures>>

(* The app is uninstalled, or what was registered was never a token.       *)
Uninstall(d) ==
    /\ d \notin gone
    /\ tokens[d] # None
    /\ gone' = gone \cup {d}
    /\ UNCHANGED <<rows, tokens, call, pushQueue, worker, answer, sockets, history,
                   failures>>

---------------------------------------------------------------------------
(* createNotification *)

At(h, step) == call[h].todo # <<>> /\ Head(call[h].todo) = step

Then(h, known) == call' = [call EXCEPT ![h] = [known EXCEPT !.todo = Tail(@)]]

End(h) == call' = [call EXCEPT ![h] = NoCall]

(* Mutant: the push is queued before there is a row.                       *)
PushBeforeRow(h, u) ==
    /\ call[h].todo = <<>>
    /\ call' = [call EXCEPT ![h] = [NoCall EXCEPT
            !.todo = <<"publish", "tokens", "queue", "row">>, !.to = u]]
    /\ UNCHANGED <<rows, tokens, pushQueue, worker, answer, gone, sockets, history, failures>>

CreateNotification(h, u) ==
    /\ call[h].todo = <<>>
    /\ call' = [call EXCEPT ![h] = [NoCall EXCEPT
            !.todo = <<"row", "publish", "tokens", "queue">>, !.to = u]]
    /\ UNCHANGED <<rows, tokens, pushQueue, worker, answer, gone, sockets, history, failures>>

(* had and kept start with the devices the receiver has now.               *)
CreateRow(h) ==
    /\ At(h, "row")
    /\ Len(rows) < MaxRows
    /\ LET u == call[h].to
           n == Len(rows) + 1
       IN /\ \E fits \in BOOLEAN :
                rows' = Append(rows, [to |-> u, state |-> "unread", fits |-> fits])
          /\ Then(h, [call[h] EXCEPT !.note = n])
          /\ had' = [had EXCEPT ![n] = DevicesOf(u)]
          /\ kept' = [kept EXCEPT ![n] = DevicesOf(u)]
    /\ UNCHANGED <<tokens, pushQueue, worker, answer, gone, sockets, lost, failures>>

(* sendNotificationToUser: redis keeps nothing for a subscriber that is    *)
(* not there yet.                                                          *)
Publish(h) ==
    /\ At(h, "publish")
    /\ channel' = IF subscribed
                  THEN channel \cup {[receiver |-> call[h].to, note |-> call[h].note]}
                  ELSE channel
    /\ Then(h, call[h])
    /\ UNCHANGED <<rows, tokens, pushQueue, worker, answer, gone, clients, subscribed,
                   emitted, history, failures>>

(* Mutant: the tokens are not restricted to the receiver's.                *)
TokensOfAnybody(u) == {d \in Devices : tokens[d] # None}

TokensFor(u) == DevicesOf(u)

(* enqueuePushForUser: without a token there is no push.                   *)
ReadTokens(h) ==
    /\ At(h, "tokens")
    /\ LET found == TokensFor(call[h].to)
       IN IF found = {} THEN End(h) ELSE Then(h, [call[h] EXCEPT !.tokens = found])
    /\ UNCHANGED <<rows, tokens, pushQueue, worker, answer, gone, sockets, history, failures>>

(* Mutant: the job is queued only while the notification is unread.        *)
EnqueueUnread(h) ==
    /\ At(h, "queue")
    /\ pushQueue' = IF rows[call[h].note].state = "unread"
                    THEN pushQueue \cup {[note |-> call[h].note, tokens |-> call[h].tokens]}
                    ELSE pushQueue
    /\ End(h)
    /\ UNCHANGED <<rows, tokens, worker, answer, gone, sockets, history, failures>>

Enqueue(h) ==
    /\ At(h, "queue")
    /\ pushQueue' = pushQueue \cup {[note |-> call[h].note, tokens |-> call[h].tokens]}
    /\ End(h)
    /\ UNCHANGED <<rows, tokens, worker, answer, gone, sockets, history, failures>>

(* Any of the calls may throw, also the publish: nothing after it is done. *)
Fail(h) ==
    /\ call[h].todo # <<>>
    /\ failures < MaxFailures
    /\ failures' = failures + 1
    /\ lost' = lost \cup ({call[h].note} \cap Numbers)
    /\ End(h)
    /\ UNCHANGED <<rows, tokens, pushQueue, worker, answer, gone, sockets, had, kept>>

---------------------------------------------------------------------------
(* The rows *)

Present == {n \in DOMAIN rows : rows[n].state # "deleted"}

(* getAllNotifications.                                                    *)
ListOf(u) == {n \in Present : rows[n].to = u}

Mark(these, state) ==
    /\ rows' = [n \in DOMAIN rows |->
                    IF n \in these THEN [rows[n] EXCEPT !.state = state] ELSE rows[n]]
    /\ UNCHANGED <<tokens, call, pushQueue, worker, answer, gone, sockets, history, failures>>

MarkAsRead(u, n) == n \in ListOf(u) /\ Mark({n}, "read")

MarkAsUnread(u, n) == n \in ListOf(u) /\ Mark({n}, "unread")

MarkAllAsRead(u) ==
    /\ \E n \in ListOf(u) : rows[n].state = "unread"
    /\ Mark(ListOf(u), "read")

DeleteNotification(u, n) == n \in ListOf(u) /\ Mark({n}, "deleted")

(* admin/notification: any row; all rows of the administrator.             *)
Remove(n) == n \in Present /\ Mark({n}, "deleted")

RemoveAll(u) == ListOf(u) # {} /\ Mark(ListOf(u), "deleted")

---------------------------------------------------------------------------
(* The push worker *)

(* Mutant: a token FCM could not be asked about counts as invalid.         *)
FailedTokens(said) == {d \in DOMAIN said : said[d] # "ok"}

(* The token of a device that is gone and any token sent a payload that    *)
(* FCM refuses get the same answer, invalid-argument.                      *)
InvalidTokens(said) ==
    {d \in DOMAIN said : said[d] \in {"not-registered", "invalid-argument"}}

(* What FCM can say of d in a job for notification n; it may not know yet  *)
(* that the device is gone.                                                *)
Says(d, n) ==
    {"unavailable"} \cup (IF rows[n].fits THEN {"ok"} ELSE {"invalid-argument"})
                    \cup (IF d \in gone THEN {"not-registered", "invalid-argument"} ELSE {})

(* sendMulticast and its responses, by index.                              *)
Send(job) ==
    /\ worker = Idle
    /\ pushQueue' = pushQueue \ {job}
    /\ \E said \in [job.tokens -> Replies] :
          /\ \A d \in job.tokens : said[d] \in Says(d, job.note)
          /\ answer' = [d \in Devices |-> IF d \in job.tokens
                            THEN [answer[d] EXCEPT ![job.note] =
                                    IF said[d] = "ok" THEN "ok" ELSE "failed"]
                            ELSE answer[d]]
          /\ worker' = IF InvalidTokens(said) = {} THEN Idle
                       ELSE [note |-> job.note, tokens |-> job.tokens,
                             invalid |-> InvalidTokens(said)]
    /\ UNCHANGED <<rows, tokens, call, gone, sockets, history, failures>>

(* deleteMany by value, whoever has the token by now.                      *)
DeleteTokens ==
    /\ worker # Idle
    /\ tokens' = [d \in Devices |-> IF d \in worker.invalid THEN None ELSE tokens[d]]
    /\ kept' = [n \in Numbers |-> kept[n] \ worker.invalid]
    /\ worker' = Idle
    /\ UNCHANGED <<rows, call, pushQueue, answer, gone, sockets, had, lost, failures>>

(* Firebase is not there or throws: the job is over.  The process stops    *)
(* before the job is acknowledged: it is run again.                        *)
SendFails(job) ==
    /\ worker = Idle
    /\ failures < MaxFailures
    /\ failures' = failures + 1
    /\ pushQueue' = pushQueue \ {job}
    /\ lost' = lost \cup {job.note}
    /\ UNCHANGED <<rows, tokens, call, worker, answer, gone, sockets, had, kept>>

WorkerStops ==
    /\ worker # Idle
    /\ failures < MaxFailures
    /\ failures' = failures + 1
    /\ pushQueue' = pushQueue \cup {[note |-> worker.note, tokens |-> worker.tokens]}
    /\ worker' = Idle
    /\ UNCHANGED <<rows, tokens, call, answer, gone, sockets, history>>

---------------------------------------------------------------------------
(* The sockets *)

HandleConnection(s, u) ==
    /\ \A v \in Users : s \notin clients[v]
    /\ clients' = [clients EXCEPT ![u] = @ \cup {s}]
    /\ UNCHANGED <<rows, tokens, call, pushQueue, worker, answer, gone, subscribed,
                   channel, emitted, history, failures>>

HandleDisconnect(s) ==
    /\ \E u \in Users : s \in clients[u]
    /\ clients' = [u \in Users |-> clients[u] \ {s}]
    /\ emitted' = {e \in emitted : e[1] # s}
    /\ UNCHANGED <<rows, tokens, call, pushQueue, worker, answer, gone, subscribed,
                   channel, history, failures>>

(* A client asks to notify another; its message names no receiver_id.      *)
HandleNotification(u) ==
    /\ subscribed
    /\ clients[u] # {}
    /\ channel' = channel \cup {[receiver |-> None, note |-> 0]}
    /\ UNCHANGED <<rows, tokens, call, pushQueue, worker, answer, gone, clients,
                   subscribed, emitted, history, failures>>

Emit(message) ==
    emitted' = IF message.receiver = None THEN emitted
               ELSE emitted \cup (clients[message.receiver] \X {message.note})

(* The callback of subscribe is called when redis confirms, with the       *)
(* number of channels, which has no receiver_id.                           *)
OnSubscribed ==
    /\ ~subscribed
    /\ subscribed' = TRUE
    /\ Emit([receiver |-> None, note |-> 1])
    /\ UNCHANGED <<rows, tokens, call, pushQueue, worker, answer, gone, clients,
                   channel, history, failures>>

(* ioredis hands what is published to 'message' listeners: there is none.  *)
OnMessage(message) ==
    /\ channel' = channel \ {message}
    /\ UNCHANGED <<rows, tokens, call, pushQueue, worker, answer, gone, clients,
                   subscribed, emitted, history, failures>>

---------------------------------------------------------------------------
Step(h) == CreateRow(h) \/ Publish(h) \/ ReadTokens(h) \/ Enqueue(h)

Work == DeleteTokens \/ \E job \in pushQueue : Send(job)

(* The endpoints: a user sees and changes his own notifications and        *)
(* tokens; an administrator removes any row, or all of his own.            *)
Requests ==
    \E u \in Users :
        \/ MarkAllAsRead(u)
        \/ \E d \in Devices : RegisterDeviceToken(d, u) \/ UnregisterDeviceToken(d, u)
        \/ \E n \in DOMAIN rows :
              MarkAsRead(u, n) \/ MarkAsUnread(u, n) \/ DeleteNotification(u, n)

AdminRequests ==
    (\E u \in Users : RemoveAll(u)) \/ \E n \in DOMAIN rows : Remove(n)

SocketEvents ==
    \/ OnSubscribed
    \/ \E message \in channel : OnMessage(message)
    \/ \E u \in Users : HandleNotification(u) \/ \E s \in Sockets : HandleConnection(s, u)
    \/ \E s \in Sockets : HandleDisconnect(s)

Next ==
    \/ Requests \/ AdminRequests \/ Work \/ SocketEvents \/ WorkerStops
    \/ \E h \in Handlers :
          Step(h) \/ Fail(h) \/ \E u \in Users : CreateNotification(h, u)
    \/ \E job \in pushQueue : SendFails(job)
    \/ \E d \in Removable : Uninstall(d)

(* A call that does not fail goes on, BullMQ's worker takes every job that *)
(* waits, redis answers.                                                   *)
Fairness ==
    /\ \A h \in Handlers : WF_vars(Step(h))
    /\ WF_vars(DeleteTokens)
    /\ \A n \in Numbers : WF_vars(\E job \in pushQueue : job.note = n /\ Send(job))
    /\ WF_vars(OnSubscribed)
    /\ WF_vars(\E message \in channel : OnMessage(message))

Spec == Init /\ [][Next]_vars /\ Fairness

---------------------------------------------------------------------------
(* Properties *)

(* A push shows only on a device that was its receiver's at some time      *)
(* after the notification was made, wherever the token is by now.          *)
PushesFollowRegistration ==
    \A d \in Devices, n \in Numbers : answer[d][n] = "ok" => d \in had[n]

(* The worker forgets a device that is still there only over a payload     *)
(* that FCM refuses: no outage of FCM, no job run twice and no token that  *)
(* changed hands meanwhile costs anybody a device.                         *)
OnlyBadPayloadsCostDevices ==
    [][worker # Idle /\ worker' = Idle =>
        \A d \in Devices : tokens[d] # None /\ tokens'[d] = None =>
            d \in gone \/ ~rows[worker.note].fits]_vars

(* "Removed ... invalid FCM tokens": a device that is there is never one.  *)
LiveDevicesAreKept ==
    [][worker # Idle /\ worker' = Idle =>
        \A d \in Devices : tokens[d] # None /\ tokens'[d] = None => d \in gone]_vars

(* A device that is the receiver's all along is sent to, unless a step of  *)
(* the notification's way fails; also when the row is read or deleted      *)
(* before the push is queued.                                              *)
NotificationsReachDevices ==
    \A d \in Devices, n \in Numbers :
        d \in kept[n] ~> (answer[d][n] # "none" \/ d \notin kept[n] \/ n \in lost)

(* "The redisSubClient listener above handles the actual emitting": what   *)
(* is published for a connected user is emitted to its sockets.            *)
SocketsAreNotified ==
    \A u \in Users, s \in Sockets, n \in Numbers :
        ([receiver |-> u, note |-> n] \in channel /\ s \in clients[u])
            ~> (<<s, n>> \in emitted \/ s \notin clients[u])
=============================================================================
