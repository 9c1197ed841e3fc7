-------------------------- MODULE NotificationsProofs --------------------------
(***************************************************************************)
(* Safety of Notifications for any number of users, devices, sockets and   *)
(* calls in flight, with failures and redelivered jobs anywhere.           *)
(*                                                                         *)
(* Tokens are copied three times on their way to FCM: from the table into  *)
(* the call, into the job, into the worker.  The invariant follows them:   *)
(* at each place they belong to a notification that has its row, and each  *)
(* was its receiver's after the row was made.  What the worker is about to *)
(* delete is gone, unless the payload of its job is one FCM refuses.       *)
(***************************************************************************)
EXTENDS Notifications, SequenceTheorems, TLAPS

(* What a call of createNotification knows at each of its steps.           *)
CallOK(c) ==
    \/ c = NoCall
    \/ /\ c.todo = <<"row", "publish", "tokens", "queue">>
       /\ c.to \in Users /\ c.note = 0 /\ c.tokens = {}
    \/ /\ c.todo \in {<<"publish", "tokens", "queue">>, <<"tokens", "queue">>, <<"queue">>}
       /\ c.note \in DOMAIN rows /\ rows[c.note].to = c.to
       /\ c.tokens \subseteq had[c.note]

JobOK(job) == job.note \in DOMAIN rows /\ job.tokens \subseteq had[job.note]

DevicesAreHad == \A n \in DOMAIN rows : DevicesOf(rows[n].to) \subseteq had[n]

JobsAreHad == \A job \in pushQueue : JobOK(job)

(* What the worker is about to delete is gone, or its job's payload is bad. *)
WorkerIsRight ==
    worker # Idle =>
        /\ JobOK(worker)
        /\ \A d \in worker.invalid : d \in gone \/ ~rows[worker.note].fits

PushesHaveRows ==
    \A d \in Devices, n \in Numbers : answer[d][n] = "ok" => n \in DOMAIN rows

IInv ==
    /\ TypeOK
    /\ \A h \in Handlers : CallOK(call[h])
    /\ DevicesAreHad
    /\ JobsAreHad
    /\ WorkerIsRight
    /\ PushesHaveRows
    /\ PushesFollowRegistration

LEMMA NoCallIsCall == NoCall \in Call
<1>1. <<>> \in Seq(Steps)
  OBVIOUS
<1> QED
  BY <1>1 DEF NoCall, Call

LEMMA CallFields ==
    ASSUME NEW c \in Call, NEW n \in Nat, NEW s \in Seq(Steps)
    PROVE  /\ [c EXCEPT !.note = n] \in Call
           /\ [c EXCEPT !.note = n].todo = c.todo /\ [c EXCEPT !.note = n].note = n
           /\ [c EXCEPT !.note = n].to = c.to /\ [c EXCEPT !.note = n].tokens = c.tokens
           /\ [c EXCEPT !.todo = s] \in Call
           /\ [c EXCEPT !.todo = s].todo = s /\ [c EXCEPT !.todo = s].note = c.note
           /\ [c EXCEPT !.todo = s].to = c.to /\ [c EXCEPT !.todo = s].tokens = c.tokens
BY DEF Call

LEMMA RowsAreNumbered ==
    ASSUME TypeOK
    PROVE  DOMAIN rows = 1..Len(rows) /\ Len(rows) \in 0..MaxRows
BY LenProperties, BoundsAreNumbers DEF TypeOK

LEMMA InitInv == Init => IInv
<1> SUFFICES ASSUME Init
             PROVE  IInv
  OBVIOUS
<1> USE DEF Init
<1>1. rows \in Seq(Row) /\ Len(rows) = 0 /\ DOMAIN rows = {}
  OBVIOUS
<1>2. TypeOK
  <2>1. /\ worker \in [note : 0..MaxRows, tokens : SUBSET Devices, invalid : SUBSET Devices]
        /\ failures \in 0..MaxFailures /\ Len(rows) <= MaxRows
    BY <1>1, BoundsAreNumbers DEF Idle
  <2>2. call \in [Handlers -> Call]
    BY NoCallIsCall
  <2>3. answer \in [Devices -> [Numbers -> {"none", "ok", "failed"}]]
    OBVIOUS
  <2>4. /\ tokens \in [Devices -> Users \cup {None}] /\ clients \in [Users -> SUBSET Sockets]
        /\ had \in [Numbers -> SUBSET Devices] /\ kept \in [Numbers -> SUBSET Devices]
    OBVIOUS
  <2> QED
    BY <1>1, <2>1, <2>2, <2>3, <2>4 DEF TypeOK
<1>3. \A h \in Handlers : CallOK(call[h])
  BY DEF CallOK
<1>4. DevicesAreHad /\ JobsAreHad /\ WorkerIsRight
  BY <1>1 DEF DevicesAreHad, JobsAreHad, WorkerIsRight
<1>5. PushesHaveRows /\ PushesFollowRegistration
  BY DEF PushesHaveRows, PushesFollowRegistration
<1> QED
  BY <1>2, <1>3, <1>4, <1>5 DEF IInv

---------------------------------------------------------------------------
(* What is known of tokens under way stays true as long as rows keep their *)
(* receivers and had only grows.                                           *)

Grows ==
    /\ DOMAIN rows \subseteq DOMAIN rows'
    /\ \A n \in DOMAIN rows : /\ rows'[n].to = rows[n].to
                             /\ rows'[n].fits = rows[n].fits
                             /\ had[n] \subseteq had'[n]
    /\ gone \subseteq gone'

LEMMA CallsStay ==
    ASSUME Grows, NEW c, CallOK(c)
    PROVE  \/ c = NoCall
           \/ /\ c.todo = <<"row", "publish", "tokens", "queue">>
              /\ c.to \in Users /\ c.note = 0 /\ c.tokens = {}
           \/ /\ c.todo \in {<<"publish", "tokens", "queue">>, <<"tokens", "queue">>,
                             <<"queue">>}
              /\ c.note \in DOMAIN rows' /\ rows'[c.note].to = c.to
              /\ c.tokens \subseteq had'[c.note]
BY DEF Grows, CallOK

LEMMA WayStays ==
    ASSUME IInv, Grows, UNCHANGED <<call, pushQueue, worker, answer>>
    PROVE  /\ \A h \in Handlers : CallOK(call[h])'
           /\ JobsAreHad' /\ WorkerIsRight'
           /\ PushesHaveRows' /\ PushesFollowRegistration'
<1>1. \A h \in Handlers : CallOK(call[h])'
  BY CallsStay DEF IInv, CallOK
<1>2. JobsAreHad' /\ WorkerIsRight'
  BY DEF IInv, JobsAreHad, WorkerIsRight, JobOK, Grows
<1>3. PushesHaveRows' /\ PushesFollowRegistration'
  BY DEF IInv, PushesHaveRows, PushesFollowRegistration, Grows
<1> QED
  BY <1>1, <1>2, <1>3

LEMMA HandKeeps ==
    ASSUME IInv, NEW d \in Devices, NEW u \in Users \cup {None}, Hand(d, u),
           UNCHANGED <<rows, call, pushQueue, worker, answer, gone, sockets, lost, failures>>
    PROVE  IInv'
<1> USE DEF Hand, sockets
<1>1. TypeOK'
  BY DEF IInv, TypeOK
<1>2. \A n \in DOMAIN rows :
        /\ n \in Numbers /\ n <= Len(rows)
        /\ had'[n] = IF rows[n].to = u THEN had[n] \cup {d} ELSE had[n]
  BY RowsAreNumbered, BoundsAreNumbers DEF IInv, Numbers
<1>3. Grows
  BY <1>2 DEF Grows
<1>4. DevicesAreHad'
  <2> SUFFICES ASSUME NEW n \in DOMAIN rows, NEW e \in Devices, tokens'[e] = rows[n].to
               PROVE  e \in had'[n]
    BY DEF DevicesAreHad, DevicesOf
  <2>1. e # d => tokens'[e] = tokens[e]
    BY DEF IInv, TypeOK
  <2>2. e = d => tokens'[e] = u
    BY DEF IInv, TypeOK
  <2> QED
    BY <1>2, <2>1, <2>2 DEF IInv, DevicesAreHad, DevicesOf
<1> QED
  BY <1>1, <1>3, <1>4, WayStays DEF IInv

LEMMA MarkKeeps ==
    ASSUME IInv, NEW these, NEW state \in {"unread", "read", "deleted"},
           Mark(these, state)
    PROVE  IInv'
<1> USE DEF Mark, sockets, history
<1>1. /\ rows' \in Seq(Row) /\ Len(rows') = Len(rows) /\ DOMAIN rows' = DOMAIN rows
      /\ \A n \in DOMAIN rows : /\ rows'[n].to = rows[n].to
                               /\ rows'[n].fits = rows[n].fits
  <2>1. DOMAIN rows = 1..Len(rows) /\ Len(rows) \in Nat
    BY LenProperties DEF IInv, TypeOK
  <2>2. \A n \in DOMAIN rows : rows[n] \in Row
    BY ElementOfSeq, <2>1 DEF IInv, TypeOK
  <2>3. \A n \in DOMAIN rows : /\ rows'[n] \in Row
                              /\ rows'[n].to = rows[n].to
                              /\ rows'[n].fits = rows[n].fits
    BY <2>2 DEF Row
  <2>4. rows' \in [1..Len(rows) -> Row]
    BY <2>1, <2>3
  <2> QED
    BY <2>1, <2>3, <2>4
<1>2. TypeOK'
  BY <1>1 DEF IInv, TypeOK
<1>3. Grows
  BY <1>1 DEF Grows
<1>4. DevicesAreHad'
  BY <1>1 DEF IInv, DevicesAreHad, DevicesOf
<1> QED
  BY <1>2, <1>3, <1>4, WayStays DEF IInv

LEMMA UninstallKeeps ==
    ASSUME IInv, NEW d \in Removable, Uninstall(d)
    PROVE  IInv'
<1> USE DEF Uninstall, sockets, history
<1>1. TypeOK'
  BY RemovableAreDevices DEF IInv, TypeOK
<1>2. Grows /\ DevicesAreHad'
  BY DEF IInv, Grows, DevicesAreHad, DevicesOf
<1> QED
  BY <1>1, <1>2, WayStays DEF IInv

---------------------------------------------------------------------------
(* createNotification *)

LEMMA CreateNotificationKeeps ==
    ASSUME IInv, NEW h \in Handlers, NEW u \in Users, CreateNotification(h, u)
    PROVE  IInv'
<1> DEFINE k == [NoCall EXCEPT !.todo = <<"row", "publish", "tokens", "queue">>, !.to = u]
<1> USE DEF CreateNotification, sockets, history
<1>1. k \in Call /\ CallOK(k)
  <2>1. <<"row", "publish", "tokens", "queue">> \in Seq(Steps)
    BY DEF Steps
  <2> QED
    BY <2>1 DEF NoCall, Call, CallOK
<1>2. call' = [call EXCEPT ![h] = k]
  OBVIOUS
<1> HIDE DEF k
<1>3. TypeOK'
  BY <1>1, <1>2 DEF IInv, TypeOK
<1>4. \A g \in Handlers : CallOK(call[g])'
  <2>1. \A g \in Handlers : CallOK(call'[g])
    BY <1>1, <1>2 DEF IInv, TypeOK
  <2> QED
    BY <2>1 DEF CallOK
<1>5. DevicesAreHad' /\ JobsAreHad' /\ WorkerIsRight' /\ PushesHaveRows'
      /\ PushesFollowRegistration'
  BY DEF IInv, DevicesAreHad, DevicesOf, JobsAreHad, WorkerIsRight, JobOK,
         PushesHaveRows, PushesFollowRegistration
<1> QED
  BY <1>3, <1>4, <1>5 DEF IInv

(* Where a call is when it is not idle.                                    *)
LEMMA CallSteps ==
    ASSUME IInv, NEW h \in Handlers, NEW step \in Steps, At(h, step)
    PROVE  /\ call[h] \in Call
           /\ call[h].todo = CASE step = "row" -> <<"row", "publish", "tokens", "queue">>
                               [] step = "publish" -> <<"publish", "tokens", "queue">>
                               [] step = "tokens" -> <<"tokens", "queue">>
                               [] step = "queue" -> <<"queue">>
           /\ step = "row" => call[h].to \in Users
           /\ step # "row" => /\ call[h].note \in DOMAIN rows
                              /\ rows[call[h].note].to = call[h].to
                              /\ call[h].tokens \subseteq had[call[h].note]
<1>1. CallOK(call[h]) /\ call[h] \in Call
  BY DEF IInv, TypeOK
<1> QED
  BY <1>1 DEF At, CallOK, NoCall, Steps

(* A call that goes on knows what it must.                                 *)
LEMMA OtherCallsStay ==
    ASSUME IInv, NEW h \in Handlers, NEW k, call' = [call EXCEPT ![h] = k],
           k \in Call, CallOK(k), Grows
    PROVE  /\ call' \in [Handlers -> Call]
           /\ \A g \in Handlers : CallOK(call[g])'
<1>1. \A g \in Handlers : call'[g] = IF g = h THEN k ELSE call[g]
  BY DEF IInv, TypeOK
<1>2. \A g \in Handlers : CallOK(call'[g])
  BY <1>1 DEF IInv
<1>3. \A g \in Handlers : CallOK(call[g])'
  BY <1>2, CallsStay DEF CallOK
<1> QED
  BY <1>3 DEF IInv, TypeOK

LEMMA EndKeeps ==
    ASSUME IInv, NEW h \in Handlers, End(h), UNCHANGED <<rows, tokens, gone, had>>
    PROVE  /\ call' \in [Handlers -> Call]
           /\ \A g \in Handlers : CallOK(call[g])'
<1>1. NoCall \in Call /\ CallOK(NoCall)
  BY NoCallIsCall DEF CallOK
<1>2. Grows
  BY DEF Grows
<1> QED
  BY <1>1, <1>2, OtherCallsStay DEF End

(* The row is there with all the devices its receiver has.                 *)
LEMMA CreateRowKeeps ==
    ASSUME IInv, NEW h \in Handlers, CreateRow(h)
    PROVE  IInv'
<1> DEFINE u == call[h].to
           n == Len(rows) + 1
           known == [call[h] EXCEPT !.note = n]
           k == [known EXCEPT !.todo = Tail(@)]
<1> USE DEF CreateRow, sockets
<1>1. /\ call[h] \in Call /\ u \in Users
      /\ call[h].todo = <<"row", "publish", "tokens", "queue">>
  BY CallSteps DEF Steps
<1>2. /\ DOMAIN rows = 1..Len(rows) /\ Len(rows) \in Nat /\ n \in Numbers
      /\ n \notin DOMAIN rows
  BY RowsAreNumbered, BoundsAreNumbers DEF IInv, Numbers
<1>0. PICK fits \in BOOLEAN :
        rows' = Append(rows, [to |-> u, state |-> "unread", fits |-> fits])
  OBVIOUS
<1>3. /\ rows' = Append(rows, [to |-> u, state |-> "unread", fits |-> fits])
      /\ call' = [call EXCEPT ![h] = k]
      /\ had' = [had EXCEPT ![n] = DevicesOf(u)]
      /\ kept' = [kept EXCEPT ![n] = DevicesOf(u)]
  BY <1>0 DEF Then
<1>4. /\ rows' \in Seq(Row) /\ Len(rows') = n /\ DOMAIN rows' = DOMAIN rows \cup {n}
      /\ \A i \in DOMAIN rows : rows'[i] = rows[i]
      /\ rows'[n].to = u
  <2>1. [to |-> u, state |-> "unread", fits |-> fits] \in Row
    BY <1>1 DEF Row
  <2> QED
    BY <1>2, <1>3, <2>1, AppendProperties, LenProperties DEF IInv, TypeOK
<1>5. Grows
  BY <1>2, <1>3, <1>4 DEF IInv, TypeOK, Grows
<1>6. /\ k.todo = <<"publish", "tokens", "queue">> /\ k.note = n /\ k.to = u
      /\ k.tokens = {} /\ k \in Call
  <2>1. CallOK(call[h])
    BY DEF IInv
  <2>2. call[h].tokens = {}
    BY <1>1, <2>1 DEF CallOK, NoCall
  <2>3. Tail(call[h].todo) = <<"publish", "tokens", "queue">>
    BY <1>1
  <2>4. <<"publish", "tokens", "queue">> \in Seq(Steps)
    BY DEF Steps
  <2>5. n \in Nat
    BY <1>2
  <2>6. /\ known \in Call /\ known.todo = call[h].todo /\ known.note = n
        /\ known.to = u /\ known.tokens = {}
    BY <1>1, <2>2, <2>4, <2>5, CallFields
  <2>7. k = [known EXCEPT !.todo = <<"publish", "tokens", "queue">>]
    BY <2>3, <2>6
  <2> HIDE DEF known, k
  <2> QED
    BY <2>4, <2>5, <2>6, <2>7, CallFields
<1> HIDE DEF k
<1>8. call' \in [Handlers -> Call] /\ \A g \in Handlers : CallOK(call[g])'
  <2>1. \A g \in Handlers : call'[g] = IF g = h THEN k ELSE call[g]
    BY <1>3 DEF IInv, TypeOK
  <2>2. \A g \in Handlers : CallOK(call[g])'
    <3> SUFFICES ASSUME NEW g \in Handlers PROVE CallOK(call[g])'
      OBVIOUS
    <3>1. CASE g = h
      <4>1. /\ call'[g].todo = <<"publish", "tokens", "queue">>
            /\ call'[g].note \in DOMAIN rows' /\ rows'[call'[g].note].to = call'[g].to
            /\ call'[g].tokens \subseteq had'[call'[g].note]
        BY <1>4, <1>6, <2>1, <3>1
      <4> QED
        BY <4>1 DEF CallOK
    <3>2. CASE g # h
      BY <2>1, <3>2, <1>5, CallsStay DEF IInv, CallOK
    <3> QED
      BY <3>1, <3>2
  <2> QED
    BY <1>3, <1>6, <2>2 DEF IInv, TypeOK
<1>9. TypeOK'
  <2>1. had' \in [Numbers -> SUBSET Devices] /\ kept' \in [Numbers -> SUBSET Devices]
    BY <1>3 DEF IInv, TypeOK, DevicesOf
  <2>2. Len(rows') <= MaxRows
    BY <1>2, <1>4 DEF Numbers
  <2> QED
    BY <1>4, <1>8, <2>1, <2>2 DEF IInv, TypeOK
<1>10. DevicesAreHad'
  BY <1>2, <1>3, <1>4 DEF IInv, TypeOK, DevicesAreHad, DevicesOf
<1>11. JobsAreHad' /\ WorkerIsRight'
  BY <1>5 DEF IInv, JobsAreHad, WorkerIsRight, JobOK, Grows
<1>12. PushesHaveRows' /\ PushesFollowRegistration'
  BY <1>5 DEF IInv, PushesHaveRows, PushesFollowRegistration, Grows
<1> QED
  BY <1>8, <1>9, <1>10, <1>11, <1>12 DEF IInv

(* Steps of a call that leave rows, tokens and answers alone.              *)
LEMMA CallKeeps ==
    ASSUME IInv, call' \in [Handlers -> Call],
           \A g \in Handlers : CallOK(call[g])',
           pushQueue' \subseteq Job, \A job \in pushQueue' : JobOK(job),
           channel' \subseteq Message, lost' \subseteq Numbers,
           failures' \in 0..MaxFailures,
           UNCHANGED <<rows, tokens, worker, answer, gone, clients, subscribed, emitted,
                       had, kept>>
    PROVE  IInv'
<1>1. TypeOK'
  BY DEF IInv, TypeOK
<1>2. DevicesAreHad' /\ JobsAreHad' /\ WorkerIsRight' /\ PushesHaveRows'
      /\ PushesFollowRegistration'
  BY DEF IInv, DevicesAreHad, DevicesOf, JobsAreHad, WorkerIsRight, JobOK,
         PushesHaveRows, PushesFollowRegistration
<1> QED
  BY <1>1, <1>2 DEF IInv

LEMMA ThenKeeps ==
    ASSUME IInv, NEW h \in Handlers, NEW step \in {"publish", "tokens"},
           At(h, step), NEW known \in Call,
           known.todo = call[h].todo, known.note = call[h].note,
           known.to = call[h].to,
           known.tokens \subseteq had[call[h].note],
           Then(h, known), UNCHANGED <<rows, tokens, gone, had>>
    PROVE  /\ call' \in [Handlers -> Call]
           /\ \A g \in Handlers : CallOK(call[g])'
<1> DEFINE k == [known EXCEPT !.todo = Tail(@)]
<1>1. /\ call[h].todo = IF step = "publish" THEN <<"publish", "tokens", "queue">>
                        ELSE <<"tokens", "queue">>
      /\ call[h].note \in DOMAIN rows
      /\ rows[call[h].note].to = call[h].to
  BY CallSteps DEF Steps
<1>2. Tail(call[h].todo) \in {<<"tokens", "queue">>, <<"queue">>}
  BY <1>1
<1>3. Tail(call[h].todo) \in Seq(Steps)
  <2>1. <<"tokens", "queue">> \in Seq(Steps) /\ <<"queue">> \in Seq(Steps)
    BY DEF Steps
  <2> QED
    BY <1>2, <2>1
<1>4. k \in Call /\ CallOK(k)
  BY <1>1, <1>2, <1>3 DEF Call, CallOK
<1>5. call' = [call EXCEPT ![h] = k] /\ Grows
  BY DEF Then, Grows
<1> HIDE DEF k
<1> QED
  BY <1>4, <1>5, OtherCallsStay

LEMMA PublishKeeps ==
    ASSUME IInv, NEW h \in Handlers, Publish(h)
    PROVE  IInv'
<1> USE DEF Publish, sockets, history
<1>1. /\ call[h] \in Call /\ call[h].tokens \subseteq had[call[h].note]
  BY CallSteps DEF Steps
<1>2. call' \in [Handlers -> Call] /\ \A g \in Handlers : CallOK(call[g])'
  BY <1>1, ThenKeeps
<1>3. channel' \subseteq Message
  BY <1>1 DEF IInv, TypeOK, Call, Message
<1> QED
  BY <1>2, <1>3, CallKeeps DEF IInv, TypeOK, JobsAreHad

LEMMA ReadTokensKeeps ==
    ASSUME IInv, NEW h \in Handlers, ReadTokens(h)
    PROVE  IInv'
<1> USE DEF ReadTokens, sockets, history
<1> DEFINE found == TokensFor(call[h].to)
           known == [call[h] EXCEPT !.tokens = found]
<1>1. /\ call[h] \in Call /\ call[h].note \in DOMAIN rows
      /\ rows[call[h].note].to = call[h].to
  BY CallSteps DEF Steps
<1>2. found \subseteq had[call[h].note] /\ found \subseteq Devices
  BY <1>1 DEF IInv, DevicesAreHad, TokensFor, DevicesOf
<1>3. /\ known \in Call /\ known.todo = call[h].todo /\ known.note = call[h].note
      /\ known.to = call[h].to /\ known.tokens = found
  BY <1>1, <1>2 DEF Call
<1>4. call' \in [Handlers -> Call] /\ \A g \in Handlers : CallOK(call[g])'
  <2>1. CASE found = {}
    BY <2>1, EndKeeps
  <2>2. CASE found # {}
    <3>1. Then(h, known) /\ At(h, "tokens")
      BY <2>2
    <3> HIDE DEF known, found
    <3> QED
      BY <3>1, <1>2, <1>3, ThenKeeps
  <2> QED
    BY <2>1, <2>2
<1> QED
  BY <1>4, CallKeeps DEF IInv, TypeOK, JobsAreHad

LEMMA EnqueueKeeps ==
    ASSUME IInv, NEW h \in Handlers, Enqueue(h)
    PROVE  IInv'
<1> USE DEF Enqueue, sockets, history
<1>1. /\ call[h] \in Call /\ call[h].note \in DOMAIN rows
      /\ call[h].tokens \subseteq had[call[h].note]
  BY CallSteps DEF Steps
<1>2. call[h].note \in Numbers
  BY <1>1, RowsAreNumbered, BoundsAreNumbers DEF IInv, Numbers
<1>3. call' \in [Handlers -> Call] /\ \A g \in Handlers : CallOK(call[g])'
  BY EndKeeps
<1>4. pushQueue' \subseteq Job /\ \A job \in pushQueue' : JobOK(job)
  BY <1>1, <1>2 DEF IInv, TypeOK, JobsAreHad, JobOK, Job, Call
<1> QED
  BY <1>3, <1>4, CallKeeps DEF IInv, TypeOK

LEMMA FailKeeps ==
    ASSUME IInv, NEW h \in Handlers, Fail(h)
    PROVE  IInv'
<1> USE DEF Fail, sockets, history
<1>1. call' \in [Handlers -> Call] /\ \A g \in Handlers : CallOK(call[g])'
  BY EndKeeps
<1>2. lost' \subseteq Numbers /\ failures' \in 0..MaxFailures
  BY BoundsAreNumbers DEF IInv, TypeOK
<1> QED
  BY <1>1, <1>2, CallKeeps DEF IInv, TypeOK, JobsAreHad

---------------------------------------------------------------------------
(* The push worker *)

IdleWorker == [note : 0..MaxRows, tokens : SUBSET Devices, invalid : SUBSET Devices]

LEMMA IdleIsWorker == Idle \in IdleWorker
BY BoundsAreNumbers DEF Idle, IdleWorker

(* What FCM answers is noted for the tokens of the job, all of them its    *)
(* receiver's once.                                                        *)
LEMMA SendKeeps ==
    ASSUME IInv, NEW job \in pushQueue, Send(job)
    PROVE  IInv'
<1> USE DEF Send, sockets, history
<1>1. JobOK(job) /\ job \in Job
  BY DEF IInv, TypeOK, JobsAreHad
<1> DEFINE Noted(said) ==
             [d \in Devices |-> IF d \in job.tokens
                               THEN [answer[d] EXCEPT ![job.note] =
                                        IF said[d] = "ok" THEN "ok" ELSE "failed"]
                               ELSE answer[d]]
<1>2. PICK said \in [job.tokens -> Replies] :
          /\ \A d \in job.tokens : said[d] \in Says(d, job.note)
          /\ answer' = Noted(said)
          /\ worker' = IF InvalidTokens(said) = {} THEN Idle
                       ELSE [note |-> job.note, tokens |-> job.tokens,
                             invalid |-> InvalidTokens(said)]
  OBVIOUS
<1>3. /\ job.note \in Numbers /\ job.tokens \subseteq Devices
      /\ job.note \in DOMAIN rows /\ job.tokens \subseteq had[job.note]
  BY <1>1 DEF Job, JobOK
<1>4. /\ InvalidTokens(said) \subseteq job.tokens
      /\ \A d \in InvalidTokens(said) : d \in gone \/ ~rows[job.note].fits
  <2>1. InvalidTokens(said) \subseteq job.tokens
    BY DEF InvalidTokens
  <2>2. ASSUME NEW d \in InvalidTokens(said), d \notin gone, rows[job.note].fits
        PROVE  FALSE
    <3>1. said[d] \in Says(d, job.note)
      BY <1>2, <2>1
    <3>2. said[d] \in {"not-registered", "invalid-argument"}
      BY DEF InvalidTokens
    <3> QED
      BY <2>2, <3>1, <3>2 DEF Says
  <2> QED
    BY <2>1, <2>2
<1>5. \A d \in Devices, n \in Numbers :
         answer'[d][n] = IF d \in job.tokens /\ n = job.note
                         THEN IF said[d] = "ok" THEN "ok" ELSE "failed"
                         ELSE answer[d][n]
  BY <1>2, <1>3 DEF IInv, TypeOK
<1>6. answer' \in [Devices -> [Numbers -> {"none", "ok", "failed"}]]
  <2>1. \A d \in Devices : answer[d] \in [Numbers -> {"none", "ok", "failed"}]
    BY DEF IInv, TypeOK
  <2>2. \A d \in job.tokens :
           [answer[d] EXCEPT ![job.note] =
                IF said[d] = "ok" THEN "ok" ELSE "failed"]
                \in [Numbers -> {"none", "ok", "failed"}]
    BY <1>2, <1>3, <2>1
  <2> QED
    BY <1>2, <2>1, <2>2
<1>7. worker' \in IdleWorker
  BY <1>2, <1>3, <1>4, IdleIsWorker DEF IdleWorker, Numbers
<1>8. TypeOK'
  BY <1>6, <1>7 DEF IInv, TypeOK, IdleWorker
<1>9. WorkerIsRight'
  <2> SUFFICES ASSUME worker' # Idle
               PROVE  /\ JobOK(worker)'
                      /\ \A d \in worker'.invalid :
                            d \in gone' \/ ~rows'[worker'.note].fits
    BY DEF WorkerIsRight
  <2>1. /\ worker'.note = job.note /\ worker'.tokens = job.tokens
        /\ worker'.invalid = InvalidTokens(said)
    BY <1>2
  <2> QED
    BY <1>3, <1>4, <1>5, <2>1 DEF JobOK
<1>10. PushesHaveRows'
  BY <1>3, <1>5 DEF IInv, PushesHaveRows
<1>11. PushesFollowRegistration'
  BY <1>3, <1>5 DEF IInv, PushesFollowRegistration
<1>12. DevicesAreHad' /\ JobsAreHad'
  BY DEF IInv, DevicesAreHad, DevicesOf, JobsAreHad, JobOK
<1>13. \A h \in Handlers : CallOK(call[h])'
  BY DEF IInv, CallOK
<1> QED
  BY <1>8, <1>9, <1>10, <1>11, <1>12, <1>13 DEF IInv

LEMMA DeleteTokensKeeps ==
    ASSUME IInv, DeleteTokens
    PROVE  IInv'
<1> USE DEF DeleteTokens, sockets
<1>1. TypeOK'
  BY IdleIsWorker DEF IInv, TypeOK, IdleWorker
<1>2. DevicesAreHad'
  <2>1. \A n \in DOMAIN rows : rows[n].to # None
    <3>1. rows \in Seq(Row) /\ DOMAIN rows = 1..Len(rows)
      BY LenProperties DEF IInv, TypeOK
    <3>2. \A n \in DOMAIN rows : rows[n] \in Row
      BY <3>1, ElementOfSeq
    <3> QED
      BY <3>2, NoneIsNobody DEF Row
  <2> QED
    BY <2>1 DEF IInv, TypeOK, DevicesAreHad, DevicesOf
<1>3. \A h \in Handlers : CallOK(call[h])'
  BY DEF IInv, CallOK
<1>4. JobsAreHad' /\ WorkerIsRight' /\ PushesHaveRows' /\ PushesFollowRegistration'
  BY DEF IInv, JobsAreHad, WorkerIsRight, JobOK, PushesHaveRows, PushesFollowRegistration
<1> QED
  BY <1>1, <1>2, <1>3, <1>4 DEF IInv

(* A job that fails is over; one that is run again has the tokens it had.  *)
LEMMA WorkerFailuresKeep ==
    ASSUME IInv, WorkerStops \/ \E job \in pushQueue : SendFails(job)
    PROVE  IInv'
<1> USE DEF sockets, history
<1>1. CASE WorkerStops
  <2>1. JobOK(worker)
    BY <1>1 DEF WorkerStops, IInv, WorkerIsRight
  <2>2. worker.note \in Numbers /\ worker.tokens \subseteq Devices
    BY <2>1, RowsAreNumbered, BoundsAreNumbers DEF IInv, TypeOK, JobOK, Numbers
  <2>3. /\ pushQueue' = pushQueue \cup {[note |-> worker.note, tokens |-> worker.tokens]}
        /\ worker' = Idle /\ failures' \in 0..MaxFailures
        /\ UNCHANGED <<rows, tokens, call, answer, gone, sockets, history>>
    BY <1>1, BoundsAreNumbers DEF WorkerStops, IInv, TypeOK
  <2>4. pushQueue' \subseteq Job
    BY <2>2, <2>3 DEF IInv, TypeOK, Job
  <2>5. TypeOK'
    BY <2>3, <2>4, IdleIsWorker DEF IInv, TypeOK, IdleWorker
  <2>6. JobsAreHad' /\ WorkerIsRight'
    BY <2>1, <2>3 DEF IInv, JobsAreHad, WorkerIsRight, JobOK
  <2>7. /\ DevicesAreHad' /\ PushesHaveRows' /\ PushesFollowRegistration'
        /\ \A h \in Handlers : CallOK(call[h])'
    BY <2>3 DEF IInv, DevicesAreHad, DevicesOf, PushesHaveRows,
                PushesFollowRegistration, CallOK
  <2> QED
    BY <2>5, <2>6, <2>7 DEF IInv
<1>2. ASSUME NEW job \in pushQueue, SendFails(job)
      PROVE  IInv'
  <2>1. job.note \in Numbers
    BY DEF IInv, TypeOK, Job
  <2>2. /\ pushQueue' \subseteq pushQueue /\ lost' \subseteq Numbers
        /\ failures' \in 0..MaxFailures
        /\ UNCHANGED <<rows, tokens, call, worker, answer, gone, sockets, had, kept>>
    BY <1>2, <2>1, BoundsAreNumbers DEF SendFails, IInv, TypeOK
  <2>3. TypeOK'
    BY <2>2 DEF IInv, TypeOK
  <2>4. /\ DevicesAreHad' /\ PushesHaveRows' /\ PushesFollowRegistration'
        /\ JobsAreHad' /\ WorkerIsRight' /\ \A h \in Handlers : CallOK(call[h])'
    BY <2>2 DEF IInv, DevicesAreHad, DevicesOf, PushesHaveRows, JobsAreHad, JobOK,
                WorkerIsRight, PushesFollowRegistration, CallOK
  <2> QED
    BY <2>3, <2>4 DEF IInv
<1> QED
  BY <1>1, <1>2

---------------------------------------------------------------------------
(* The sockets touch nothing that the push depends on. *)

LEMMA SocketEventsKeep ==
    ASSUME IInv, SocketEvents
    PROVE  IInv'
<1>1. UNCHANGED <<rows, tokens, call, pushQueue, worker, answer, gone, history, failures>>
  BY Zenon DEF SocketEvents, OnSubscribed, OnMessage, HandleNotification,
               HandleConnection, HandleDisconnect
<1>2. /\ clients' \in [Users -> SUBSET Sockets] /\ subscribed' \in BOOLEAN
      /\ channel' \subseteq Message /\ emitted' \subseteq Sockets \X Numbers
  <2>1. CASE OnSubscribed
    BY <2>1 DEF OnSubscribed, Emit, IInv, TypeOK
  <2>2. CASE \E message \in channel : OnMessage(message)
    BY <2>2 DEF OnMessage, IInv, TypeOK
  <2>3. CASE \E u \in Users : HandleNotification(u)
    BY <2>3 DEF HandleNotification, Message, IInv, TypeOK
  <2>4. CASE \E u \in Users, s \in Sockets : HandleConnection(s, u)
    BY <2>4 DEF HandleConnection, IInv, TypeOK
  <2>5. CASE \E s \in Sockets : HandleDisconnect(s)
    BY <2>5 DEF HandleDisconnect, IInv, TypeOK
  <2> QED
    BY <2>1, <2>2, <2>3, <2>4, <2>5 DEF SocketEvents
<1>3. TypeOK'
  BY <1>1, <1>2 DEF IInv, TypeOK, history
<1>4. Grows /\ DevicesAreHad'
  BY <1>1 DEF IInv, Grows, DevicesAreHad, DevicesOf, history
<1> QED
  BY <1>1, <1>3, <1>4, WayStays DEF IInv

---------------------------------------------------------------------------
LEMMA NextKeeps ==
    ASSUME IInv, [Next]_vars
    PROVE  IInv'
<1>1. CASE Requests \/ AdminRequests
  <2>1. ASSUME NEW d \in Devices, NEW u \in Users,
               RegisterDeviceToken(d, u) \/ UnregisterDeviceToken(d, u)
        PROVE  IInv'
    BY <2>1, HandKeeps DEF RegisterDeviceToken, UnregisterDeviceToken
  <2>2. ASSUME NEW u \in Users, NEW n,
               \/ MarkAllAsRead(u) \/ MarkAsRead(u, n) \/ MarkAsUnread(u, n)
               \/ DeleteNotification(u, n) \/ Remove(n) \/ RemoveAll(u)
        PROVE  IInv'
    BY <2>2, MarkKeeps DEF MarkAllAsRead, MarkAsRead, MarkAsUnread, DeleteNotification,
                           Remove, RemoveAll
  <2>3. ASSUME NEW n, Remove(n)
        PROVE  IInv'
    BY <2>3, MarkKeeps DEF Remove
  <2> QED
    BY <1>1, <2>1, <2>2, <2>3 DEF Requests, AdminRequests
<1>2. CASE Work
  BY <1>2, SendKeeps, DeleteTokensKeeps DEF Work
<1>3. CASE SocketEvents
  BY <1>3, SocketEventsKeep
<1>4. ASSUME NEW h \in Handlers,
             Step(h) \/ Fail(h) \/ \E u \in Users : CreateNotification(h, u)
      PROVE  IInv'
  BY <1>4, CreateRowKeeps, PublishKeeps, ReadTokensKeeps, EnqueueKeeps, FailKeeps,
     CreateNotificationKeeps DEF Step
<1>5. CASE WorkerStops \/ \E job \in pushQueue : SendFails(job)
  BY <1>5, WorkerFailuresKeep
<1>7. CASE \E d \in Removable : Uninstall(d)
  BY <1>7, UninstallKeeps
<1>6. CASE UNCHANGED vars
  <2>1. TypeOK' /\ DevicesAreHad'
    BY <1>6 DEF IInv, TypeOK, DevicesAreHad, DevicesOf, vars, sockets, history
  <2>2. Grows /\ UNCHANGED <<call, pushQueue, worker, answer>>
    BY <1>6 DEF Grows, vars, history
  <2> QED
    BY <2>1, <2>2, WayStays DEF IInv
<1> QED
  BY <1>1, <1>2, <1>3, <1>4, <1>5, <1>6, <1>7 DEF Next

(* What calls, queued jobs and the worker rely on when they resume.        *)
THEOREM Invariant == Spec => []IInv
BY InitInv, NextKeeps, PTL DEF Spec

(* Every variable keeps its type.                                          *)
THEOREM TypeCorrect == Spec => []TypeOK
BY Invariant, PTL DEF IInv

(* A push shows only on a device that was its receiver's at some time      *)
(* after the notification was made, however often tokens change hands      *)
(* between the call, the queue and the worker.                             *)
THEOREM PushesAreFollowed == Spec => []PushesFollowRegistration
BY Invariant, PTL DEF IInv

(* A device that is still there is forgotten only over a payload that FCM  *)
(* refuses, whatever outages, repeated jobs, requests and changes of hand  *)
(* come between the answer and the deletion.                               *)
THEOREM DevicesAreKept == Spec => OnlyBadPayloadsCostDevices
<1>1. ASSUME IInv, [Next]_vars, worker # Idle, worker' = Idle,
             NEW d \in Devices, tokens[d] # None, tokens'[d] = None
      PROVE  d \in gone \/ ~rows[worker.note].fits
  <2>1. CASE DeleteTokens
    BY <1>1, <2>1 DEF DeleteTokens, IInv, WorkerIsRight
  <2>2. CASE WorkerStops
    BY <1>1, <2>2 DEF WorkerStops
  <2>3. CASE UNCHANGED worker
    BY <1>1, <2>3
  <2>4. DeleteTokens \/ WorkerStops \/ UNCHANGED worker
    <3>1. CASE Requests \/ AdminRequests
      BY <3>1, Zenon DEF Requests, AdminRequests, RegisterDeviceToken,
         UnregisterDeviceToken, MarkAllAsRead, MarkAsRead, MarkAsUnread,
         DeleteNotification, Remove, RemoveAll, Mark
    <3>2. CASE Work
      BY <1>1, <3>2, Zenon DEF Work, Send
    <3>3. CASE SocketEvents
      BY <3>3, Zenon DEF SocketEvents, OnSubscribed, OnMessage, HandleNotification,
         HandleConnection, HandleDisconnect
    <3>4. ASSUME NEW h \in Handlers,
                 Step(h) \/ Fail(h) \/ \E u \in Users : CreateNotification(h, u)
          PROVE  UNCHANGED worker
      BY <3>4, Zenon DEF Step, CreateRow, Publish, ReadTokens, Enqueue, Fail,
         CreateNotification
    <3>5. CASE \E job \in pushQueue : SendFails(job)
      BY <3>5, Zenon DEF SendFails
    <3>6. CASE UNCHANGED vars
      BY <3>6 DEF vars
    <3>7. CASE \E e \in Removable : Uninstall(e)
      BY <3>7, Zenon DEF Uninstall
    <3> QED
      BY <1>1, <3>1, <3>2, <3>3, <3>4, <3>5, <3>6, <3>7 DEF Next
  <2> QED
    BY <2>1, <2>2, <2>3, <2>4
<1>2. IInv /\ [Next]_vars =>
        [worker # Idle /\ worker' = Idle =>
            \A d \in Devices : tokens[d] # None /\ tokens'[d] = None =>
                d \in gone \/ ~rows[worker.note].fits]_vars
  BY <1>1
<1> QED
  BY <1>2, Invariant, PTL DEF Spec, OnlyBadPayloadsCostDevices
=============================================================================
