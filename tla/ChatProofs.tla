------------------------------ MODULE ChatProofs ------------------------------
(***************************************************************************)
(* Safety of Chat for any number of users, sockets, posts in flight and    *)
(* recordings, with failures and crashes anywhere.                         *)
(*                                                                         *)
(* The module has three parts that share only the counters of the bounds:  *)
(* sockets and presence, conversations and messages, recordings.  Each has *)
(* an inductive invariant of its own; a crash is a step of all three.      *)
(***************************************************************************)
EXTENDS Chat, SequenceTheorems, FiniteSetTheorems, TLAPS

CountersOK == events \in 0..MaxEvents /\ failures \in 0..MaxFailures

---------------------------------------------------------------------------
(* Sockets and presence *)

SocketTypes ==
    /\ clients \in [Users -> Sockets \cup {None}]
    /\ activeUsers \in [Users -> Sockets \cup {None}]
    /\ owner \in [Sockets -> Users \cup {None}]
    /\ open \subseteq {s \in Sockets : owner[s] # None}
    /\ latest \in [Users -> Sockets \cup {None}]
    /\ joined \subseteq Sockets \X Sockets
    /\ heard \subseteq Sockets \X Users
    /\ writes \subseteq Sockets \X Status
    /\ availability \in [Users -> Status]
    /\ disturbed \subseteq Users

(* A user's latest socket is his own, and who has or had a socket has a    *)
(* latest one; what is still to be written comes from a socket with an     *)
(* owner.                                                                  *)
Ownership ==
    /\ \A u \in Users : latest[u] # None => owner[latest[u]] = u
    /\ \A s \in Sockets : owner[s] # None => latest[owner[s]] # None
    /\ \A w \in writes : owner[w[1]] # None

(* The one write of a user of whom no two overlapped says what the         *)
(* registry says.                                                          *)
WritesOf(u) == {w \in writes : owner[w[1]] = u}

PresenceOK ==
    \A u \in Users \ disturbed :
        /\ \A w, x \in WritesOf(u) : w = x
        /\ \A w \in WritesOf(u) :
              clients[u] = IF w[2] = "online" THEN w[1] ELSE None
        /\ WritesOf(u) = {} =>
              (availability[u] = "online" <=> clients[u] # None)

SocketInv ==
    /\ SocketTypes
    /\ RegistryIsTheLatestSocket
    /\ Ownership
    /\ PresenceOK

LEMMA SocketInit == Init => SocketInv
BY NoneIsNothing
   DEF Init, SocketInv, SocketTypes, RegistryIsTheLatestSocket, Ownership,
       PresenceOK, WritesOf, Status

(* A new socket becomes its user's; unless he has a write under way, the   *)
(* one he now has says online.                                             *)
LEMMA ConnectionKeeps ==
    ASSUME SocketInv, NEW s \in Sockets, NEW u \in Users, HandleConnection(s, u)
    PROVE  SocketInv'
<1> USE NoneIsNothing DEF SocketInv, HandleConnection, Write
<1>1. SocketTypes'
  BY DEF SocketTypes, Status
<1>2. Ownership'
  BY DEF SocketTypes, Ownership
<1>3. RegistryIsTheLatestSocket'
  <2>1. \A v \in Users : clients'[v] = IF latest'[v] \in open' THEN latest'[v] ELSE None
    BY DEF SocketTypes, Ownership, RegistryIsTheLatestSocket
  <2>2. \A r \in Sockets : owner[r] # None => owner'[r] = owner[r]
    BY DEF SocketTypes
  <2>3. ASSUME NEW x \in heard
        PROVE  \/ owner'[x[1]] = x[2]
               \/ \E r \in Sockets : owner'[r] = x[2] /\ <<x[1], r>> \in joined
    <3>1. x[1] \in Sockets /\ x[2] \in Users /\ x[2] # None
      BY DEF SocketTypes
    <3> QED
      BY <2>2, <3>1 DEF RegistryIsTheLatestSocket
  <2> QED
    BY <2>1, <2>3 DEF RegistryIsTheLatestSocket
<1>4. PresenceOK'
  <2> SUFFICES ASSUME NEW v \in Users, v \notin disturbed'
               PROVE  /\ \A w, x \in WritesOf(v)' : w = x
                      /\ \A w \in WritesOf(v)' :
                            clients'[v] = IF w[2] = "online" THEN w[1] ELSE None
                      /\ WritesOf(v)' = {} =>
                            (availability'[v] = "online" <=> clients'[v] # None)
    BY DEF PresenceOK
  <2>1. \A w \in writes : owner'[w[1]] = owner[w[1]]
    BY DEF SocketTypes, Ownership
  <2>2. CASE v = u
    <3>1. WritesOf(u) = {}
      BY <2>2 DEF SocketTypes, WritesOf
    <3>2. WritesOf(v)' = {<<s, "online">>}
      BY <2>1, <2>2, <3>1 DEF SocketTypes, WritesOf
    <3>3. clients'[u] = s
      BY DEF SocketTypes
    <3>4. \A w \in WritesOf(v)' : w = <<s, "online">>
      BY <3>2
    <3>5. WritesOf(v)' # {}
      BY <3>2
    <3> QED
      BY <2>2, <3>3, <3>4, <3>5
  <2>3. CASE v # u
    <3>1. WritesOf(v)' = WritesOf(v)
      BY <2>1, <2>3 DEF SocketTypes, WritesOf
    <3> QED
      BY <2>3, <3>1 DEF SocketTypes, PresenceOK
  <2> QED
    BY <2>2, <2>3
<1> QED
  BY <1>1, <1>2, <1>3, <1>4

(* Dropping a socket, whatever of its own connection is still to be        *)
(* written: if it is not its user's latest, a later connection has written *)
(* or disturbed.                                                           *)
LEMMA DropKeeps ==
    ASSUME SocketInv, NEW s \in open, NEW others \in SUBSET writes,
           writes \ others \subseteq {<<s, "online">>},
           Drop(s, others), UNCHANGED <<owner, latest, joined, heard>>
    PROVE  SocketInv'
<1> DEFINE u == owner[s]
<1> USE NoneIsNothing DEF SocketInv
<1>1. s \in Sockets /\ u \in Users
  BY DEF SocketTypes
<1>2. SocketTypes'
  BY <1>1 DEF SocketTypes, Drop, Write, Status
<1>3. Ownership'
  BY <1>1 DEF SocketTypes, Ownership, Drop, Write
<1>4. /\ clients[u] = s => clients'[u] = None
      /\ \A v \in Users : clients[v] # s => clients'[v] = clients[v]
  BY <1>1 DEF SocketTypes, Drop
<1>5. \A v \in Users : clients[v] = s <=> latest[v] = s
  BY <1>1 DEF SocketTypes, RegistryIsTheLatestSocket
<1>6. \A v \in Users : latest[v] = s => v = u
  BY DEF Ownership, SocketTypes
<1>7. open' = open \ {s}
  BY DEF Drop
<1>8. RegistryIsTheLatestSocket'
  BY <1>1, <1>4, <1>5, <1>6, <1>7 DEF SocketTypes, RegistryIsTheLatestSocket
<1>9. PresenceOK'
  <2> SUFFICES ASSUME NEW v \in Users, v \notin disturbed'
               PROVE  /\ \A w, x \in WritesOf(v)' : w = x
                      /\ \A w \in WritesOf(v)' :
                            clients'[v] = IF w[2] = "online" THEN w[1] ELSE None
                      /\ WritesOf(v)' = {} =>
                            (availability'[v] = "online" <=> clients'[v] # None)
    BY DEF PresenceOK
  <2>1. v \notin disturbed /\ availability' = availability
    BY DEF Drop, Write
  <2>2. CASE v # u
    <3>1. WritesOf(v)' = WritesOf(v)
      BY <1>1, <2>2 DEF SocketTypes, WritesOf, Drop, Write
    <3> QED
      BY <1>4, <1>5, <1>6, <2>1, <2>2, <3>1 DEF PresenceOK
  <2>3. CASE v = u /\ clients[u] # s
    <3>1. writes' = others
      BY <2>3 DEF Drop
    <3>2. <<s, "online">> \notin writes
      BY <1>1, <2>1, <2>3 DEF PresenceOK, WritesOf
    <3>3. WritesOf(v)' = WritesOf(v)
      BY <3>1, <3>2 DEF WritesOf
    <3> QED
      BY <1>4, <2>1, <2>3, <3>3 DEF PresenceOK
  <2>4. CASE v = u /\ clients[u] = s
    <3>1. writes' = others \cup {<<s, "offline">>}
      BY <2>4 DEF Drop, Write
    <3>2. \A w \in others : owner[w[1]] # u
      BY <2>4 DEF Drop, Write
    <3>3. WritesOf(v)' = {<<s, "offline">>}
      BY <2>4, <3>1, <3>2 DEF WritesOf
    <3>4. \A w \in WritesOf(v)' : w = <<s, "offline">>
      BY <3>3
    <3>5. WritesOf(v)' # {}
      BY <3>3
    <3> QED
      BY <1>4, <2>4, <3>4, <3>5
  <2> QED
    BY <2>2, <2>3, <2>4
<1> QED
  BY <1>2, <1>3, <1>8, <1>9

(* The write of a connection fails after the socket has gone: the          *)
(* disconnection has written or disturbed.                                 *)
LEMMA ConnectionFailsKeeps ==
    ASSUME SocketInv, NEW w \in writes, ConnectionFails(w)
    PROVE  SocketInv'
<1> USE NoneIsNothing DEF SocketInv
<1>1. w = <<w[1], "online">> /\ w[1] \in Sockets
  BY DEF ConnectionFails, SocketTypes
<1>2. CASE w[1] \in open
  <2>1. Drop(w[1], writes \ {w}) /\ UNCHANGED <<owner, latest, joined, heard>>
    BY <1>2 DEF ConnectionFails
  <2>2. writes \ (writes \ {w}) \subseteq {<<w[1], "online">>}
    BY <1>1
  <2> QED
    BY <1>2, <2>1, <2>2, DropKeeps
<1>3. CASE w[1] \notin open
  <2>1. /\ writes' = writes \ {w}
        /\ UNCHANGED <<open, clients, activeUsers, availability, disturbed,
                       owner, latest, joined, heard>>
    BY <1>3 DEF ConnectionFails
  <2>2. SocketTypes' /\ Ownership' /\ RegistryIsTheLatestSocket'
    BY <2>1 DEF SocketTypes, Ownership, RegistryIsTheLatestSocket
  <2>3. \A v \in Users : clients[v] # w[1]
    BY <1>1, <1>3 DEF RegistryIsTheLatestSocket
  <2>4. \A v \in Users \ disturbed : w \notin WritesOf(v)
    BY <1>1, <2>3 DEF PresenceOK
  <2>5. \A v \in Users \ disturbed : WritesOf(v)' = WritesOf(v)
    BY <2>1, <2>4 DEF WritesOf
  <2>6. PresenceOK'
    BY <2>1, <2>5 DEF PresenceOK
  <2> QED
    BY <2>2, <2>6
<1> QED
  BY <1>2, <1>3

LEMMA WriteKeeps ==
    ASSUME SocketInv, NEW w \in writes, UpdateUserStatus(w)
    PROVE  SocketInv'
<1> USE NoneIsNothing DEF SocketInv, UpdateUserStatus, registry
<1>1. SocketTypes'
  BY DEF SocketTypes
<1>2. Ownership' /\ RegistryIsTheLatestSocket'
  BY DEF Ownership, RegistryIsTheLatestSocket
<1>3. PresenceOK'
  <2> SUFFICES ASSUME NEW v \in Users, v \notin disturbed'
               PROVE  /\ \A x, y \in WritesOf(v)' : x = y
                      /\ \A x \in WritesOf(v)' :
                            clients'[v] = IF x[2] = "online" THEN x[1] ELSE None
                      /\ WritesOf(v)' = {} =>
                            (availability'[v] = "online" <=> clients'[v] # None)
    BY DEF PresenceOK
  <2>1. CASE owner[w[1]] = v
    <3>1. w \in WritesOf(v) /\ WritesOf(v)' = {}
      BY <2>1 DEF PresenceOK, WritesOf
    <3>2. availability'[v] = w[2] /\ w[2] \in Status /\ w[1] \in Sockets
      BY <2>1 DEF SocketTypes
    <3>3. clients[v] = IF w[2] = "online" THEN w[1] ELSE None
      BY <3>1 DEF PresenceOK
    <3> QED
      BY <3>1, <3>2, <3>3 DEF Status
  <2>2. CASE owner[w[1]] # v
    <3>1. WritesOf(v)' = WritesOf(v) /\ availability'[v] = availability[v]
      BY <2>2 DEF WritesOf, SocketTypes
    <3> QED
      BY <3>1 DEF PresenceOK
  <2> QED
    BY <2>1, <2>2
<1> QED
  BY <1>1, <1>2, <1>3

(* Nobody has a socket after a crash; whose availability says otherwise    *)
(* had one.                                                                *)
LEMMA CrashKeepsSockets ==
    ASSUME SocketInv, Crash
    PROVE  SocketInv'
<1> USE NoneIsNothing DEF SocketInv, Crash
<1>1. SocketTypes' /\ Ownership'
  BY DEF SocketTypes, Ownership
<1>2. RegistryIsTheLatestSocket'
  BY DEF RegistryIsTheLatestSocket
<1>3. PresenceOK'
  <2> SUFFICES ASSUME NEW v \in Users, v \notin disturbed, latest[v] = None
               PROVE  availability[v] # "online"
    BY DEF PresenceOK, WritesOf
  <2>1. WritesOf(v) = {}
    BY DEF WritesOf, Ownership, SocketTypes
  <2>2. clients[v] = None
    BY DEF RegistryIsTheLatestSocket
  <2> QED
    BY <2>1, <2>2 DEF PresenceOK
<1> QED
  BY <1>1, <1>2, <1>3

LEMMA SocketNext ==
    ASSUME SocketInv, [Next]_vars
    PROVE  SocketInv'
<1>1. ASSUME NEW s \in Sockets, NEW u \in Users, HandleConnection(s, u)
      PROVE  SocketInv'
  BY <1>1, ConnectionKeeps
<1>2. ASSUME NEW s \in Sockets, HandleDisconnect(s)
      PROVE  SocketInv'
  BY <1>2, DropKeeps DEF HandleDisconnect
<1>3. ASSUME NEW w \in writes, UpdateUserStatus(w) \/ ConnectionFails(w)
      PROVE  SocketInv'
  BY <1>3, WriteKeeps, ConnectionFailsKeeps
<1>4. CASE Crash
  BY <1>4, CrashKeepsSockets
<1>5. ASSUME NEW s \in Sockets, NEW u \in Users, HandleJoin(s, u)
      PROVE  SocketInv'
  <2>1. UNCHANGED <<clients, owner, open, latest, joined, heard, presence>>
    BY <1>5 DEF HandleJoin
  <2>2. activeUsers' \in [Users -> Sockets \cup {None}]
    BY <1>5 DEF HandleJoin, SocketInv, SocketTypes
  <2> QED
    BY <2>1, <2>2 DEF SocketInv, SocketTypes, RegistryIsTheLatestSocket,
       Ownership, PresenceOK, WritesOf, presence
<1>6. ASSUME NEW u \in Users, ListenForMessages(u)
      PROVE  SocketInv'
  <2> DEFINE room == clients[u]
  <2>1. /\ UNCHANGED <<clients, activeUsers, owner, open, latest, joined, presence>>
        /\ heard' = heard \cup (Reaches(room) \X {u}) /\ room # None
    BY <1>6 DEF ListenForMessages
  <2>2. room \in Sockets /\ owner[room] = u
    BY <2>1 DEF SocketInv, SocketTypes, RegistryIsTheLatestSocket, Ownership
  <2>3. Reaches(room) \subseteq Sockets
    BY DEF Reaches, SocketInv, SocketTypes
  <2>4. SocketTypes' /\ Ownership' /\ PresenceOK'
    BY <2>1, <2>3 DEF SocketInv, SocketTypes, Ownership, PresenceOK, WritesOf, presence
  <2>5. ASSUME NEW x \in heard'
        PROVE  \/ owner'[x[1]] = x[2]
               \/ \E s \in Sockets : owner'[s] = x[2] /\ <<x[1], s>> \in joined'
    <3>1. CASE x \in heard
      BY <2>1, <3>1 DEF SocketInv, RegistryIsTheLatestSocket
    <3>2. CASE x[1] \in Reaches(room) /\ x[2] = u
      BY <2>1, <2>2, <3>2 DEF Reaches
    <3> QED
      BY <2>1, <3>1, <3>2
  <2>6. RegistryIsTheLatestSocket'
    BY <2>1, <2>5 DEF SocketInv, RegistryIsTheLatestSocket
  <2> QED
    BY <2>4, <2>6 DEF SocketInv
<1>12. ASSUME NEW s \in Sockets, NEW room \in Sockets, HandleRoomJoin(s, room)
       PROVE  SocketInv'
  <2>1. /\ UNCHANGED <<clients, activeUsers, owner, open, latest, heard, presence>>
        /\ joined' = joined \cup {<<s, room>>}
    BY <1>12 DEF HandleRoomJoin
  <2>2. SocketTypes' /\ Ownership' /\ PresenceOK'
    BY <2>1 DEF SocketInv, SocketTypes, Ownership, PresenceOK, WritesOf, presence
  <2>3. RegistryIsTheLatestSocket'
    BY <2>1 DEF SocketInv, RegistryIsTheLatestSocket
  <2> QED
    BY <2>2, <2>3 DEF SocketInv
<1>7. CASE UNCHANGED <<registry, presence>>
  BY <1>7 DEF SocketInv, SocketTypes, RegistryIsTheLatestSocket, Ownership,
     PresenceOK, WritesOf, registry, presence
<1>8. ASSUME NEW r \in Recordings, HandleRecordingChunk(r) \/ HandleRecordingEnd(r)
      PROVE  SocketInv'
  BY <1>8, <1>7 DEF HandleRecordingChunk, HandleRecordingEnd
<1>9. CASE ConversationRequests \/ MessageRequests
           \/ \E m \in DOMAIN messages, status \in MessageStatus :
                  UpdateMessageStatus(m, status)
  BY <1>9, <1>7 DEF ConversationRequests, MessageRequests, FindConversation,
     RemoveConversation, Post, UpdateMessageStatus
<1>10. CASE \/ \E h \in Handlers :
                  CreateConversation(h) \/ StoreMessage(h) \/ TouchConversation(h)
                  \/ EmitMessage(h) \/ Fail(h)
            \/ \E f \in flushing : StreamWrites(f)
  BY <1>10, <1>7 DEF CreateConversation, StoreMessage, TouchConversation,
     EmitMessage, Fail, StreamWrites
<1>11. CASE UNCHANGED vars
  BY <1>11, <1>7 DEF vars
<1> QED
  BY <1>1, <1>2, <1>3, <1>4, <1>5, <1>6, <1>8, <1>9, <1>10, <1>11, <1>12
  DEF Next, SocketEvents

---------------------------------------------------------------------------
(* Conversations and messages *)

Stored == [ conversation : DOMAIN conversations, state : MessageStatus \cup {"gone"} ]

PostTypes ==
    /\ conversations \in Seq([pair : Pairs, live : BOOLEAN])
    /\ messages \in Seq(Stored)
    /\ call \in [Handlers -> Call]
    /\ announced \subseteq DOMAIN messages
    /\ spoiled \subseteq DOMAIN messages

(* What a handler is at: nothing, a new conversation, or a message, which  *)
(* has a row of its conversation as soon as it is stored.                  *)
Holds(k) ==
    /\ k.message \in DOMAIN messages
    /\ messages[k.message].conversation = k.conversation

CallOK(k) ==
    \/ k.todo = <<>> /\ k.message = 0
    \/ k.todo = <<"add">> /\ k.message = 0 /\ k.pair \in Pairs
    \/ k.todo = <<"store", "touch", "emit">> /\ k.message = 0
    \/ k.todo \in {<<"touch", "emit">>, <<"emit">>} /\ Holds(k)

(* A message that is there is one of a conversation that is.               *)
MessagesAreLive ==
    \A m \in DOMAIN messages :
        messages[m].state # "gone" => messages[m].conversation \in Live

PostInv ==
    /\ PostTypes
    /\ \A h \in Handlers : CallOK(call[h])
    /\ MessagesAreLive
    /\ StoredIsAnnounced

LEMMA PostInit == Init => PostInv
BY DEF Init, PostInv, PostTypes, CallOK, MessagesAreLive, StoredIsAnnounced,
   NoCall, Call, Stored

(* What a handler has to do next says which case of CallOK it is.          *)
LEMMA Heads ==
    ASSUME NEW h \in Handlers, CallOK(call[h])
    PROVE  /\ call[h].todo = <<>> => call[h].message = 0
           /\ At(h, "add") => call[h].todo = <<"add">>
           /\ At(h, "store") => call[h].todo = <<"store", "touch", "emit">>
           /\ At(h, "touch") => call[h].todo = <<"touch", "emit">> /\ Holds(call[h])
           /\ At(h, "emit") => call[h].todo = <<"emit">> /\ Holds(call[h])
BY DEF CallOK, At

(* A handler takes something up, goes on or ends, the tables stay: a       *)
(* message may be forgotten only if it has gone, has been announced or is  *)
(* spoiled.                                                                *)
LEMMA CallKeeps ==
    ASSUME PostInv, NEW h \in Handlers, NEW k \in Call, CallOK(k),
           call' = [call EXCEPT ![h] = k], UNCHANGED tables,
           announced \subseteq announced', announced' \subseteq DOMAIN messages,
           spoiled \subseteq spoiled', spoiled' \subseteq DOMAIN messages,
           \/ call[h].message \in {0, k.message} \cup announced' \cup spoiled'
           \/ messages[call[h].message].state = "gone"
    PROVE  PostInv'
<1> USE DEF PostInv, tables
<1>1. PostTypes'
  BY DEF PostTypes, Stored
<1>2. \A g \in Handlers : CallOK(call[g])'
  BY DEF PostTypes, CallOK, Holds
<1>3. MessagesAreLive'
  BY DEF MessagesAreLive, Live
<1>4. \A m \in DOMAIN messages : m # 0
  BY LenProperties DEF PostTypes
<1>5. StoredIsAnnounced'
  BY <1>4 DEF StoredIsAnnounced, PostTypes
<1> QED
  BY <1>1, <1>2, <1>3, <1>5

LEMMA NothingIsOK == NoCall \in Call /\ CallOK(NoCall)
BY DEF NoCall, Call, CallOK

LEMMA RequestKeeps ==
    ASSUME PostInv, NEW h \in Handlers,
           \/ \E p \in Pairs : FindConversation(h, p)
           \/ \E c \in DOMAIN conversations : Post(h, c)
    PROVE  PostInv'
<1>1. call[h].message = 0
  BY Heads DEF PostInv, FindConversation, Post
<1>2. ASSUME NEW p \in Pairs, FindConversation(h, p)
      PROVE  PostInv'
  <2> DEFINE k == [NoCall EXCEPT !.todo = <<"add">>, !.pair = p]
  <2>1. <<"add">> \in Seq({"add", "store", "touch", "emit"})
    OBVIOUS
  <2>2. k \in Call
    BY <2>1 DEF NoCall, Call
  <2>3. k.todo = <<"add">> /\ k.message = 0 /\ k.pair = p
    BY DEF NoCall
  <2>4. CallOK(k)
    <3> HIDE DEF k
    <3> QED
      BY <2>3 DEF CallOK
  <2> QED
    BY <1>1, <1>2, <2>2, <2>3, <2>4, CallKeeps DEF FindConversation, PostInv, PostTypes
<1>3. ASSUME NEW c \in DOMAIN conversations, Post(h, c)
      PROVE  PostInv'
  <2> DEFINE k == [NoCall EXCEPT !.todo = <<"store", "touch", "emit">>, !.conversation = c]
  <2>1. c \in Nat
    BY LenProperties DEF PostInv, PostTypes
  <2>2. <<"store", "touch", "emit">> \in Seq({"add", "store", "touch", "emit"})
    OBVIOUS
  <2>3. k \in Call
    BY <2>1, <2>2 DEF NoCall, Call
  <2>4. k.todo = <<"store", "touch", "emit">> /\ k.message = 0
    BY DEF NoCall
  <2>5. CallOK(k)
    <3> HIDE DEF k
    <3> QED
      BY <2>4 DEF CallOK
  <2> QED
    BY <1>1, <1>3, <2>3, <2>4, <2>5, CallKeeps DEF Post, PostInv, PostTypes
<1> QED
  BY <1>2, <1>3

(* The rows only grow in number.                                           *)
LEMMA CreateConversationKeeps ==
    ASSUME PostInv, NEW h \in Handlers, CreateConversation(h)
    PROVE  PostInv'
<1> DEFINE row == [pair |-> call[h].pair, live |-> TRUE]
<1> USE DEF PostInv
<1>1. call[h].todo = <<"add">> /\ call[h].message = 0 /\ call[h].pair \in Pairs
  BY Heads DEF CreateConversation, CallOK
<1>2. /\ conversations' = Append(conversations, row)
      /\ call' = [call EXCEPT ![h] = NoCall]
      /\ UNCHANGED <<messages, announced, spoiled>>
  BY DEF CreateConversation, End
<1>3. /\ conversations' \in Seq([pair : Pairs, live : BOOLEAN])
      /\ DOMAIN conversations \subseteq DOMAIN conversations'
      /\ \A c \in DOMAIN conversations : conversations'[c] = conversations[c]
  BY <1>1, <1>2, AppendProperties, LenProperties DEF PostTypes
<1>4. Stored \subseteq Stored'
  BY <1>3 DEF Stored
<1>5. PostTypes'
  BY <1>2, <1>3, <1>4, NothingIsOK, SeqMonotonic DEF PostTypes
<1>6. \A g \in Handlers : CallOK(call[g])'
  BY <1>2, NothingIsOK DEF PostTypes, CallOK, Holds
<1>7. MessagesAreLive'
  <2> SUFFICES ASSUME NEW m \in DOMAIN messages, messages[m].state # "gone"
               PROVE  messages[m].conversation \in Live'
    BY <1>2 DEF MessagesAreLive
  <2> QED
    BY <1>3 DEF MessagesAreLive, Live
<1>8. \A m \in DOMAIN messages : m # 0
  BY LenProperties DEF PostTypes
<1>9. StoredIsAnnounced'
  BY <1>1, <1>2, <1>8 DEF StoredIsAnnounced, PostTypes
<1> QED
  BY <1>5, <1>6, <1>7, <1>9

(* The messages of a conversation go with it.                              *)
LEMMA RemoveConversationKeeps ==
    ASSUME PostInv, NEW c \in DOMAIN conversations, RemoveConversation(c)
    PROVE  PostInv'
<1> USE DEF PostInv
<1>1. /\ conversations' = [conversations EXCEPT ![c].live = FALSE]
      /\ messages' = [m \in DOMAIN messages |->
                        IF messages[m].conversation = c
                        THEN [messages[m] EXCEPT !.state = "gone"] ELSE messages[m]]
      /\ UNCHANGED <<call, announced, spoiled>>
  BY DEF RemoveConversation, Remove, posts
<1>2. /\ conversations' \in Seq([pair : Pairs, live : BOOLEAN])
      /\ DOMAIN conversations' = DOMAIN conversations
      /\ \A d \in DOMAIN conversations : d # c => conversations'[d] = conversations[d]
  <2>1. conversations[c] \in [pair : Pairs, live : BOOLEAN]
    BY ElementOfSeq, LenProperties DEF PostTypes
  <2>2. [conversations[c] EXCEPT !.live = FALSE] \in [pair : Pairs, live : BOOLEAN]
    BY <2>1
  <2> QED
    BY <1>1, <2>2, ExceptSeq, LenProperties DEF PostTypes
<1>3. /\ DOMAIN messages' = DOMAIN messages
      /\ \A m \in DOMAIN messages :
            /\ messages[m] \in Stored
            /\ messages'[m].conversation = messages[m].conversation
            /\ messages'[m].state =
                  IF messages[m].conversation = c THEN "gone" ELSE messages[m].state
            /\ messages'[m] \in Stored
  <2>1. DOMAIN messages' = DOMAIN messages
    BY <1>1
  <2> SUFFICES ASSUME NEW m \in DOMAIN messages
               PROVE  /\ messages[m] \in Stored
                      /\ messages'[m].conversation = messages[m].conversation
                      /\ messages'[m].state =
                            IF messages[m].conversation = c THEN "gone"
                            ELSE messages[m].state
                      /\ messages'[m] \in Stored
    BY <2>1
  <2>2. messages[m] \in Stored
    BY ElementOfSeq, LenProperties DEF PostTypes
  <2>3. messages'[m] = IF messages[m].conversation = c
                       THEN [messages[m] EXCEPT !.state = "gone"] ELSE messages[m]
    BY <1>1
  <2> QED
    BY <2>2, <2>3 DEF Stored
<1>4. messages' \in Seq(Stored)
  <2>1. Len(messages) \in Nat /\ DOMAIN messages = 1..Len(messages)
    BY LenProperties DEF PostTypes
  <2>2. messages' \in [1..Len(messages) -> Stored]
    BY <1>1, <1>3, <2>1
  <2> QED
    BY <2>1, <2>2
<1>5. PostTypes'
  <2>1. Stored' = Stored
    BY <1>2 DEF Stored
  <2> QED
    BY <1>1, <1>2, <1>3, <1>4, <2>1 DEF PostTypes
<1>6. \A g \in Handlers : CallOK(call[g])'
  BY <1>1, <1>3 DEF CallOK, Holds
<1>7. MessagesAreLive'
  BY <1>2, <1>3 DEF MessagesAreLive, Live
<1>8. StoredIsAnnounced'
  BY <1>1, <1>3 DEF StoredIsAnnounced
<1> QED
  BY <1>5, <1>6, <1>7, <1>8

(* A message is stored only in a conversation there is; its handler then   *)
(* answers for it.                                                         *)
LEMMA StoreMessageKeeps ==
    ASSUME PostInv, NEW h \in Handlers, StoreMessage(h)
    PROVE  PostInv'
<1> DEFINE c == call[h].conversation
           n == Len(messages) + 1
           k == [[call[h] EXCEPT !.message = n] EXCEPT !.todo = Tail(@)]
           row == [conversation |-> c, state |-> "SENT"]
<1>1. call[h].todo = <<"store", "touch", "emit">> /\ call[h].message = 0
  BY Heads DEF StoreMessage, PostInv, CallOK
<1>2. CASE c \notin Live
  BY <1>1, <1>2, NothingIsOK, CallKeeps DEF StoreMessage, End, PostInv, PostTypes, tables
<1>3. CASE c \in Live
  <2>1. /\ messages' = Append(messages, row)
        /\ call' = [call EXCEPT ![h] = k]
        /\ UNCHANGED <<conversations, announced, spoiled>>
    BY <1>1, <1>3 DEF StoreMessage, Then
  <2>2. c \in DOMAIN conversations /\ row \in Stored
    BY <1>3 DEF Live, Stored, MessageStatus
  <2>3. /\ messages' \in Seq(Stored)
        /\ DOMAIN messages' = DOMAIN messages \cup {n}
        /\ n \in Nat \ {0} /\ n \notin DOMAIN messages
        /\ \A m \in DOMAIN messages : messages'[m] = messages[m]
        /\ messages'[n] = row
    BY <2>1, <2>2, AppendProperties, LenProperties DEF PostInv, PostTypes
  <2>4. /\ Tail(<<"store", "touch", "emit">>) = <<"touch", "emit">>
        /\ <<"touch", "emit">> \in Seq({"add", "store", "touch", "emit"})
    OBVIOUS
  <2>5. k \in Call
    BY <1>1, <2>3, <2>4 DEF PostInv, PostTypes, Call
  <2>6. k.todo = <<"touch", "emit">> /\ k.message = n /\ k.conversation = c
    BY <1>1, <2>4 DEF PostInv, PostTypes, Call
  <2> HIDE DEF k, n, row
  <2>7. PostTypes'
    <3>1. Stored' = Stored
      BY <2>1 DEF Stored
    <3> QED
      BY <2>1, <2>3, <2>5, <3>1 DEF PostInv, PostTypes
  <2>8. call'[h] = k /\ \A g \in Handlers \ {h} : call'[g] = call[g]
    BY <2>1 DEF PostInv, PostTypes
  <2>9. \A g \in Handlers : CallOK(call[g])'
    <3>1. /\ call'[h].todo = <<"touch", "emit">>
          /\ call'[h].message = n /\ call'[h].conversation = c
      BY <2>6, <2>8
    <3>2. CallOK(call[h])'
      BY <2>3, <3>1 DEF CallOK, Holds, row
    <3>3. ASSUME NEW g \in Handlers \ {h} PROVE CallOK(call[g])'
      BY <2>3, <2>8 DEF PostInv, CallOK, Holds
    <3> QED
      BY <3>2, <3>3
  <2>10. MessagesAreLive'
    BY <1>3, <2>1, <2>3 DEF PostInv, MessagesAreLive, Live, row
  <2>11. StoredIsAnnounced'
    <3>1. \A m \in DOMAIN messages : m # 0
      BY LenProperties DEF PostInv, PostTypes
    <3> QED
      BY <1>1, <2>1, <2>3, <2>6, <2>8, <3>1 DEF PostInv, StoredIsAnnounced
  <2> QED
    BY <2>7, <2>9, <2>10, <2>11 DEF PostInv
<1> QED
  BY <1>2, <1>3

LEMMA HandlerKeeps ==
    ASSUME PostInv, NEW h \in Handlers,
           TouchConversation(h) \/ EmitMessage(h) \/ Fail(h)
    PROVE  PostInv'
<1>1. CASE TouchConversation(h)
  <2>1. call[h].todo = <<"touch", "emit">> /\ Holds(call[h])
    BY <1>1, Heads DEF TouchConversation, PostInv
  <2>2. CASE call[h].conversation \in Live
    <3> DEFINE k == [call[h] EXCEPT !.todo = <<"emit">>]
    <3>1. call' = [call EXCEPT ![h] = k]
      BY <1>1, <2>1, <2>2 DEF TouchConversation, Then
    <3>2. <<"emit">> \in Seq({"add", "store", "touch", "emit"})
      OBVIOUS
    <3>3. k \in Call
      BY <3>2 DEF PostInv, PostTypes, Call
    <3>4. k.todo = <<"emit">> /\ k.message = call[h].message
          /\ k.conversation = call[h].conversation
      BY DEF PostInv, PostTypes, Call
    <3>5. CallOK(k)
      <4> HIDE DEF k
      <4> QED
        BY <2>1, <3>4 DEF CallOK, Holds
    <3> HIDE DEF k
    <3> QED
      BY <1>1, <3>1, <3>3, <3>4, <3>5, CallKeeps
      DEF TouchConversation, PostInv, PostTypes
  <2>3. CASE call[h].conversation \notin Live
    <3>1. messages[call[h].message].state = "gone"
      BY <2>1, <2>3 DEF PostInv, Holds, MessagesAreLive
    <3> QED
      BY <1>1, <2>3, <3>1, NothingIsOK, CallKeeps
      DEF TouchConversation, End, PostInv, PostTypes
  <2> QED
    BY <2>2, <2>3
<1>2. CASE EmitMessage(h)
  <2>1. call[h].message \in DOMAIN messages
    BY <1>2, Heads DEF EmitMessage, PostInv, Holds
  <2> QED
    BY <1>2, <2>1, NothingIsOK, CallKeeps DEF EmitMessage, End, PostInv, PostTypes
<1>3. CASE Fail(h)
  <2>1. call[h].message \in DOMAIN messages \cup {0}
    BY DEF PostInv, CallOK, Holds
  <2> QED
    BY <1>3, <2>1, NothingIsOK, CallKeeps DEF Fail, End, PostInv, PostTypes
<1> QED
  BY <1>1, <1>2, <1>3

LEMMA StatusKeeps ==
    ASSUME PostInv, NEW m \in DOMAIN messages, NEW status \in MessageStatus,
           UpdateMessageStatus(m, status)
    PROVE  PostInv'
<1> USE DEF PostInv
<1>1. /\ messages' = [messages EXCEPT ![m].state = status]
      /\ messages[m].state # "gone"
      /\ UNCHANGED <<conversations, call, announced, spoiled>>
  BY DEF UpdateMessageStatus, posts
<1>2. messages[m] \in Stored /\ m \in 1..Len(messages)
  BY ElementOfSeq, LenProperties DEF PostTypes
<1>3. [messages[m] EXCEPT !.state = status] \in Stored
  BY <1>2 DEF Stored
<1>4. /\ messages' \in Seq(Stored) /\ DOMAIN messages' = DOMAIN messages
      /\ \A i \in DOMAIN messages : i # m => messages'[i] = messages[i]
      /\ messages'[m].conversation = messages[m].conversation
  <2>1. messages' = [messages EXCEPT ![m] = [messages[m] EXCEPT !.state = status]]
    BY <1>1
  <2>2. /\ messages' \in Seq(Stored) /\ Len(messages') = Len(messages)
        /\ \A i \in 1..Len(messages) : i # m => messages'[i] = messages[i]
        /\ messages'[m] = [messages[m] EXCEPT !.state = status]
    BY <2>1, <1>2, <1>3, ExceptSeq DEF PostTypes
  <2>3. messages'[m].conversation = messages[m].conversation
    BY <2>2, <1>2 DEF Stored
  <2> QED
    BY <2>2, <2>3, LenProperties DEF PostTypes
<1>5. PostTypes'
  <2>1. Stored' = Stored
    BY <1>1 DEF Stored
  <2> QED
    BY <1>1, <1>4, <2>1 DEF PostTypes
<1>6. \A g \in Handlers : CallOK(call[g])'
  BY <1>1, <1>4 DEF CallOK, Holds
<1>7. MessagesAreLive'
  BY <1>1, <1>4 DEF MessagesAreLive, Live
<1>8. StoredIsAnnounced'
  BY <1>1, <1>4 DEF StoredIsAnnounced
<1> QED
  BY <1>5, <1>6, <1>7, <1>8

LEMMA CrashKeepsPosts ==
    ASSUME PostInv, Crash
    PROVE  PostInv'
<1> USE DEF PostInv
<1>1. /\ call' = [h \in Handlers |-> NoCall]
      /\ spoiled' = spoiled \cup ({call[h].message : h \in Handlers} \ {0})
      /\ UNCHANGED <<conversations, messages, announced>>
  BY DEF Crash, tables
<1>2. \A h \in Handlers : call[h].message \in DOMAIN messages \cup {0}
  BY DEF CallOK, Holds
<1>3. PostTypes'
  BY <1>1, <1>2, NothingIsOK DEF PostTypes, Stored
<1>4. \A g \in Handlers : CallOK(call[g])'
  BY <1>1 DEF NoCall, CallOK
<1>5. MessagesAreLive'
  BY <1>1 DEF MessagesAreLive, Live
<1>6. StoredIsAnnounced'
  <2>1. \A m \in DOMAIN messages : m # 0
    BY LenProperties DEF PostTypes
  <2> QED
    BY <1>1, <2>1 DEF StoredIsAnnounced
<1> QED
  BY <1>3, <1>4, <1>5, <1>6

LEMMA PostNext ==
    ASSUME PostInv, [Next]_vars
    PROVE  PostInv'
<1>1. CASE ConversationRequests \/ MessageRequests
  BY <1>1, RequestKeeps, RemoveConversationKeeps
  DEF ConversationRequests, MessageRequests
<1>2. ASSUME NEW h \in Handlers,
             \/ CreateConversation(h) \/ StoreMessage(h) \/ TouchConversation(h)
             \/ EmitMessage(h) \/ Fail(h)
      PROVE  PostInv'
  BY <1>2, CreateConversationKeeps, StoreMessageKeeps, HandlerKeeps
<1>3. ASSUME NEW m \in DOMAIN messages, NEW status \in MessageStatus,
             UpdateMessageStatus(m, status)
      PROVE  PostInv'
  BY <1>3, StatusKeeps
<1>4. CASE Crash
  BY <1>4, CrashKeepsPosts
<1>5. CASE UNCHANGED <<tables, posts>>
  BY <1>5 DEF PostInv, PostTypes, Stored, CallOK, Holds, MessagesAreLive, Live,
     StoredIsAnnounced, tables, posts
<1>6. ASSUME NEW s \in Sockets,
             \/ HandleDisconnect(s)
             \/ \E u \in Users : HandleConnection(s, u) \/ HandleJoin(s, u)
             \/ \E room \in Sockets \ {s} : HandleRoomJoin(s, room)
      PROVE  PostInv'
  BY <1>5, <1>6 DEF HandleDisconnect, HandleConnection, HandleJoin, HandleRoomJoin
<1>7. CASE (\E u \in Users : ListenForMessages(u))
           \/ \E r \in Recordings : HandleRecordingChunk(r) \/ HandleRecordingEnd(r)
  BY <1>5, <1>7 DEF ListenForMessages, HandleRecordingChunk, HandleRecordingEnd
<1>8. CASE (\E w \in writes : UpdateUserStatus(w) \/ ConnectionFails(w))
           \/ \E f \in flushing : StreamWrites(f)
  BY <1>5, <1>8 DEF UpdateUserStatus, ConnectionFails, StreamWrites
<1>9. CASE UNCHANGED vars
  BY <1>5, <1>9 DEF vars
<1> QED
  BY <1>1, <1>2, <1>3, <1>4, <1>6, <1>7, <1>8, <1>9 DEF Next, SocketEvents

---------------------------------------------------------------------------
(* Recordings and the bounds *)

RecordingTypes ==
    /\ chunks \in [Recordings -> Seq(Nat)] /\ file \in [Recordings -> Seq(Nat)]
    /\ flushing \subseteq Recordings \X Seq(Nat)
    /\ received \in [Recordings -> Nat] /\ wiped \in [Recordings -> SUBSET Nat]
    /\ events \in 0..MaxEvents /\ failures \in 0..MaxFailures

LEMMA RecordingInit == Init => RecordingTypes
BY BoundsAreNumbers DEF Init, RecordingTypes

LEMMA RecordingNext ==
    ASSUME RecordingTypes, [Next]_vars
    PROVE  RecordingTypes'
<1> USE BoundsAreNumbers DEF RecordingTypes
<1>1. ASSUME NEW r \in Recordings, HandleRecordingChunk(r)
      PROVE  RecordingTypes'
  <2>1. Append(chunks[r], received[r] + 1) \in Seq(Nat)
    BY AppendProperties
  <2> QED
    BY <1>1, <2>1 DEF HandleRecordingChunk, Event
<1>2. ASSUME NEW r \in Recordings, HandleRecordingEnd(r)
      PROVE  RecordingTypes'
  <2>1. <<>> \in Seq(Nat)
    OBVIOUS
  <2> QED
    BY <1>2, <2>1 DEF HandleRecordingEnd, Event
<1>3. ASSUME NEW f \in flushing, StreamWrites(f)
      PROVE  RecordingTypes'
  <2>1. file[f[1]] \o f[2] \in Seq(Nat)
    BY ConcatProperties
  <2> QED
    BY <1>3, <2>1 DEF StreamWrites
<1>4. CASE Crash
  <2>1. <<>> \in Seq(Nat)
    OBVIOUS
  <2>2. \A r \in Recordings :
           wiped[r] \cup {n \in 1..received[r] :
                              \A i \in DOMAIN file[r] : file[r][i] # n} \in SUBSET Nat
    OBVIOUS
  <2>3. wiped' \in [Recordings -> SUBSET Nat]
    BY <1>4, <2>2, Zenon DEF Crash
  <2>4. /\ chunks' \in [Recordings -> Seq(Nat)] /\ file' = file
        /\ flushing' = {} /\ received' = received
    BY <1>4, <2>1 DEF Crash
  <2>5. events' \in 0..MaxEvents /\ failures' \in 0..MaxFailures
    BY <1>4 DEF Crash
  <2> QED
    BY <2>3, <2>4, <2>5
<1>5. ASSUME UNCHANGED recording, events' \in 0..MaxEvents, failures' \in 0..MaxFailures
      PROVE  RecordingTypes'
  BY <1>5 DEF recording
<1>6. ASSUME NEW s \in Sockets,
             \/ HandleDisconnect(s)
             \/ \E u \in Users : HandleConnection(s, u) \/ HandleJoin(s, u)
             \/ \E room \in Sockets \ {s} : HandleRoomJoin(s, room)
      PROVE  RecordingTypes'
  BY <1>5, <1>6 DEF HandleDisconnect, HandleConnection, HandleJoin, HandleRoomJoin,
                     Event
<1>7. CASE (\E u \in Users : ListenForMessages(u))
           \/ \E m \in DOMAIN messages, status \in MessageStatus :
                  UpdateMessageStatus(m, status)
  BY <1>5, <1>7 DEF ListenForMessages, UpdateMessageStatus, Event
<1>8. CASE ConversationRequests \/ MessageRequests
  <2>1. UNCHANGED recording /\ failures' = failures /\ Event
    BY <1>8, Zenon DEF ConversationRequests, MessageRequests, FindConversation,
       RemoveConversation, Post
  <2> QED
    BY <1>5, <2>1 DEF Event
<1>9. ASSUME NEW h \in Handlers,
             \/ CreateConversation(h) \/ StoreMessage(h) \/ TouchConversation(h)
             \/ EmitMessage(h) \/ Fail(h)
      PROVE  RecordingTypes'
  BY <1>5, <1>9 DEF CreateConversation, StoreMessage, TouchConversation, EmitMessage, Fail
<1>10. ASSUME NEW w \in writes, UpdateUserStatus(w) \/ ConnectionFails(w)
       PROVE  RecordingTypes'
  BY <1>5, <1>10 DEF UpdateUserStatus, ConnectionFails
<1>11. CASE UNCHANGED vars
  BY <1>5, <1>11 DEF vars
<1> QED
  BY <1>1, <1>2, <1>3, <1>4, <1>6, <1>7, <1>8, <1>9, <1>10, <1>11
  DEF Next, SocketEvents

---------------------------------------------------------------------------
(* Where a recording's chunks are                                          *)

Has(s, n) == \E i \in 1..Len(s) : s[i] = n

Once(s) == \A i, j \in 1..Len(s) : s[i] = s[j] => i = j

Streaming(streams, n) == \E s \in streams : Has(s, n)

(* The chunks 1..count are spread over the buffer, the streams still being *)
(* written, the file and what is lost, and no chunk is in two of them.     *)
Placed(buffer, streams, stored, lost, count) ==
    /\ Once(buffer) /\ Once(stored) /\ \A s \in streams : Once(s)
    /\ \A s, t \in streams : (\E n \in Nat : Has(s, n) /\ Has(t, n)) => s = t
    /\ \A n \in Nat :
          /\ n \in 1..count <=>
                \/ Has(buffer, n) \/ Streaming(streams, n)
                \/ Has(stored, n) \/ n \in lost
          /\ Has(buffer, n) =>
                ~Streaming(streams, n) /\ ~Has(stored, n) /\ n \notin lost
          /\ Streaming(streams, n) => ~Has(stored, n) /\ n \notin lost
          /\ Has(stored, n) => n \notin lost

Streams(r) == {f[2] : f \in {g \in flushing : g[1] = r}}

ChunkInv ==
    /\ RecordingTypes
    /\ \A r \in Recordings :
          Placed(chunks[r], Streams(r), file[r], wiped[r], received[r])

LEMMA NothingHas ==
    /\ \A n : ~Has(<<>>, n)
    /\ Once(<<>>)
BY DEF Has, Once

LEMMA AppendHas ==
    ASSUME NEW s \in Seq(Nat), NEW x \in Nat
    PROVE  /\ \A n : Has(Append(s, x), n) <=> Has(s, n) \/ n = x
           /\ Once(s) /\ ~Has(s, x) => Once(Append(s, x))
<1>1. PICK t : t = Append(s, x)
  OBVIOUS
<1>2. /\ Len(s) \in Nat /\ Len(t) = Len(s) + 1 /\ t[Len(s) + 1] = x
      /\ \A i \in 1..Len(s) : t[i] = s[i]
  BY <1>1, AppendProperties, LenProperties
<1>3. ASSUME NEW n PROVE Has(t, n) <=> Has(s, n) \/ n = x
  BY <1>2 DEF Has
<1>4. Once(s) /\ ~Has(s, x) => Once(t)
  BY <1>2 DEF Has, Once
<1> QED
  BY <1>1, <1>3, <1>4

LEMMA ConcatHas ==
    ASSUME NEW s \in Seq(Nat), NEW t \in Seq(Nat)
    PROVE  /\ \A n : Has(s \o t, n) <=> Has(s, n) \/ Has(t, n)
           /\ Once(s) /\ Once(t) /\ (\A n \in Nat : ~(Has(s, n) /\ Has(t, n)))
                  => Once(s \o t)
<1>1. PICK c : c = s \o t
  OBVIOUS
<1>2. /\ Len(s) \in Nat /\ Len(t) \in Nat /\ Len(c) = Len(s) + Len(t)
      /\ \A i \in 1..Len(s) + Len(t) :
            c[i] = IF i <= Len(s) THEN s[i] ELSE t[i - Len(s)]
  BY <1>1, ConcatProperties, LenProperties
<1>3. /\ \A i \in 1..Len(s) : c[i] = s[i] /\ i \in 1..Len(c)
      /\ \A i \in 1..Len(t) : c[Len(s) + i] = t[i] /\ Len(s) + i \in 1..Len(c)
      /\ \A i \in 1..Len(c) : \/ i \in 1..Len(s)
                              \/ i - Len(s) \in 1..Len(t) /\ c[i] = t[i - Len(s)]
  <2>1. PICK k, m : k = Len(s) /\ m = Len(t)
    OBVIOUS
  <2>2. ASSUME NEW i \in 1..m PROVE c[k + i] = t[i] /\ k + i \in 1..(k + m)
    <3>1. k + i \in 1..(k + m) /\ ~(k + i <= k) /\ (k + i) - k = i
      BY <1>2, <2>1
    <3> QED
      BY <1>2, <2>1, <3>1
  <2>3. ASSUME NEW i \in 1..k PROVE c[i] = s[i] /\ i \in 1..(k + m)
    BY <1>2, <2>1
  <2>4. ASSUME NEW i \in 1..(k + m), i \notin 1..k
        PROVE  i - k \in 1..m /\ c[i] = t[i - k]
    BY <1>2, <2>1, <2>4
  <2> QED
    BY <1>2, <2>1, <2>2, <2>3, <2>4
<1>4. ASSUME NEW n PROVE Has(c, n) <=> Has(s, n) \/ Has(t, n)
  <2>1. Has(s, n) \/ Has(t, n) => Has(c, n)
    BY <1>3 DEF Has
  <2>2. ASSUME NEW i \in 1..Len(c), c[i] = n PROVE Has(s, n) \/ Has(t, n)
    <3>1. CASE i \in 1..Len(s)
      BY <1>3, <2>2, <3>1 DEF Has
    <3>2. CASE i - Len(s) \in 1..Len(t)
      <4>1. t[i - Len(s)] = c[i]
        BY <1>2, <1>3, <3>2
      <4> QED
        BY <2>2, <3>2, <4>1 DEF Has
    <3> QED
      BY <1>3, <3>1, <3>2
  <2> QED
    BY <2>1, <2>2 DEF Has
<1>5. ASSUME Once(s), Once(t), \A n \in Nat : ~(Has(s, n) /\ Has(t, n)),
             NEW i \in 1..Len(c), NEW j \in 1..Len(c), c[i] = c[j]
      PROVE  i = j
  <2>1. ASSUME NEW k \in 1..Len(s), NEW m \in 1..Len(t) PROVE s[k] # t[m]
    <3>1. s[k] \in Nat
      BY ElementOfSeq
    <3> QED
      BY <1>5, <3>1 DEF Has
  <2>2. CASE i \in 1..Len(s) /\ j \in 1..Len(s)
    BY <1>3, <1>5, <2>2 DEF Once
  <2>3. CASE i - Len(s) \in 1..Len(t) /\ j - Len(s) \in 1..Len(t)
    <3>1. t[i - Len(s)] = c[i] /\ t[j - Len(s)] = c[j]
      BY <1>2, <2>3
    <3>2. i - Len(s) = j - Len(s)
      BY <1>5, <2>3, <3>1 DEF Once
    <3> QED
      BY <1>2, <3>2
  <2>4. CASE i \in 1..Len(s) /\ j - Len(s) \in 1..Len(t)
    <3>1. c[i] = s[i] /\ j \notin 1..Len(s) /\ c[j] = t[j - Len(s)]
      BY <1>2, <1>3, <2>4
    <3> QED
      BY <1>5, <2>1, <2>4, <3>1
  <2>5. CASE i - Len(s) \in 1..Len(t) /\ j \in 1..Len(s)
    <3>1. c[j] = s[j] /\ i \notin 1..Len(s) /\ c[i] = t[i - Len(s)]
      BY <1>2, <1>3, <2>5
    <3> QED
      BY <1>5, <2>1, <2>5, <3>1
  <2> QED
    BY <1>3, <2>2, <2>3, <2>4, <2>5
<1>6. Once(s) /\ Once(t) /\ (\A n \in Nat : ~(Has(s, n) /\ Has(t, n))) => Once(c)
  BY <1>5 DEF Once
<1> QED
  BY <1>1, <1>4, <1>6

(* A chunk that comes is the next one.                                     *)
LEMMA ChunkIsPlaced ==
    ASSUME NEW b \in Seq(Nat), NEW S \in SUBSET Seq(Nat), NEW f \in Seq(Nat),
           NEW lost, NEW k \in Nat, Placed(b, S, f, lost, k)
    PROVE  Placed(Append(b, k + 1), S, f, lost, k + 1)
<1>1. PICK c : c = Append(b, k + 1)
  OBVIOUS
<1>2. k + 1 \in Nat /\ k + 1 \notin 1..k
  OBVIOUS
<1>3. /\ ~Has(b, k + 1) /\ ~Streaming(S, k + 1) /\ ~Has(f, k + 1)
      /\ k + 1 \notin lost
  BY <1>2 DEF Placed
<1>4. Once(c) /\ \A n : Has(c, n) <=> Has(b, n) \/ n = k + 1
  BY <1>1, <1>2, <1>3, AppendHas DEF Placed
<1>5. \A n \in Nat : n \in 1..(k + 1) <=> n \in 1..k \/ n = k + 1
  OBVIOUS
<1>6. Placed(c, S, f, lost, k + 1)
  BY <1>3, <1>4, <1>5, Zenon DEF Placed
<1> QED
  BY <1>1, <1>6

(* The buffer is handed to a stream of its own.                            *)
LEMMA BufferIsPlaced ==
    ASSUME NEW b \in Seq(Nat), NEW S \in SUBSET Seq(Nat), NEW f \in Seq(Nat),
           NEW lost, NEW k \in Nat, Placed(b, S, f, lost, k)
    PROVE  Placed(<<>>, S \cup {b}, f, lost, k)
<1>1. PICK T, e : T = S \cup {b} /\ e = <<>>
  OBVIOUS
<1>2. /\ Once(e) /\ \A n : ~Has(e, n)
      /\ \A n : Streaming(T, n) <=> Streaming(S, n) \/ Has(b, n)
  BY <1>1, NothingHas DEF Streaming
<1>3. \A s \in T : Once(s)
  BY <1>1 DEF Placed
<1>4. ASSUME NEW s \in T, NEW t \in T, NEW n \in Nat, Has(s, n), Has(t, n)
      PROVE  s = t
  BY <1>1, <1>4 DEF Placed, Streaming
<1>5. \A s, t \in T : (\E n \in Nat : Has(s, n) /\ Has(t, n)) => s = t
  BY <1>4
<1>6. Placed(e, T, f, lost, k)
  BY <1>2, <1>3, <1>5, Zenon DEF Placed
<1> QED
  BY <1>1, <1>6

(* A stream has been appended to the file.                                 *)
LEMMA StreamIsPlaced ==
    ASSUME NEW b \in Seq(Nat), NEW S \in SUBSET Seq(Nat), NEW f \in Seq(Nat),
           NEW lost, NEW k \in Nat, Placed(b, S, f, lost, k), NEW s \in S
    PROVE  Placed(b, S \ {s}, f \o s, lost, k)
<1>1. PICK T, g : T = S \ {s} /\ g = f \o s
  OBVIOUS
<1>2. s \in Seq(Nat) /\ \A n : Has(s, n) => Streaming(S, n)
  BY DEF Streaming
<1>3. \A n : Has(g, n) <=> Has(f, n) \/ Has(s, n)
  BY <1>1, <1>2, ConcatHas
<1>4. Once(g)
  BY <1>1, <1>2, ConcatHas DEF Placed
<1>5. \A n \in Nat : /\ Streaming(S, n) <=> Streaming(T, n) \/ Has(s, n)
                     /\ ~(Streaming(T, n) /\ Has(s, n))
  BY <1>1 DEF Placed, Streaming
<1>6. /\ \A t \in T : Once(t)
      /\ \A t, u \in T : (\E n \in Nat : Has(t, n) /\ Has(u, n)) => t = u
  BY <1>1 DEF Placed
<1>7. Placed(b, T, g, lost, k)
  BY <1>3, <1>4, <1>5, <1>6, Zenon DEF Placed
<1> QED
  BY <1>1, <1>7

(* What was not in the file when the process stopped is lost.              *)
LEMMA LossIsPlaced ==
    ASSUME NEW b \in Seq(Nat), NEW S \in SUBSET Seq(Nat), NEW f \in Seq(Nat),
           NEW lost, NEW k \in Nat, Placed(b, S, f, lost, k)
    PROVE  Placed(<<>>, {}, f, lost \cup {n \in 1..k : ~Has(f, n)}, k)
<1>1. PICK e, T, more : /\ e = <<>> /\ T = {}
                        /\ more = lost \cup {n \in 1..k : ~Has(f, n)}
  OBVIOUS
<1>2. /\ Once(e) /\ \A n : ~Has(e, n) /\ ~Streaming(T, n)
      /\ \A n \in Nat : n \in more <=> n \in lost \/ (n \in 1..k /\ ~Has(f, n))
  BY <1>1, NothingHas DEF Streaming
<1>3. Placed(e, T, f, more, k)
  BY <1>1, <1>2, Zenon DEF Placed
<1> QED
  BY <1>1, <1>3

LEMMA ChunkInit == Init => ChunkInv
<1> SUFFICES ASSUME Init, NEW r \in Recordings
             PROVE  Placed(chunks[r], Streams(r), file[r], wiped[r], received[r])
  BY RecordingInit DEF ChunkInv
<1>1. PICK e, S, lost, k : e = <<>> /\ S = {} /\ lost = {} /\ k = 0
  OBVIOUS
<1>2. Once(e) /\ (\A n : ~Has(e, n) /\ ~Streaming(S, n)) /\ \A n : n \notin 1..k
  BY <1>1, NothingHas DEF Streaming
<1>3. Placed(e, S, e, lost, k)
  BY <1>1, <1>2, Zenon DEF Placed
<1>4. /\ chunks[r] = e /\ Streams(r) = S /\ file[r] = e /\ wiped[r] = lost
      /\ received[r] = k
  BY <1>1 DEF Init, Streams
<1> QED
  BY <1>3, <1>4

(* Whatever else happens leaves the recordings alone.                      *)
LEMMA OthersKeepRecordings ==
    ASSUME [Next]_vars,
           \A r \in Recordings : ~HandleRecordingChunk(r) /\ ~HandleRecordingEnd(r),
           \A f \in flushing : ~StreamWrites(f),
           ~Crash
    PROVE  UNCHANGED recording
<1>1. CASE UNCHANGED vars
  BY <1>1 DEF vars
<1>2. CASE SocketEvents
  BY <1>2, Zenon DEF SocketEvents, HandleDisconnect, HandleConnection, HandleJoin,
     HandleRoomJoin, ListenForMessages, UpdateMessageStatus
<1>3. CASE ConversationRequests \/ MessageRequests
  BY <1>3, Zenon DEF ConversationRequests, MessageRequests, FindConversation,
     RemoveConversation, Post
<1>4. ASSUME NEW h \in Handlers,
             \/ CreateConversation(h) \/ StoreMessage(h) \/ TouchConversation(h)
             \/ EmitMessage(h) \/ Fail(h)
      PROVE  UNCHANGED recording
  BY <1>4 DEF CreateConversation, StoreMessage, TouchConversation, EmitMessage, Fail
<1>5. ASSUME NEW w \in writes, UpdateUserStatus(w) \/ ConnectionFails(w)
      PROVE  UNCHANGED recording
  BY <1>5 DEF UpdateUserStatus, ConnectionFails
<1> QED
  BY <1>1, <1>2, <1>3, <1>4, <1>5 DEF Next

LEMMA ChunkNext ==
    ASSUME ChunkInv, [Next]_vars
    PROVE  ChunkInv'
<1>1. RecordingTypes /\ RecordingTypes'
  BY RecordingNext DEF ChunkInv
<1> SUFFICES ASSUME NEW q \in Recordings
             PROVE  Placed(chunks[q], Streams(q), file[q], wiped[q], received[q])'
  BY <1>1 DEF ChunkInv
<1>2. PICK b, S, f, lost, k :
         /\ b = chunks[q] /\ S = Streams(q) /\ f = file[q]
         /\ lost = wiped[q] /\ k = received[q]
  OBVIOUS
<1>3. /\ b \in Seq(Nat) /\ S \in SUBSET Seq(Nat) /\ f \in Seq(Nat) /\ k \in Nat
      /\ Placed(b, S, f, lost, k)
  BY <1>1, <1>2 DEF ChunkInv, RecordingTypes, Streams
<1>4. ASSUME NEW b2, NEW S2, NEW f2, NEW lost2, NEW k2,
             Placed(b2, S2, f2, lost2, k2),
             chunks'[q] = b2, Streams(q)' = S2, file'[q] = f2,
             wiped'[q] = lost2, received'[q] = k2
      PROVE  Placed(chunks[q], Streams(q), file[q], wiped[q], received[q])'
  BY <1>4 DEF Placed
<1>5. (flushing' = flushing) => Streams(q)' = S
  BY <1>2 DEF Streams
<1>6. ASSUME NEW r \in Recordings, HandleRecordingChunk(r)
      PROVE  Placed(chunks[q], Streams(q), file[q], wiped[q], received[q])'
  <2>1. Streams(q)' = S /\ file'[q] = f /\ wiped'[q] = lost
    BY <1>2, <1>5, <1>6 DEF HandleRecordingChunk
  <2>2. CASE r = q
    <3>1. chunks'[q] = Append(b, k + 1) /\ received'[q] = k + 1
      BY <1>1, <1>2, <1>6, <2>2 DEF HandleRecordingChunk, RecordingTypes
    <3> QED
      BY <1>3, <1>4, <2>1, <3>1, ChunkIsPlaced
  <2>3. CASE r # q
    <3>1. chunks'[q] = b /\ received'[q] = k
      BY <1>1, <1>2, <1>6, <2>3 DEF HandleRecordingChunk, RecordingTypes
    <3> QED
      BY <1>3, <1>4, <2>1, <3>1
  <2> QED
    BY <2>2, <2>3
<1>7. ASSUME NEW r \in Recordings, HandleRecordingEnd(r)
      PROVE  Placed(chunks[q], Streams(q), file[q], wiped[q], received[q])'
  <2>1. file'[q] = f /\ wiped'[q] = lost /\ received'[q] = k
    BY <1>2, <1>7 DEF HandleRecordingEnd
  <2>2. CASE r = q
    <3>1. chunks'[q] = <<>> /\ flushing' = flushing \cup {<<q, b>>}
      BY <1>1, <1>2, <1>7, <2>2 DEF HandleRecordingEnd, RecordingTypes
    <3>2. Streams(q)' = S \cup {b}
      <4>1. PICK x : x = <<q, b>>
        OBVIOUS
      <4>2. x[1] = q /\ x[2] = b /\ flushing' = flushing \cup {x}
        BY <3>1, <4>1
      <4> QED
        BY <1>2, <4>1, <4>2 DEF Streams
    <3> QED
      BY <1>3, <1>4, <2>1, <3>1, <3>2, BufferIsPlaced
  <2>3. CASE r # q
    <3>1. chunks'[q] = b /\ flushing' = flushing \cup {<<r, chunks[r]>>}
      BY <1>1, <1>2, <1>7, <2>3 DEF HandleRecordingEnd, RecordingTypes
    <3>2. Streams(q)' = S
      BY <1>2, <2>3, <3>1 DEF Streams
    <3> QED
      BY <1>3, <1>4, <2>1, <3>1, <3>2
  <2> QED
    BY <2>2, <2>3
<1>8. ASSUME NEW g \in flushing, StreamWrites(g)
      PROVE  Placed(chunks[q], Streams(q), file[q], wiped[q], received[q])'
  <2>1. /\ chunks'[q] = b /\ wiped'[q] = lost /\ received'[q] = k
        /\ flushing' = flushing \ {g} /\ flushing \subseteq Recordings \X Seq(Nat)
    BY <1>1, <1>2, <1>8 DEF StreamWrites, RecordingTypes
  <2>2. PICK r \in Recordings, s \in Seq(Nat) : g = <<r, s>>
    BY <2>1
  <2>3. CASE r = q
    <3>1. file'[q] = f \o s
      BY <1>1, <1>2, <1>8, <2>2, <2>3 DEF StreamWrites, RecordingTypes
    <3>2. s \in S
      BY <1>2, <2>2, <2>3 DEF Streams
    <3>3. Streams(q)' = S \ {s}
      BY <1>2, <2>1, <2>2, <2>3 DEF Streams
    <3> QED
      BY <1>3, <1>4, <2>1, <3>1, <3>2, <3>3, StreamIsPlaced
  <2>4. CASE r # q
    <3>1. file'[q] = f
      BY <1>1, <1>2, <1>8, <2>2, <2>4 DEF StreamWrites, RecordingTypes
    <3>2. Streams(q)' = S
      BY <1>2, <2>1, <2>2, <2>4 DEF Streams
    <3> QED
      BY <1>3, <1>4, <2>1, <3>1, <3>2
  <2> QED
    BY <2>3, <2>4
<1>9. CASE Crash
  <2>1. /\ chunks'[q] = <<>> /\ Streams(q)' = {} /\ file'[q] = f
        /\ received'[q] = k
    BY <1>2, <1>9 DEF Crash, Streams
  <2>2. wiped'[q] = lost \cup {n \in 1..k : \A i \in DOMAIN f : f[i] # n}
    BY <1>2, <1>9 DEF Crash
  <2>3. DOMAIN f = 1..Len(f)
    BY <1>3, LenProperties
  <2>4. wiped'[q] = lost \cup {n \in 1..k : ~Has(f, n)}
    BY <2>2, <2>3 DEF Has
  <2> QED
    BY <1>3, <1>4, <2>1, <2>4, LossIsPlaced
<1>10. CASE UNCHANGED recording
  <2>1. /\ chunks'[q] = b /\ file'[q] = f /\ wiped'[q] = lost
        /\ received'[q] = k /\ flushing' = flushing
    BY <1>2, <1>10 DEF recording
  <2> QED
    BY <1>3, <1>4, <1>5, <2>1
<1> QED
  BY <1>6, <1>7, <1>8, <1>9, <1>10, OthersKeepRecordings

(* One place is one element of Places.                                     *)
LEMMA PlacedOnce ==
    ASSUME ChunkInv, NEW r \in Recordings, NEW n \in 1..received[r]
    PROVE  \E p : Places(r, n) = {p}
<1>1. /\ RecordingTypes /\ n \in Nat
      /\ DOMAIN chunks[r] = 1..Len(chunks[r]) /\ DOMAIN file[r] = 1..Len(file[r])
      /\ Placed(chunks[r], Streams(r), file[r], wiped[r], received[r])
  BY LenProperties DEF ChunkInv, RecordingTypes
<1>2. PICK B, F, S, L :
         /\ B = {i \in DOMAIN chunks[r] : chunks[r][i] = n}
         /\ F = {i \in DOMAIN file[r] : file[r][i] = n}
         /\ S = {f \in flushing : f[1] = r /\ n \in {f[2][i] : i \in DOMAIN f[2]}}
         /\ L = wiped[r] \cap {n}
  OBVIOUS
<1>3. Places(r, n) = {<<"buffer", i>> : i \in B} \cup {<<"file", i>> : i \in F}
                        \cup {<<"stream", f>> : f \in S} \cup {<<"lost", n>> : k \in L}
  BY <1>2 DEF Places
<1>4. /\ Has(chunks[r], n) <=> B # {}
      /\ \A i, j \in B : i = j
  BY <1>1, <1>2 DEF Has, Placed, Once
<1>5. /\ Has(file[r], n) <=> F # {}
      /\ \A i, j \in F : i = j
  BY <1>1, <1>2 DEF Has, Placed, Once
<1>6. \A f \in flushing : /\ f[2] \in Seq(Nat) /\ f = <<f[1], f[2]>>
                          /\ DOMAIN f[2] = 1..Len(f[2])
  BY <1>1, LenProperties DEF RecordingTypes
<1>7. \A f \in flushing : f \in S <=> f[1] = r /\ Has(f[2], n)
  BY <1>2, <1>6 DEF Has
<1>8. /\ Streaming(Streams(r), n) <=> S # {}
      /\ \A f, g \in S : f = g
  <2>1. Streaming(Streams(r), n) <=> S # {}
    BY <1>2, <1>7 DEF Streaming, Streams
  <2>2. ASSUME NEW f \in S, NEW g \in S PROVE f = g
    <3>1. f[2] \in Streams(r) /\ g[2] \in Streams(r) /\ f[1] = r /\ g[1] = r
      BY <1>2, <2>2 DEF Streams
    <3>2. f[2] = g[2]
      BY <1>1, <1>2, <1>7, <2>2, <3>1 DEF Placed
    <3> QED
      BY <1>2, <1>6, <2>2, <3>1, <3>2
  <2> QED
    BY <2>1, <2>2
<1>9. n \in wiped[r] <=> L # {}
  BY <1>2
<1>10. /\ B # {} \/ F # {} \/ S # {} \/ L # {}
       /\ B # {} => F = {} /\ S = {} /\ L = {}
       /\ S # {} => F = {} /\ L = {}
       /\ F # {} => L = {}
  BY <1>1, <1>4, <1>5, <1>8, <1>9 DEF Placed
<1>11. CASE B # {}
  <2>1. PICK i \in B : B = {i}
    BY <1>4, <1>11
  <2>2. Places(r, n) = {<<"buffer", i>>}
    BY <1>3, <1>10, <1>11, <2>1
  <2> QED
    BY <2>2
<1>12. CASE F # {}
  <2>1. PICK i \in F : F = {i}
    BY <1>5, <1>12
  <2>2. Places(r, n) = {<<"file", i>>}
    BY <1>3, <1>10, <1>12, <2>1
  <2> QED
    BY <2>2
<1>13. CASE S # {}
  <2>1. PICK f \in S : S = {f}
    BY <1>8, <1>13
  <2>2. Places(r, n) = {<<"stream", f>>}
    BY <1>3, <1>10, <1>13, <2>1
  <2> QED
    BY <2>2
<1>14. CASE L # {}
  <2>1. Places(r, n) = {<<"lost", n>>}
    BY <1>2, <1>3, <1>10, <1>14
  <2> QED
    BY <2>1
<1> QED
  BY <1>10, <1>11, <1>12, <1>13, <1>14

---------------------------------------------------------------------------
(* The theorems *)

(* What connects, disconnects and writes of the availability keep true.    *)
THEOREM SocketInvariant == Spec => []SocketInv
BY SocketInit, SocketNext, PTL DEF Spec

(* What a post on its way from the row to the room relies on.              *)
THEOREM PostInvariant == Spec => []PostInv
BY PostInit, PostNext, PTL DEF Spec

(* Every variable keeps its type.                                          *)
THEOREM TypeCorrect == Spec => []TypeOK
<1>1. Spec => []RecordingTypes
  BY RecordingInit, RecordingNext, PTL DEF Spec
<1>2. SocketInv /\ PostInv /\ RecordingTypes => TypeOK
  BY DEF SocketInv, SocketTypes, PostInv, PostTypes, Stored, RecordingTypes, TypeOK
<1> QED
  BY <1>1, <1>2, SocketInvariant, PostInvariant, PTL

(* What MessageGateway's registry says is the socket a user connected      *)
(* last, however connections, disconnections, failures and crashes         *)
(* interleave; what was sent to a user went to sockets of his or to those  *)
(* that had joined the room of one, and to nobody else.                    *)
THEOREM RegistryIsRight == Spec => []RegistryIsTheLatestSocket
<1>1. SocketInv => RegistryIsTheLatestSocket
  BY DEF SocketInv
<1> QED
  BY <1>1, SocketInvariant, PTL

(* Without overlapping writes users.availability follows the registry.     *)
THEOREM PresenceIsRight == Spec => []PresenceFollowsRegistry
<1>1. SocketInv => PresenceFollowsRegistry
  <2> SUFFICES ASSUME SocketInv, NEW u \in Users \ disturbed,
                      \A w \in writes : owner[w[1]] # u
               PROVE  availability[u] = "online" <=> clients[u] # None
    BY DEF PresenceFollowsRegistry
  <2>1. WritesOf(u) = {}
    BY DEF WritesOf
  <2> QED
    BY <2>1 DEF SocketInv, PresenceOK
<1> QED
  BY <1>1, SocketInvariant, PTL

(* MessageService.create and the controller leave no message that is       *)
(* stored and never announced, unless they fail.                           *)
THEOREM StoredMessagesAreAnnounced == Spec => []StoredIsAnnounced
<1>1. PostInv => StoredIsAnnounced
  BY DEF PostInv
<1> QED
  BY <1>1, PostInvariant, PTL

(* Each chunk of a recording that came is in one place: the buffer, a      *)
(* stream that is being written, the file, or lost with the process; never *)
(* written twice, never dropped, however ends and chunks interleave.       *)
THEOREM ChunksAreKept == Spec => []RecordingsKeepEveryChunk
<1>1. Spec => []ChunkInv
  BY ChunkInit, ChunkNext, PTL DEF Spec
<1>2. ChunkInv => RecordingsKeepEveryChunk
  <2> SUFFICES ASSUME ChunkInv, NEW r \in Recordings, NEW n \in 1..received[r]
               PROVE  Cardinality(Places(r, n)) = 1
    BY DEF RecordingsKeepEveryChunk
  <2>1. PICK p : Places(r, n) = {p}
    BY PlacedOnce
  <2> QED
    BY <2>1, FS_Singleton
<1> QED
  BY <1>1, <1>2, PTL
===============================================================================
