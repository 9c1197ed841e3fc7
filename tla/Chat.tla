-------------------------------- MODULE Chat --------------------------------
(***************************************************************************)
(* Chat: sockets and presence, conversations and messages, recordings      *)
(* (MessageGateway, MessageService, ConversationService, ChatRepository).  *)
(*                                                                         *)
(* A socket handler is atomic up to its first await: the registry changes  *)
(* at once, the availability of the user is written later, and two writes  *)
(* under way are done in any order.  A posted message or conversation is   *)
(* the list of the calls still to make.  Socket ids are never used twice.  *)
(***************************************************************************)
EXTENDS Naturals, Sequences, FiniteSets

CONSTANTS
    Users, Sockets,
    Handlers,           \* the posts in flight
    Recordings,
    MaxEvents, MaxFailures,     \* bounds: what clients do, what fails
    None

ASSUME NoneIsNothing == None \notin Users \cup Sockets
ASSUME BoundsAreNumbers == MaxEvents \in Nat /\ MaxFailures \in Nat

VARIABLES
    clients,        \* userId -> socketId
    activeUsers,    \* the name a socket joined the calls with -> socketId
    owner,          \* whose token a socket came with
    open,           \* the sockets that are connected
    latest,         \* the socket each user connected last
    joined,         \* <<socket, room>>: the rooms of other sockets it joined
    heard,          \* <<socket, user>>: what was sent to the user went there
    writes,         \* <<socket, status>>: availabilities still to be written
    availability,   \* users.availability
    disturbed,      \* users of whom two writes overlapped or one was lost
    conversations,  \* the rows: [pair, live]
    messages,       \* the rows: [conversation, state]
    call,           \* [Handlers -> what the post still has to do]
    announced,      \* messages of which the room has been told
    spoiled,        \* messages whose post failed on its way
    chunks,         \* [Recordings -> the buffer]
    flushing,       \* <<recording, buffer>>: written to the stream
    file,           \* [Recordings -> the file]
    received, wiped,    \* [Recordings -> chunks that came, were lost in a crash]
    events, failures

registry == <<clients, activeUsers, owner, open, latest, joined, heard>>
presence == <<writes, availability, disturbed>>
tables == <<conversations, messages>>
posts == <<call, announced, spoiled>>
recording == <<chunks, flushing, file, received, wiped>>
vars == <<registry, presence, tables, posts, recording, events, failures>>

Status == {"online", "offline"}
MessageStatus == {"PENDING", "SENT", "DELIVERED", "READ"}
Pairs == {p \in Users \X Users : p[1] # p[2]}
Call == [ todo : Seq({"add", "store", "touch", "emit"}),
          pair : Pairs \cup {None}, conversation : Nat, message : Nat ]
NoCall == [ todo |-> <<>>, pair |-> None, conversation |-> 0, message |-> 0 ]

TypeOK ==
    /\ clients \in [Users -> Sockets \cup {None}]
    /\ activeUsers \in [Users -> Sockets \cup {None}]
    /\ owner \in [Sockets -> Users \cup {None}]
    /\ open \subseteq {s \in Sockets : owner[s] # None}
    /\ latest \in [Users -> Sockets \cup {None}]
    /\ joined \subseteq Sockets \X Sockets
    /\ heard \subseteq Sockets \X Users
    /\ writes \subseteq Sockets \X Status
    /\ availability \in [Users -> Status]
    /\ disturbed \subseteq Users
    /\ conversations \in Seq([pair : Pairs, live : BOOLEAN])
    /\ messages \in Seq([conversation : DOMAIN conversations,
                         state : MessageStatus \cup {"gone"}])
    /\ call \in [Handlers -> Call]
    /\ announced \subseteq DOMAIN messages
    /\ spoiled \subseteq DOMAIN messages
    /\ chunks \in [Recordings -> Seq(Nat)] /\ file \in [Recordings -> Seq(Nat)]
    /\ flushing \subseteq Recordings \X Seq(Nat)
    /\ received \in [Recordings -> Nat] /\ wiped \in [Recordings -> SUBSET Nat]
    /\ events \in 0..MaxEvents /\ failures \in 0..MaxFailures

Init ==
    /\ clients = [u \in Users |-> None] /\ activeUsers = [u \in Users |-> None]
    /\ owner = [s \in Sockets |-> None] /\ open = {}
    /\ latest = [u \in Users |-> None] /\ joined = {} /\ heard = {}
    /\ writes = {} /\ availability = [u \in Users |-> "offline"] /\ disturbed = {}
    /\ conversations = <<>> /\ messages = <<>>
    /\ call = [h \in Handlers |-> NoCall] /\ announced = {} /\ spoiled = {}
    /\ chunks = [r \in Recordings |-> <<>>] /\ flushing = {}
    /\ file = [r \in Recordings |-> <<>>]
    /\ received = [r \in Recordings |-> 0] /\ wiped = [r \in Recordings |-> {}]
    /\ events = 0 /\ failures = 0

Event == events < MaxEvents /\ events' = events + 1

---------------------------------------------------------------------------
(* Connecting and presence *)

(* updateUserStatus starts while others are under way: it looks for the    *)
(* user and then writes.                                                   *)
Write(others, s, u, status) ==
    /\ writes' = others \cup {<<s, status>>}
    /\ disturbed' = disturbed \cup
            (IF \E w \in others : owner[w[1]] = u THEN {u} ELSE {})
    /\ UNCHANGED availability

(* A socket without a valid token is disconnected and leaves no trace.     *)
HandleConnection(s, u) ==
    /\ Event
    /\ owner[s] = None
    /\ owner' = [owner EXCEPT ![s] = u]
    /\ open' = open \cup {s}
    /\ latest' = [latest EXCEPT ![u] = s]
    /\ clients' = [clients EXCEPT ![u] = s]
    /\ Write(writes, s, u, "online")
    /\ UNCHANGED <<activeUsers, joined, heard, tables, posts, recording, failures>>

(* Mutant: the user of the socket is signed off, whatever socket he has.   *)
DropUser(s, others) ==
    /\ open' = open \ {s}
    /\ clients' = [clients EXCEPT ![owner[s]] = None]
    /\ UNCHANGED activeUsers
    /\ Write(others, s, owner[s], "offline")

(* Only the socket the registry names signs its user off; one of the names *)
(* it joined the calls with goes too.                                      *)
Drop(s, others) ==
    /\ open' = open \ {s}
    /\ IF clients[owner[s]] # s
       THEN /\ writes' = others
            /\ UNCHANGED <<clients, activeUsers, availability, disturbed>>
       ELSE /\ clients' = [clients EXCEPT ![owner[s]] = None]
            /\ \/ \E name \in Users :
                     /\ activeUsers[name] = s
                     /\ activeUsers' = [activeUsers EXCEPT ![name] = None]
               \/ (\A name \in Users : activeUsers[name] # s) /\ UNCHANGED activeUsers
            /\ Write(others, s, owner[s], "offline")

HandleDisconnect(s) ==
    /\ Event
    /\ s \in open
    /\ Drop(s, writes)
    /\ UNCHANGED <<owner, latest, joined, heard, tables, posts, recording, failures>>

(* Mutant: a disconnect does not write.                                    *)
WriteOnline(w) ==
    /\ availability' = IF w[2] = "offline" THEN availability
                       ELSE [availability EXCEPT ![owner[w[1]]] = w[2]]
    /\ writes' = writes \ {w}
    /\ UNCHANGED <<registry, disturbed, tables, posts, recording, events, failures>>

UpdateUserStatus(w) ==
    /\ availability' = [availability EXCEPT ![owner[w[1]]] = w[2]]
    /\ writes' = writes \ {w}
    /\ UNCHANGED <<registry, disturbed, tables, posts, recording, events, failures>>

(* The write of a connection throws: the socket is disconnected.  The one  *)
(* of a disconnection has no handler and ends the process: see Crash.      *)
ConnectionFails(w) ==
    /\ w[2] = "online"
    /\ failures < MaxFailures
    /\ failures' = failures + 1
    /\ IF w[1] \in open THEN Drop(w[1], writes \ {w})
       ELSE /\ writes' = writes \ {w}
            /\ UNCHANGED <<open, clients, activeUsers, availability, disturbed>>
    /\ UNCHANGED <<owner, latest, joined, heard, tables, posts, recording, events>>

HandleJoin(s, name) ==
    /\ Event
    /\ s \in open
    /\ activeUsers' = [activeUsers EXCEPT ![name] = s]
    /\ UNCHANGED <<clients, owner, open, latest, joined, heard, presence, tables,
                   posts, recording, failures>>

(* Any room, that of a conversation or the one that each socket has under  *)
(* its own id.  Only the latter matter here; a socket leaves its rooms     *)
(* when it closes and never comes back.                                    *)
HandleRoomJoin(s, room) ==
    /\ Event
    /\ s \in open
    /\ owner[room] # None
    /\ joined' = joined \cup {<<s, room>>}
    /\ UNCHANGED <<clients, activeUsers, owner, open, latest, heard, presence,
                   tables, posts, recording, failures>>

Reaches(room) == {s \in open : s = room \/ <<s, room>> \in joined}

(* sendMessage: to the room of the one socket of the user.  typing and     *)
(* stopTyping look the socket up too, but Nest passes them no client, so   *)
(* client.id throws and nothing is sent.                                   *)
ListenForMessages(u) ==
    /\ Event
    /\ clients[u] # None
    /\ heard' = heard \cup (Reaches(clients[u]) \X {u})
    /\ UNCHANGED <<clients, activeUsers, owner, open, latest, joined, presence,
                   tables, posts, recording, failures>>

---------------------------------------------------------------------------
(* Conversations and messages *)

Live == {c \in DOMAIN conversations : conversations[c].live}

At(h, step) == call[h].todo # <<>> /\ Head(call[h].todo) = step
Then(h, known) == call' = [call EXCEPT ![h] = [known EXCEPT !.todo = Tail(@)]]
End(h) == call' = [call EXCEPT ![h] = NoCall]

(* POST /chat/conversation: 'Conversation already exists'.                 *)
FindConversation(h, p) ==
    /\ Event
    /\ call[h].todo = <<>>
    /\ \A c \in Live : conversations[c].pair # p
    /\ call' = [call EXCEPT ![h] = [NoCall EXCEPT !.todo = <<"add">>, !.pair = p]]
    /\ UNCHANGED <<registry, presence, tables, announced, spoiled, recording, failures>>

CreateConversation(h) ==
    /\ At(h, "add")
    /\ conversations' = Append(conversations, [pair |-> call[h].pair, live |-> TRUE])
    /\ End(h)
    /\ UNCHANGED <<registry, presence, messages, announced, spoiled, recording,
                   events, failures>>

(* Mutant: the messages stay when their conversation goes.                 *)
RemoveAlone(c) ==
    /\ conversations' = [conversations EXCEPT ![c].live = FALSE]
    /\ UNCHANGED messages

(* The messages go with their conversation: onDelete Cascade.              *)
Remove(c) ==
    /\ conversations' = [conversations EXCEPT ![c].live = FALSE]
    /\ messages' = [m \in DOMAIN messages |->
                        IF messages[m].conversation = c
                        THEN [messages[m] EXCEPT !.state = "gone"] ELSE messages[m]]

RemoveConversation(c) ==
    /\ Event
    /\ c \in Live
    /\ Remove(c)
    /\ UNCHANGED <<registry, presence, posts, recording, failures>>

(* Mutant: the room is told before the message is stored.                  *)
PostTellsFirst(h, c) ==
    /\ Event
    /\ call[h].todo = <<>>
    /\ c \in Live
    /\ call' = [call EXCEPT ![h] = [NoCall EXCEPT
            !.todo = <<"emit", "store", "touch">>, !.conversation = c]]
    /\ UNCHANGED <<registry, presence, tables, announced, spoiled, recording, failures>>

(* POST /chat/message of a conversation there is.                          *)
Post(h, c) ==
    /\ Event
    /\ call[h].todo = <<>>
    /\ c \in Live
    /\ call' = [call EXCEPT ![h] = [NoCall EXCEPT
            !.todo = <<"store", "touch", "emit">>, !.conversation = c]]
    /\ UNCHANGED <<registry, presence, tables, announced, spoiled, recording, failures>>

(* The foreign key refuses a conversation that has gone.                   *)
StoreMessage(h) ==
    /\ At(h, "store")
    /\ IF call[h].conversation \in Live
       THEN /\ messages' = Append(messages,
                    [conversation |-> call[h].conversation, state |-> "SENT"])
            /\ Then(h, [call[h] EXCEPT !.message = Len(messages) + 1])
       ELSE End(h) /\ UNCHANGED messages
    /\ UNCHANGED <<registry, presence, conversations, announced, spoiled, recording,
                   events, failures>>

(* updated_at of the conversation; without the row Prisma throws and the   *)
(* client is told that nothing was sent.                                   *)
TouchConversation(h) ==
    /\ At(h, "touch")
    /\ IF call[h].conversation \in Live THEN Then(h, call[h]) ELSE End(h)
    /\ UNCHANGED <<registry, presence, tables, announced, spoiled, recording,
                   events, failures>>

(* The controller tells the room of the conversation.                      *)
EmitMessage(h) ==
    /\ At(h, "emit")
    /\ announced' = announced \cup {call[h].message}
    /\ End(h)
    /\ UNCHANGED <<registry, presence, tables, spoiled, recording, events, failures>>

Fail(h) ==
    /\ call[h].todo # <<>>
    /\ failures < MaxFailures
    /\ failures' = failures + 1
    /\ spoiled' = spoiled \cup ({call[h].message} \ {0})
    /\ End(h)
    /\ UNCHANGED <<registry, presence, tables, announced, recording, events>>

(* Any status may follow any other: it is what the client says.            *)
UpdateMessageStatus(m, status) ==
    /\ Event
    /\ messages[m].state # "gone"
    /\ messages' = [messages EXCEPT ![m].state = status]
    /\ UNCHANGED <<registry, presence, conversations, posts, recording, failures>>

---------------------------------------------------------------------------
(* Recordings *)

(* The chunk is appended as it comes; its sequence number is only logged.  *)
HandleRecordingChunk(r) ==
    /\ Event
    /\ received' = [received EXCEPT ![r] = @ + 1]
    /\ chunks' = [chunks EXCEPT ![r] = Append(@, received[r] + 1)]
    /\ UNCHANGED <<registry, presence, tables, posts, flushing, file, wiped, failures>>

(* Mutant: the buffer is kept after it has been handed to the stream.      *)
EndKeepingBuffer(r) ==
    /\ Event
    /\ chunks[r] # <<>>
    /\ flushing' = flushing \cup {<<r, chunks[r]>>}
    /\ UNCHANGED <<registry, presence, tables, posts, chunks, file, received, wiped, failures>>

HandleRecordingEnd(r) ==
    /\ Event
    /\ chunks[r] # <<>>
    /\ flushing' = flushing \cup {<<r, chunks[r]>>}
    /\ chunks' = [chunks EXCEPT ![r] = <<>>]
    /\ UNCHANGED <<registry, presence, tables, posts, file, received, wiped, failures>>

(* Each end has a stream of its own, opened to append.                     *)
StreamWrites(f) ==
    /\ file' = [file EXCEPT ![f[1]] = @ \o f[2]]
    /\ flushing' = flushing \ {f}
    /\ UNCHANGED <<registry, presence, tables, posts, chunks, received, wiped,
                   events, failures>>

---------------------------------------------------------------------------
(* The process stops and starts again: what is in memory is gone, nobody's *)
(* availability is written.                                                *)
Crash ==
    /\ failures < MaxFailures
    /\ failures' = failures + 1
    /\ clients' = [u \in Users |-> None] /\ activeUsers' = [u \in Users |-> None]
    /\ open' = {}
    /\ writes' = {} /\ disturbed' = {u \in Users : latest[u] # None} \cup disturbed
    /\ call' = [h \in Handlers |-> NoCall]
    /\ spoiled' = spoiled \cup ({call[h].message : h \in Handlers} \ {0})
    /\ wiped' = [r \in Recordings |-> wiped[r] \cup
                    {n \in 1..received[r] : \A i \in DOMAIN file[r] : file[r][i] # n}]
    /\ chunks' = [r \in Recordings |-> <<>>] /\ flushing' = {}
    /\ UNCHANGED <<owner, latest, joined, heard, availability, tables, announced, file,
                   received, events>>

(* The socket events.                                                      *)
SocketEvents ==
    \/ \E s \in Sockets :
          \/ HandleDisconnect(s)
          \/ \E u \in Users : HandleConnection(s, u) \/ HandleJoin(s, u)
    \/ \E s \in Sockets : \E room \in Sockets \ {s} : HandleRoomJoin(s, room)
    \/ \E u \in Users : ListenForMessages(u)
    \/ \E m \in DOMAIN messages, status \in MessageStatus : UpdateMessageStatus(m, status)
    \/ \E r \in Recordings : HandleRecordingChunk(r) \/ HandleRecordingEnd(r)

(* The endpoints of conversations and messages.                            *)
ConversationRequests ==
    \/ \E h \in Handlers, p \in Pairs : FindConversation(h, p)
    \/ \E c \in DOMAIN conversations : RemoveConversation(c)

MessageRequests == \E h \in Handlers, c \in DOMAIN conversations : Post(h, c)

Next ==
    \/ SocketEvents \/ ConversationRequests \/ MessageRequests
    \/ \E w \in writes : UpdateUserStatus(w) \/ ConnectionFails(w)
    \/ \E h \in Handlers :
          \/ CreateConversation(h) \/ StoreMessage(h) \/ TouchConversation(h)
          \/ EmitMessage(h) \/ Fail(h)
    \/ \E f \in flushing : StreamWrites(f)
    \/ Crash

Spec == Init /\ [][Next]_vars

---------------------------------------------------------------------------
(* Properties *)

(* sendMessage reaches a user on the socket he connected last, as long as  *)
(* it is open, in whatever order his sockets close, and, apart from him,   *)
(* only sockets that have joined the room of a socket of his by its id.    *)
RegistryIsTheLatestSocket ==
    /\ \A u \in Users :
          clients[u] = IF latest[u] \in open THEN latest[u] ELSE None
    /\ \A x \in heard : \/ owner[x[1]] = x[2]
                       \/ \E s \in Sockets : owner[s] = x[2] /\ <<x[1], s>> \in joined

(* Without "apart from": what a user is sent, no other user is sent.       *)
SentToOwnSockets == \A x \in heard : owner[x[1]] = x[2]

(* When nothing is being written, availability says what the registry      *)
(* says, unless two writes of the user overlapped or one was lost.         *)
PresenceFollowsRegistry ==
    \A u \in Users \ disturbed :
        (\A w \in writes : owner[w[1]] # u) =>
            (availability[u] = "online" <=> clients[u] # None)

(* A message that is there has been announced to its room, or is about to  *)
(* be, unless its post failed; also when its conversation is deleted       *)
(* between two steps of the post.                                          *)
StoredIsAnnounced ==
    \A m \in DOMAIN messages \ (announced \cup spoiled) :
        messages[m].state = "gone" \/ \E h \in Handlers : call[h].message = m

(* Each chunk that came is in one place: the buffer, a stream, the file,   *)
(* or lost with the process.                                               *)
Places(r, n) ==
    {<<"buffer", i>> : i \in {i \in DOMAIN chunks[r] : chunks[r][i] = n}}
    \cup {<<"file", i>> : i \in {i \in DOMAIN file[r] : file[r][i] = n}}
    \cup {<<"stream", f>> : f \in {f \in flushing : f[1] = r /\ n \in {f[2][i] : i \in DOMAIN f[2]}}}
    \cup {<<"lost", n>> : k \in wiped[r] \cap {n}}

RecordingsKeepEveryChunk ==
    \A r \in Recordings : \A n \in 1..received[r] : Cardinality(Places(r, n)) = 1
=============================================================================
