-------------------------------- MODULE Shouts --------------------------------
(***************************************************************************)
(* Shouts: who is told about a shout nearby and who finds it in the feed,  *)
(* page by page, with likes and the comment tree (shout.service, and       *)
(* blocks and places from auth.service).                                   *)
(*                                                                         *)
(* A post, share or comment is the list of the calls it still has to make, *)
(* one of them a step; the notices of nearby users go on after the answer. *)
(* Distance is Near, 50 km.  The subscription that posting may need is     *)
(* Billing's; what moderators do with shouts and users is Moderation's and *)
(* appears here as Hide and Ban, which lifts a ban as well.                *)
(***************************************************************************)
EXTENDS Naturals, Sequences, FiniteSets

CONSTANTS
    Users, Places,
    Allowed,            \* the places LocationService allows posts from
    Near,               \* pairs of places within 50 km
    Home,               \* where users are at first
    Handlers,
    FetchCap,           \* the shouts the feed reads at most, in no order
    MaxShouts, MaxComments, MaxEvents, MaxFailures,     \* bounds
    None

ASSUME PlacesAreKnown ==
    /\ Allowed \subseteq Places /\ None \notin Places \cup Users
    /\ \A p \in Places : <<p, p>> \in Near
    /\ Home \in Places \cup {None}
ASSUME BoundsAreNumbers ==
    /\ MaxShouts \in Nat /\ MaxComments \in Nat /\ MaxEvents \in Nat /\ MaxFailures \in Nat
    /\ FetchCap \in Nat

VARIABLES
    shouts,     \* the rows: [author, original, place, state]
    place,      \* [Users -> latitude and longitude, or None]
    banned,     \* users.status = BANNED
    blocks,     \* <<blocker, blocked>>
    notices,    \* notifications about shouts: [to, shout, kind]
    likes,      \* <<user, shout>>
    comments,   \* the rows: [shout, author, parent, live]
    commentLikes,   \* <<user, comment>>
    call,       \* [Handlers -> what the call still has to do]
    apart,      \* n |-> users kept from n's author ever since n is there
    reading,    \* who reads the feed, how far he is and what he has seen
    events, failures

people == <<place, banned, blocks>>
reactions == <<likes, comments, commentLikes>>
bounds == <<events, failures>>
vars == <<shouts, people, notices, reactions, call, apart, reading, bounds>>

Shout == [ author : Users, original : 0..MaxShouts, place : Places \cup {None},
           state : {"published", "hidden", "erased"} ]
Comment == [ shout : 1..MaxShouts, author : Users, parent : 0..MaxComments, live : BOOLEAN ]
Notice == [ to : Users, shout : 1..MaxShouts, kind : {"nearby", "comment", "share"} ]
Steps == { "insert", "media", "author", "original", "blocks", "audience", "notify",
           "share", "comment", "tell" }
Call == [ todo : Seq(Steps), by : Users \cup {None}, shout : 0..MaxShouts,
          place : Places \cup {None}, original : 0..MaxShouts, parent : 0..MaxComments,
          authors : SUBSET Users, excluded : SUBSET Users, audience : SUBSET Users ]
NoCall == [ todo |-> <<>>, by |-> None, shout |-> 0, place |-> None, original |-> 0,
            parent |-> 0, authors |-> {}, excluded |-> {}, audience |-> {} ]

(* The history of a reader: the pages he read, the shouts on them, those   *)
(* in his feed since the first page, and whether any has left it.          *)
Reading == [ by : Users \cup {None}, page : 0..MaxEvents, seen : SUBSET (1..MaxShouts),
             steady : SUBSET (1..MaxShouts), disturbed : BOOLEAN ]
NoReading == [ by |-> None, page |-> 0, seen |-> {}, steady |-> {}, disturbed |-> FALSE ]

TypeOK ==
    /\ shouts \in Seq(Shout) /\ Len(shouts) <= MaxShouts
    /\ place \in [Users -> Places \cup {None}]
    /\ banned \subseteq Users /\ blocks \subseteq Users \X Users
    /\ notices \subseteq Notice
    /\ likes \subseteq Users \X DOMAIN shouts
    /\ comments \in Seq(Comment) /\ Len(comments) <= MaxComments
    /\ commentLikes \subseteq Users \X DOMAIN comments
    /\ call \in [Handlers -> Call]
    /\ apart \in [1..MaxShouts -> SUBSET Users]
    /\ reading \in Reading
    /\ events \in 0..MaxEvents /\ failures \in 0..MaxFailures

Init ==
    /\ shouts = <<>> /\ comments = <<>>
    /\ place = [u \in Users |-> Home]
    /\ banned = {} /\ blocks = {} /\ notices = {} /\ likes = {} /\ commentLikes = {}
    /\ call = [h \in Handlers |-> NoCall]
    /\ apart = [n \in 1..MaxShouts |-> {}]
    /\ reading = NoReading
    /\ events = 0 /\ failures = 0

Event == events < MaxEvents /\ events' = events + 1 /\ UNCHANGED failures

There == {n \in DOMAIN shouts : shouts[n].state # "erased"}
Published == {n \in There : shouts[n].state = "published"}

Close(p, q) == None \notin {p, q} /\ <<p, q>> \in Near

(* The author, and the author of the shout that n, while it is there,      *)
(* shares.                                                                 *)
AuthorsIn(rows, n) ==
    {rows[n].author} \cup
    {rows[m].author : m \in IF rows[n].state = "erased" THEN {} ELSE {rows[n].original} \ {0}}

AuthorsOf(n) == AuthorsIn(shouts, n)

BlockedIn(pairs, these) ==
    {u \in Users : \E v \in these : <<u, v>> \in pairs \/ <<v, u>> \in pairs}

BlockedWith(these) == BlockedIn(blocks, these)

(* The history: those apart from n's authors, and who of them stays so.    *)
Apart(rows, pairs, n) ==
    AuthorsIn(rows, n) \cup BlockedIn(pairs, AuthorsIn(rows, n))

StayApart ==
    apart' = [n \in 1..MaxShouts |->
                IF n \in DOMAIN shouts THEN apart[n] \cap Apart(shouts', blocks', n)
                ELSE apart[n]]

---------------------------------------------------------------------------
(* Posting *)

At(h, step) == call[h].todo # <<>> /\ Head(call[h].todo) = step
End(h) == call' = [call EXCEPT ![h] = NoCall]
Then(h, known) ==
    call' = [call EXCEPT ![h] = IF Len(call[h].todo) = 1 THEN NoCall
                                ELSE [known EXCEPT !.todo = Tail(@)]]

(* Nobody is told about a shout without a place.                           *)
PostSteps(second, p) ==
    IF p = None THEN <<"insert", second>>
    ELSE <<"insert", second, "author", "original", "blocks", "audience", "notify">>

Accept(h, u, request) ==
    /\ Event
    /\ call[h].todo = <<>>
    /\ call' = [call EXCEPT ![h] = [request EXCEPT !.by = u]]
    /\ UNCHANGED <<shouts, people, notices, reactions, apart>>

CreatePost(h, u, p) ==
    /\ p # None => p \in Allowed
    /\ Accept(h, u, [NoCall EXCEPT !.place = p, !.todo = PostSteps("media", p)])

(* Mutant: the author of the original is told before there is a share.     *)
ShareTellsFirst(h, u, n, p) ==
    /\ n \in There
    /\ Accept(h, u, [NoCall EXCEPT !.place = p, !.original = n,
            !.todo = <<"share", "insert">>])

(* Where the user is must be allowed, not where the share is.              *)
Share(h, u, n, p) ==
    /\ place[u] # None => place[u] \in Allowed
    /\ n \in There
    /\ Accept(h, u, [NoCall EXCEPT !.place = p, !.original = n,
            !.todo = PostSteps("share", p)])

(* The foreign key refuses an original that has gone.                      *)
Insert(h) ==
    /\ At(h, "insert")
    /\ UNCHANGED <<people, notices, reactions, bounds>>
    /\ LET row == [ author |-> call[h].by, original |-> call[h].original,
                    place |-> call[h].place, state |-> "published" ]
           n == Len(shouts) + 1
       IN IF Len(shouts) < MaxShouts /\ call[h].original \in There \cup {0}
          THEN /\ shouts' = Append(shouts, row)
               /\ Then(h, [call[h] EXCEPT !.shout = n])
               /\ apart' = [apart EXCEPT ![n] = Apart(Append(shouts, row), blocks, n)]
          ELSE End(h) /\ UNCHANGED <<shouts, apart>>

(* Each file is stored and then recorded.                                  *)
StoreMedia(h) ==
    /\ At(h, "media")
    /\ Then(h, call[h])
    /\ UNCHANGED <<shouts, people, notices, reactions, apart, bounds>>

(* The author of the original, as it was read first, hears of the share;   *)
(* a notice that fails is only logged.                                     *)
TellOriginalAuthor(h) ==
    /\ At(h, "share")
    /\ LET v == shouts[call[h].original].author
       IN \/ /\ v # call[h].by
             /\ notices' = notices \cup {[to |-> v, shout |-> call[h].shout, kind |-> "share"]}
             /\ UNCHANGED failures
          \/ /\ failures < MaxFailures /\ failures' = failures + 1
             /\ UNCHANGED notices
          \/ v = call[h].by /\ UNCHANGED <<notices, failures>>
    /\ Then(h, call[h])
    /\ UNCHANGED <<shouts, people, reactions, apart, events>>

---------------------------------------------------------------------------
(* sendNearbyNotifications *)

ReadAuthor(h) ==
    /\ At(h, "author")
    /\ IF call[h].by \in banned THEN End(h)
       ELSE Then(h, [call[h] EXCEPT !.authors = {call[h].by}])
    /\ UNCHANGED <<shouts, people, notices, reactions, apart, bounds>>

(* A shout that has gone meanwhile has no original, and goes on.           *)
ReadOriginal(h) ==
    /\ At(h, "original")
    /\ LET found == IF call[h].shout \in There THEN AuthorsOf(call[h].shout) ELSE {}
           original == {shouts[m].author :
                        m \in {shouts[call[h].shout].original} \cap There}
       IN IF call[h].shout \in There /\ original \cap banned # {} THEN End(h)
          ELSE Then(h, [call[h] EXCEPT !.authors = @ \cup found])
    /\ UNCHANGED <<shouts, people, notices, reactions, apart, bounds>>

(* Mutant: only those are left out who blocked an author.                  *)
ExcludeBlockers(h) ==
    /\ At(h, "blocks")
    /\ Then(h, [call[h] EXCEPT !.excluded = call[h].authors \cup
            {b[1] : b \in {b \in blocks : b[2] \in call[h].authors}}])
    /\ UNCHANGED <<shouts, people, notices, reactions, apart, bounds>>

Exclude(h) ==
    /\ At(h, "blocks")
    /\ Then(h, [call[h] EXCEPT !.excluded = @ \cup call[h].authors
                                                \cup BlockedWith(call[h].authors)])
    /\ UNCHANGED <<shouts, people, notices, reactions, apart, bounds>>

FindAudience(h) ==
    /\ At(h, "audience")
    /\ LET found == {u \in Users \ (call[h].excluded \cup banned) :
                        Close(place[u], call[h].place)}
       IN IF found = {} THEN End(h) ELSE Then(h, [call[h] EXCEPT !.audience = found])
    /\ UNCHANGED <<shouts, people, notices, reactions, apart, bounds>>

(* One user after the other; one notice that fails does not stop the rest. *)
Notify(h) ==
    /\ At(h, "notify")
    /\ \E u \in call[h].audience :
          /\ call' = [call EXCEPT ![h] = IF call[h].audience = {u} THEN NoCall
                                         ELSE [call[h] EXCEPT !.audience = @ \ {u}]]
          /\ \/ /\ notices' = notices \cup
                        {[to |-> u, shout |-> call[h].shout, kind |-> "nearby"]}
                /\ UNCHANGED failures
             \/ /\ failures < MaxFailures /\ failures' = failures + 1
                /\ UNCHANGED notices
    /\ UNCHANGED <<shouts, people, reactions, apart, events>>

---------------------------------------------------------------------------
(* Comments and likes *)

(* The parent may be any comment there is, also one of another shout.      *)
Comments == {c \in DOMAIN comments : comments[c].live}

PostComment(h, u, n, c) ==
    Accept(h, u, [NoCall EXCEPT !.todo = <<"comment", "tell">>, !.shout = n, !.parent = c])

InsertComment(h) ==
    /\ At(h, "comment")
    /\ IF /\ call[h].shout \in There
          /\ call[h].parent \in Comments \cup {0}
          /\ Len(comments) < MaxComments
       THEN /\ comments' = Append(comments, [ shout |-> call[h].shout, live |-> TRUE,
                    author |-> call[h].by, parent |-> call[h].parent ])
            /\ Then(h, call[h])
       ELSE End(h) /\ UNCHANGED comments
    /\ UNCHANGED <<shouts, people, notices, likes, commentLikes, apart, bounds>>

(* The author of the parent, else of the shout, if it is (still) there.    *)
TellAuthor(h) ==
    /\ At(h, "tell")
    /\ LET v == IF call[h].parent # 0
                THEN {comments[c].author : c \in {call[h].parent} \cap Comments}
                ELSE {shouts[n].author : n \in {call[h].shout} \cap There}
       IN notices' = notices \cup {[to |-> u, shout |-> call[h].shout, kind |-> "comment"] :
                                        u \in v \ {call[h].by}}
    /\ End(h)
    /\ UNCHANGED <<shouts, people, reactions, apart, bounds>>

(* A step throws: before the answer the caller is told, and what is done   *)
(* stays; after it the error is only logged.                               *)
Fail(h) ==
    /\ call[h].todo # <<>>
    /\ failures < MaxFailures
    /\ failures' = failures + 1
    /\ End(h)
    /\ UNCHANGED <<shouts, people, notices, reactions, apart, events>>

(* Mutant: the replies keep the parent that has gone.                      *)
WithoutAlone(gone) ==
    [c \in DOMAIN comments |-> [comments[c] EXCEPT !.live = @ /\ c \notin gone]]

(* Replies to a comment that goes stay, without a parent.                  *)
Without(gone) ==
    [c \in DOMAIN comments |-> [comments[c] EXCEPT
        !.live = @ /\ c \notin gone,
        !.parent = IF comments[c].parent \in gone THEN 0 ELSE @]]

DeleteComment(c, u) ==
    /\ Event
    /\ c \in Comments /\ comments[c].author = u
    /\ comments' = Without({c})
    /\ commentLikes' = {l \in commentLikes : l[2] # c}
    /\ UNCHANGED <<shouts, people, notices, likes, call, apart>>

(* The unique index refuses a second like; unlike deletes what there is.   *)
Like(n, u) ==
    /\ Event
    /\ n \in There /\ <<u, n>> \notin likes
    /\ likes' = likes \cup {<<u, n>>}
    /\ UNCHANGED <<shouts, people, notices, comments, commentLikes, call, apart>>

Unlike(n, u) ==
    /\ Event
    /\ <<u, n>> \in likes
    /\ likes' = likes \ {<<u, n>>}
    /\ UNCHANGED <<shouts, people, notices, comments, commentLikes, call, apart>>

LikeComment(c, u) ==
    /\ Event
    /\ c \in Comments /\ <<u, c>> \notin commentLikes
    /\ commentLikes' = commentLikes \cup {<<u, c>>}
    /\ UNCHANGED <<shouts, people, notices, likes, comments, call, apart>>

UnlikeComment(c, u) ==
    /\ Event
    /\ <<u, c>> \in commentLikes
    /\ commentLikes' = commentLikes \ {<<u, c>>}
    /\ UNCHANGED <<shouts, people, notices, likes, comments, call, apart>>

---------------------------------------------------------------------------
(* Editing and deleting *)

UpdatePost(n, u, p) ==
    /\ Event
    /\ n \in There /\ shouts[n].author = u
    /\ shouts' = [shouts EXCEPT ![n].place = p]
    /\ UNCHANGED <<people, notices, reactions, call, apart>>

(* Comments, likes and media go with the shout; shares of it stay, without *)
(* an original.                                                            *)
DeletePost(n, u) ==
    /\ Event
    /\ n \in There /\ shouts[n].author = u
    /\ shouts' = [m \in DOMAIN shouts |-> [shouts[m] EXCEPT
            !.state = IF m = n THEN "erased" ELSE @,
            !.original = IF @ = n THEN 0 ELSE @]]
    /\ LET gone == {c \in Comments : comments[c].shout = n}
       IN /\ comments' = Without(gone)
          /\ commentLikes' = {l \in commentLikes : l[2] \notin gone}
    /\ likes' = {l \in likes : l[2] # n}
    /\ UNCHANGED <<people, notices, call>>
    /\ StayApart

(* What others do: moderators, the profile, blocks, a deleted notice.      *)
Hide(n) ==
    /\ Event
    /\ n \in Published
    /\ shouts' = [shouts EXCEPT ![n].state = "hidden"]
    /\ UNCHANGED <<people, notices, reactions, call, apart>>

Ban(u) ==
    /\ Event
    /\ banned' = IF u \in banned THEN banned \ {u} ELSE banned \cup {u}
    /\ UNCHANGED <<shouts, place, blocks, notices, reactions, call, apart>>

MoveTo(u, p) ==
    /\ Event
    /\ place[u] # p
    /\ place' = [place EXCEPT ![u] = p]
    /\ UNCHANGED <<shouts, banned, blocks, notices, reactions, call, apart>>

BlockUser(u, v) ==
    /\ Event
    /\ u # v /\ <<u, v>> \notin blocks
    /\ blocks' = blocks \cup {<<u, v>>}
    /\ UNCHANGED <<shouts, place, banned, notices, reactions, call>>
    /\ StayApart

UnblockUser(u, v) ==
    /\ Event
    /\ <<u, v>> \in blocks
    /\ blocks' = blocks \ {<<u, v>>}
    /\ UNCHANGED <<shouts, place, banned, notices, reactions, call>>
    /\ StayApart

DeleteNotice(x) ==
    /\ Event
    /\ notices' = notices \ {x}
    /\ UNCHANGED <<shouts, people, reactions, call, apart>>

---------------------------------------------------------------------------
(* Reading *)

Notified(u) == {x.shout : x \in {x \in notices : x.to = u}}

(* getHiddenUserIds: those the reader blocked, not those who blocked him.  *)
HiddenUsers(u) == banned \cup {b[2] : b \in {b \in blocks : b[1] = u}}

IsHidden(u, n) == AuthorsOf(n) \cap HiddenUsers(u) # {}

(* getAllPosts without a position lists everything, and what is hidden     *)
(* only leaves a gap on its page.  Else it lists what is not hidden and is *)
(* near or has been notified, of what a query without an order found.      *)
Candidates(u) == {n \in Published : shouts[n].place # None \/ n \in Notified(u)}

Listed(u) ==
    IF place[u] = None THEN Published
    ELSE {n \in Published : /\ ~IsHidden(u, n)
                            /\ Close(place[u], shouts[n].place) \/ n \in Notified(u)}

Overflows(u) == place[u] # None /\ Cardinality(Candidates(u)) > FetchCap

Found(u) ==
    IF Overflows(u)
    THEN {Listed(u) \cap rows :
            rows \in {rows \in SUBSET Candidates(u) : Cardinality(rows) = FetchCap}}
    ELSE {Listed(u)}

Feed(u) == {n \in Listed(u) : ~IsHidden(u, n)}

(* The newest shout is the first.                                          *)
Rank(n, rows) == Cardinality({m \in rows : m >= n})

(* Mutant: near or far, the page is cut from what the query finds.         *)
PageOfQuery(u, page, rows) ==
    {n \in rows : ~IsHidden(u, n) /\ Rank(n, Candidates(u) \cup rows) = page}

(* A page has one shout.                                                   *)
Page(u, page, rows) == {n \in rows : ~IsHidden(u, n) /\ Rank(n, rows) = page}

(* A reader starts, or goes on with his next page.                         *)
ReadFirst(u) ==
    /\ Event
    /\ \E rows \in Found(u) :
          reading' = [ by |-> u, page |-> 1, seen |-> Page(u, 1, rows),
                       steady |-> Feed(u), disturbed |-> Overflows(u) ]
    /\ UNCHANGED <<shouts, people, notices, reactions, call, apart>>

ReadNext(u) ==
    /\ Event
    /\ reading.by = u
    /\ \E rows \in Found(u) :
          reading' = [reading EXCEPT
            !.page = @ + 1, !.seen = @ \cup Page(u, reading.page + 1, rows)]
    /\ UNCHANGED <<shouts, people, notices, reactions, call, apart>>

(* What the other steps do to his feed.                                    *)
Watch ==
    IF reading.by = None THEN UNCHANGED reading
    ELSE \E u \in Users :
            /\ u = reading.by
            /\ reading' = [reading EXCEPT
                  !.steady = @ \cap Feed(u)',
                  !.disturbed = @ \/ ~(Listed(u) \subseteq Listed(u)') \/ Overflows(u)']

(* getComments lists the comments of n without a parent, and               *)
(* getCommentReplies those of one comment.                                 *)
TopLevel(n) == {c \in Comments : comments[c].shout = n /\ comments[c].parent = 0}
Replies(c) == {d \in Comments : comments[d].parent = c}

---------------------------------------------------------------------------
(* The endpoints, each for the user of the access token.                   *)
PostRequests ==
    \E h \in Handlers, u \in Users, p \in Places \cup {None} :
        CreatePost(h, u, p) \/ \E n \in There : Share(h, u, n, p)

OwnerRequests ==
    \E u \in Users, n \in DOMAIN shouts :
        DeletePost(n, u) \/ \E p \in Places \cup {None} : UpdatePost(n, u, p)

LikeRequests == \E u \in Users, n \in DOMAIN shouts : Like(n, u) \/ Unlike(n, u)

CommentRequests ==
    \E u \in Users :
        \/ \E h \in Handlers, n \in There, c \in Comments \cup {0} : PostComment(h, u, n, c)
        \/ \E c \in DOMAIN comments :
              DeleteComment(c, u) \/ LikeComment(c, u) \/ UnlikeComment(c, u)

BlockRequests == \E u, v \in Users : BlockUser(u, v) \/ UnblockUser(u, v)

SendNearbyNotifications(h) ==
    ReadAuthor(h) \/ ReadOriginal(h) \/ Exclude(h) \/ FindAudience(h) \/ Notify(h)

Step ==
    \/ PostRequests \/ OwnerRequests \/ LikeRequests \/ CommentRequests \/ BlockRequests
    \/ \E h \in Handlers :
          \/ Insert(h) \/ StoreMedia(h) \/ TellOriginalAuthor(h)
          \/ SendNearbyNotifications(h)
          \/ InsertComment(h) \/ TellAuthor(h) \/ Fail(h)
    \/ \E n \in DOMAIN shouts : Hide(n)
    \/ \E u \in Users : Ban(u) \/ \E p \in Places \cup {None} : MoveTo(u, p)
    \/ \E x \in notices : DeleteNotice(x)

Next == (Step /\ Watch) \/ \E u \in Users : ReadFirst(u) \/ ReadNext(u)

Spec == Init /\ [][Next]_vars

---------------------------------------------------------------------------
(* Properties *)

(* Nobody is told about a shout nearby who has been, all the time since it *)
(* was posted, one of its authors or blocked with one of them, in either   *)
(* direction and whoever else blocks, unblocks or deletes meanwhile.       *)
NoticesRespectBlocks ==
    \A x \in notices : x.kind = "nearby" => x.to \notin apart[x.shout]

(* A reader who turns the pages of his feed has seen, of what was in it    *)
(* all the time, everything that now stands before the place where he is:  *)
(* shouts that are posted, come near or are notified meanwhile cost him    *)
(* nothing.  Only one that leaves the list, or more shouts than the query  *)
(* reads, can make him miss another.                                       *)
PagesSkipNothing ==
    \A u \in Users : reading.by = u /\ ~reading.disturbed =>
        \A n \in reading.steady \ reading.seen : Rank(n, Listed(u)) > reading.page

(* A comment can be reached: it stands under its shout, or under a comment *)
(* that can be reached, whatever was deleted between.                      *)
NoCommentIsLost ==
    \A c \in Comments :
        \/ c \in TopLevel(comments[c].shout) /\ comments[c].shout \in There
        \/ \E d \in Comments : c \in Replies(d) /\ d < c
=============================================================================
