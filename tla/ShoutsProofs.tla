------------------------------ MODULE ShoutsProofs ------------------------------
(***************************************************************************)
(* Safety of Shouts for any number of users, places and calls in flight.   *)
(*                                                                         *)
(* The argument for the nearby notices follows what a call has read: the   *)
(* authors it found include every author the shout still has, so the users *)
(* it leaves out include all that have stayed apart.  The one for comments *)
(* is that a parent is older, and goes only after its replies let go.      *)
(* The reader only watches: his invariant comes last.                      *)
(***************************************************************************)
EXTENDS Shouts, SequenceTheorems, FiniteSetTheorems, TLAPS

(* The types of all but the reader.                                        *)
RowsOK ==
    /\ shouts \in Seq(Shout) /\ Len(shouts) <= MaxShouts
    /\ place \in [Users -> Places \cup {None}]
    /\ banned \subseteq Users /\ blocks \subseteq Users \X Users
    /\ notices \subseteq Notice
    /\ likes \subseteq Users \X DOMAIN shouts
    /\ comments \in Seq(Comment) /\ Len(comments) <= MaxComments
    /\ commentLikes \subseteq Users \X DOMAIN comments
    /\ call \in [Handlers -> Call]
    /\ apart \in [1..MaxShouts -> SUBSET Users]
    /\ events \in 0..MaxEvents /\ failures \in 0..MaxFailures

(* The calls still to make, from the first to the last.                    *)
ToNotify == <<"notify">>
ToAudience == <<"audience", "notify">>
ToBlocks == <<"blocks", "audience", "notify">>
ToOriginal == <<"original", "blocks", "audience", "notify">>
ToAuthor == <<"author", "original", "blocks", "audience", "notify">>
ToMedia == <<"media", "author", "original", "blocks", "audience", "notify">>
ToShare == <<"share", "author", "original", "blocks", "audience", "notify">>
ToInsert == <<"insert", "media", "author", "original", "blocks", "audience", "notify">>
ToInsertShare == <<"insert", "share", "author", "original", "blocks", "audience", "notify">>
OnlyMedia == <<"media">>
OnlyShare == <<"share">>
InsertMedia == <<"insert", "media">>
InsertShare == <<"insert", "share">>
ToTell == <<"tell">>
ToComment == <<"comment", "tell">>

Todos ==
    { <<>>, ToNotify, ToAudience, ToBlocks, ToOriginal, ToAuthor,
      ToMedia, ToShare, ToInsert, ToInsertShare, OnlyMedia,
      OnlyShare, InsertMedia, InsertShare, ToTell, ToComment }

Starts(t, step) == t # <<>> /\ Head(t) = step

(* What a call knows at each of its steps.                                 *)
Known(rows, held, c) ==
    /\ c \in Call /\ c.todo \in Todos
    /\ c.todo # <<>> => c.by \in Users
    /\ c.todo # <<>> /\ ~Starts(c.todo, "insert") =>
            c.shout \in DOMAIN rows
    /\ c.todo # <<>> /\ Head(c.todo) \notin {"insert", "comment", "tell"} =>
            rows[c.shout].author = c.by
    /\ Starts(c.todo, "share") \/ c.todo \in {InsertShare, ToInsertShare} =>
            c.original \in DOMAIN rows
    /\ Starts(c.todo, "original") => c.by \in c.authors
    /\ Starts(c.todo, "blocks") => AuthorsIn(rows, c.shout) \subseteq c.authors
    /\ Starts(c.todo, "audience") => held[c.shout] \subseteq c.excluded
    /\ Starts(c.todo, "notify") => held[c.shout] \cap c.audience = {}

CallsKnow == \A h \in Handlers : Known(shouts, apart, call[h])

OriginalsAreRows == \A n \in DOMAIN shouts : shouts[n].original \in DOMAIN shouts \cup {0}

ApartIsApart == \A n \in DOMAIN shouts : apart[n] \subseteq Apart(shouts, blocks, n)

NoticesHaveShouts == \A x \in notices : x.shout \in DOMAIN shouts

CommentTree ==
    \A c \in Comments :
        /\ comments[c].shout \in There
        /\ comments[c].parent # 0 => comments[c].parent \in Comments /\ comments[c].parent < c

IInv ==
    /\ RowsOK
    /\ CallsKnow
    /\ OriginalsAreRows
    /\ ApartIsApart
    /\ NoticesHaveShouts
    /\ NoticesRespectBlocks
    /\ CommentTree

---------------------------------------------------------------------------
(* Sequences and calls *)

LEMMA TodosAreSteps == Todos \subseteq Seq(Steps)
<1>1. <<>> \in Seq(Steps)
  OBVIOUS
<1>2. ToNotify \in Seq(Steps)
  BY DEF Steps, ToNotify
<1>3. ToAudience \in Seq(Steps)
  BY DEF Steps, ToAudience
<1>4. ToBlocks \in Seq(Steps)
  BY DEF Steps, ToBlocks
<1>5. ToOriginal \in Seq(Steps)
  BY DEF Steps, ToOriginal
<1>6. ToAuthor \in Seq(Steps)
  BY DEF Steps, ToAuthor
<1>7. ToMedia \in Seq(Steps)
  BY DEF Steps, ToMedia
<1>8. ToShare \in Seq(Steps)
  BY DEF Steps, ToShare
<1>9. ToInsert \in Seq(Steps)
  BY DEF Steps, ToInsert
<1>10. ToInsertShare \in Seq(Steps)
  BY DEF Steps, ToInsertShare
<1>11. OnlyMedia \in Seq(Steps)
  BY DEF Steps, OnlyMedia
<1>12. OnlyShare \in Seq(Steps)
  BY DEF Steps, OnlyShare
<1>13. InsertMedia \in Seq(Steps)
  BY DEF Steps, InsertMedia
<1>14. InsertShare \in Seq(Steps)
  BY DEF Steps, InsertShare
<1>15. ToTell \in Seq(Steps)
  BY DEF Steps, ToTell
<1>16. ToComment \in Seq(Steps)
  BY DEF Steps, ToComment
<1> QED
  BY <1>1, <1>2, <1>3, <1>4, <1>5, <1>6, <1>7, <1>8, <1>9, <1>10, <1>11, <1>12, <1>13, <1>14, <1>15, <1>16 DEF Todos

(* The first step of each, and what is left after it.                      *)
LEMMA Tails ==
    /\ ToNotify # <<>> /\ Head(ToNotify) = "notify" /\ Tail(ToNotify) = <<>> /\ Len(ToNotify) = 1
    /\ ToAudience # <<>> /\ Head(ToAudience) = "audience" /\ Tail(ToAudience) = ToNotify /\ Len(ToAudience) = 2
    /\ ToBlocks # <<>> /\ Head(ToBlocks) = "blocks" /\ Tail(ToBlocks) = ToAudience /\ Len(ToBlocks) = 3
    /\ ToOriginal # <<>> /\ Head(ToOriginal) = "original" /\ Tail(ToOriginal) = ToBlocks /\ Len(ToOriginal) = 4
    /\ ToAuthor # <<>> /\ Head(ToAuthor) = "author" /\ Tail(ToAuthor) = ToOriginal /\ Len(ToAuthor) = 5
    /\ ToMedia # <<>> /\ Head(ToMedia) = "media" /\ Tail(ToMedia) = ToAuthor /\ Len(ToMedia) = 6
    /\ ToShare # <<>> /\ Head(ToShare) = "share" /\ Tail(ToShare) = ToAuthor /\ Len(ToShare) = 6
    /\ ToInsert # <<>> /\ Head(ToInsert) = "insert" /\ Tail(ToInsert) = ToMedia /\ Len(ToInsert) = 7
    /\ ToInsertShare # <<>> /\ Head(ToInsertShare) = "insert" /\ Tail(ToInsertShare) = ToShare /\ Len(ToInsertShare) = 7
    /\ OnlyMedia # <<>> /\ Head(OnlyMedia) = "media" /\ Tail(OnlyMedia) = <<>> /\ Len(OnlyMedia) = 1
    /\ OnlyShare # <<>> /\ Head(OnlyShare) = "share" /\ Tail(OnlyShare) = <<>> /\ Len(OnlyShare) = 1
    /\ InsertMedia # <<>> /\ Head(InsertMedia) = "insert" /\ Tail(InsertMedia) = OnlyMedia /\ Len(InsertMedia) = 2
    /\ InsertShare # <<>> /\ Head(InsertShare) = "insert" /\ Tail(InsertShare) = OnlyShare /\ Len(InsertShare) = 2
    /\ ToTell # <<>> /\ Head(ToTell) = "tell" /\ Tail(ToTell) = <<>> /\ Len(ToTell) = 1
    /\ ToComment # <<>> /\ Head(ToComment) = "comment" /\ Tail(ToComment) = ToTell /\ Len(ToComment) = 2
<1>1. ToNotify # <<>> /\ Head(ToNotify) = "notify" /\ Tail(ToNotify) = <<>> /\ Len(ToNotify) = 1
  BY DEF ToNotify
<1>2. ToAudience # <<>> /\ Head(ToAudience) = "audience" /\ Tail(ToAudience) = ToNotify /\ Len(ToAudience) = 2
  BY DEF ToAudience, ToNotify
<1>3. ToBlocks # <<>> /\ Head(ToBlocks) = "blocks" /\ Tail(ToBlocks) = ToAudience /\ Len(ToBlocks) = 3
  BY DEF ToBlocks, ToAudience
<1>4. ToOriginal # <<>> /\ Head(ToOriginal) = "original" /\ Tail(ToOriginal) = ToBlocks /\ Len(ToOriginal) = 4
  BY DEF ToOriginal, ToBlocks
<1>5. ToAuthor # <<>> /\ Head(ToAuthor) = "author" /\ Tail(ToAuthor) = ToOriginal /\ Len(ToAuthor) = 5
  BY DEF ToAuthor, ToOriginal
<1>6. ToMedia # <<>> /\ Head(ToMedia) = "media" /\ Tail(ToMedia) = ToAuthor /\ Len(ToMedia) = 6
  BY DEF ToMedia, ToAuthor
<1>7. ToShare # <<>> /\ Head(ToShare) = "share" /\ Tail(ToShare) = ToAuthor /\ Len(ToShare) = 6
  BY DEF ToShare, ToAuthor
<1>8. ToInsert # <<>> /\ Head(ToInsert) = "insert" /\ Tail(ToInsert) = ToMedia /\ Len(ToInsert) = 7
  BY DEF ToInsert, ToMedia
<1>9. ToInsertShare # <<>> /\ Head(ToInsertShare) = "insert" /\ Tail(ToInsertShare) = ToShare /\ Len(ToInsertShare) = 7
  BY DEF ToInsertShare, ToShare
<1>10. OnlyMedia # <<>> /\ Head(OnlyMedia) = "media" /\ Tail(OnlyMedia) = <<>> /\ Len(OnlyMedia) = 1
  BY DEF OnlyMedia
<1>11. OnlyShare # <<>> /\ Head(OnlyShare) = "share" /\ Tail(OnlyShare) = <<>> /\ Len(OnlyShare) = 1
  BY DEF OnlyShare
<1>12. InsertMedia # <<>> /\ Head(InsertMedia) = "insert" /\ Tail(InsertMedia) = OnlyMedia /\ Len(InsertMedia) = 2
  BY DEF InsertMedia, OnlyMedia
<1>13. InsertShare # <<>> /\ Head(InsertShare) = "insert" /\ Tail(InsertShare) = OnlyShare /\ Len(InsertShare) = 2
  BY DEF InsertShare, OnlyShare
<1>14. ToTell # <<>> /\ Head(ToTell) = "tell" /\ Tail(ToTell) = <<>> /\ Len(ToTell) = 1
  BY DEF ToTell
<1>15. ToComment # <<>> /\ Head(ToComment) = "comment" /\ Tail(ToComment) = ToTell /\ Len(ToComment) = 2
  BY DEF ToComment, ToTell
<1> QED
  BY <1>1, <1>2, <1>3, <1>4, <1>5, <1>6, <1>7, <1>8, <1>9, <1>10, <1>11, <1>12, <1>13, <1>14, <1>15

(* What follows each step.                                                 *)
LEMMA NextStep ==
    ASSUME NEW t \in Todos, t # <<>>
    PROVE  /\ Tail(t) \in Todos /\ Tail(t) \notin {InsertShare, ToInsertShare}
           /\ Len(t) = 1 <=> Tail(t) = <<>>
           /\ Starts(Tail(t), "share") => t \in {InsertShare, ToInsertShare}
           /\ Head(t) = "insert" => Starts(Tail(t), "media") \/ Starts(Tail(t), "share")
           /\ Head(t) \in {"media", "share"} => Tail(t) = <<>> \/ Starts(Tail(t), "author")
           /\ Head(t) = "author" => Starts(Tail(t), "original")
           /\ Head(t) = "original" => Starts(Tail(t), "blocks")
           /\ Head(t) = "blocks" => Starts(Tail(t), "audience")
           /\ Head(t) = "audience" => Starts(Tail(t), "notify")
           /\ Head(t) = "comment" => Starts(Tail(t), "tell")
           /\ Head(t) \in {"notify", "tell"} => Tail(t) = <<>>
<1>1. Tail(t) \in Todos
  BY Tails DEF Todos
<1>2. Len(t) = 1 <=> Tail(t) = <<>>
  <2>1. CASE t \in {ToNotify, OnlyMedia, OnlyShare, ToTell}
    BY <2>1, Tails
  <2>2. CASE t \in {ToAudience, ToBlocks, ToOriginal, ToAuthor, ToMedia, ToShare}
    <3>1. Len(t) # 1
      BY <2>2, Tails
    <3>2. Tail(t) # <<>>
      BY <2>2, Tails
    <3> QED
      BY <3>1, <3>2
  <2>3. CASE t \in {ToInsert, ToInsertShare, InsertMedia, InsertShare, ToComment}
    <3>1. Len(t) # 1
      BY <2>3, Tails
    <3>2. Tail(t) # <<>>
      BY <2>3, Tails
    <3> QED
      BY <3>1, <3>2
  <2> QED
    BY <2>1, <2>2, <2>3 DEF Todos
<1>3. Head(t) = "insert" <=> t \in {InsertMedia, InsertShare, ToInsert, ToInsertShare}
  BY Tails DEF Todos
<1>4. Tail(t) = <<>> \/ Head(Tail(t)) # "insert"
  BY Tails DEF Todos
<1>5. Starts(Tail(t), "share") => t \in {InsertShare, ToInsertShare}
  BY Tails DEF Todos, Starts
<1>6. /\ Head(t) = "insert" => Starts(Tail(t), "media") \/ Starts(Tail(t), "share")
      /\ Head(t) \in {"media", "share"} => Tail(t) = <<>> \/ Starts(Tail(t), "author")
  BY Tails DEF Todos, Starts
<1>7. /\ Head(t) = "author" => Starts(Tail(t), "original")
      /\ Head(t) = "original" => Starts(Tail(t), "blocks")
      /\ Head(t) = "blocks" => Starts(Tail(t), "audience")
  BY Tails DEF Todos, Starts
<1>8. /\ Head(t) = "audience" => Starts(Tail(t), "notify")
      /\ Head(t) = "comment" => Starts(Tail(t), "tell")
      /\ Head(t) \in {"notify", "tell"} => Tail(t) = <<>>
  BY Tails DEF Todos, Starts
<1>9. Tail(t) \notin {InsertShare, ToInsertShare}
  BY <1>4, Tails
<1> QED
  BY <1>1, <1>2, <1>5, <1>6, <1>7, <1>8, <1>9

LEMMA StepBefore ==
    ASSUME NEW t \in Todos, t # <<>>, Tail(t) # <<>>
    PROVE  /\ Head(Tail(t)) = "original" => Head(t) = "author"
           /\ Head(Tail(t)) = "blocks" => Head(t) = "original"
           /\ Head(Tail(t)) = "audience" => Head(t) = "blocks"
           /\ Head(Tail(t)) = "notify" => Head(t) = "audience"
<1>1. CASE t \in {ToAudience, ToBlocks, ToOriginal, ToAuthor, ToMedia, ToShare}
  BY <1>1, Tails
<1>2. CASE t \in {ToInsert, ToInsertShare, InsertMedia, InsertShare, ToComment}
  BY <1>2, Tails
<1>3. t \notin {ToNotify, OnlyMedia, OnlyShare, ToTell}
  BY Tails
<1> QED
  BY <1>1, <1>2, <1>3 DEF Todos

LEMMA CallFields ==
    ASSUME NEW c \in Call, NEW t \in Seq(Steps)
    PROVE  LET k == [c EXCEPT !.todo = t]
           IN /\ k \in Call /\ k.todo = t /\ k.by = c.by /\ k.shout = c.shout
              /\ k.original = c.original /\ k.authors = c.authors
              /\ k.excluded = c.excluded /\ k.audience = c.audience
BY DEF Call

LEMMA NoCallIsCall == NoCall \in Call /\ NoCall.todo = <<>>
<1>1. <<>> \in Seq(Steps)
  OBVIOUS
<1> QED
  BY <1>1, BoundsAreNumbers DEF NoCall, Call

LEMMA NoCallIsKnown ==
    ASSUME NEW rows, NEW held
    PROVE  Known(rows, held, NoCall)
BY NoCallIsCall, Tails DEF Known, Todos, Starts

---------------------------------------------------------------------------
(* What is known of a call stays true as long as rows keep their authors   *)
(* and lose at most their originals.                                       *)

Settled ==
    /\ DOMAIN shouts \subseteq DOMAIN shouts'
    /\ \A n \in DOMAIN shouts :
          /\ shouts'[n].author = shouts[n].author
          /\ AuthorsIn(shouts', n) \subseteq AuthorsIn(shouts, n)
          /\ apart'[n] \subseteq apart[n]

LEMMA KnownStays ==
    ASSUME Settled, NEW c, Known(shouts, apart, c)
    PROVE  Known(shouts', apart', c)
<1>1. CASE c.todo = <<>> \/ Starts(c.todo, "insert")
  BY <1>1, Tails DEF Known, Settled, Starts
<1>2. CASE c.todo # <<>> /\ ~Starts(c.todo, "insert")
  <2>1. c.shout \in DOMAIN shouts
    BY <1>2 DEF Known
  <2> QED
    BY <1>2, <2>1 DEF Known, Settled, Starts
<1> QED
  BY <1>1, <1>2

LEMMA CallsStay ==
    ASSUME CallsKnow, Settled, call' = call
    PROVE  CallsKnow'
BY KnownStays DEF CallsKnow

(* One call goes on, the others stay.                                      *)
LEMMA OneCallMoves ==
    ASSUME IInv, NEW h \in Handlers, NEW k, call' = [call EXCEPT ![h] = k],
           Known(shouts', apart', k), Settled
    PROVE  CallsKnow' /\ call' \in [Handlers -> Call]
<1>1. \A g \in Handlers : call'[g] = IF g = h THEN k ELSE call[g]
  BY DEF IInv, RowsOK
<1>2. \A g \in Handlers : Known(shouts', apart', call'[g])
  BY <1>1, KnownStays DEF IInv, CallsKnow
<1>3. call' \in [Handlers -> Call]
  BY <1>1 DEF IInv, RowsOK, Known
<1> QED
  BY <1>2, <1>3 DEF CallsKnow

LEMMA RowsAreRows ==
    ASSUME RowsOK
    PROVE  /\ DOMAIN shouts = 1..Len(shouts) /\ Len(shouts) \in Nat
           /\ \A n \in DOMAIN shouts : n \in 1..MaxShouts /\ shouts[n] \in Shout
           /\ DOMAIN comments = 1..Len(comments) /\ Len(comments) \in Nat
           /\ \A c \in DOMAIN comments : c \in 1..MaxComments /\ comments[c] \in Comment
<1>1. shouts \in Seq(Shout) /\ comments \in Seq(Comment)
  BY DEF RowsOK
<1>2. /\ DOMAIN shouts = 1..Len(shouts) /\ Len(shouts) \in Nat
      /\ \A n \in DOMAIN shouts : shouts[n] \in Shout
  BY <1>1, LenProperties, ElementOfSeq
<1>3. /\ DOMAIN comments = 1..Len(comments) /\ Len(comments) \in Nat
      /\ \A c \in DOMAIN comments : comments[c] \in Comment
  BY <1>1, LenProperties, ElementOfSeq
<1>4. Len(shouts) <= MaxShouts /\ Len(comments) <= MaxComments
  BY DEF RowsOK
<1> QED
  BY <1>2, <1>3, <1>4, BoundsAreNumbers

LEMMA InitInv == Init => IInv
<1> SUFFICES ASSUME Init
             PROVE  IInv
  OBVIOUS
<1> USE DEF Init
<1>1. /\ shouts \in Seq(Shout) /\ Len(shouts) = 0 /\ DOMAIN shouts = {}
      /\ comments \in Seq(Comment) /\ Len(comments) = 0 /\ DOMAIN comments = {}
  OBVIOUS
<1>2. \A h \in Handlers : Known(shouts, apart, call[h])
  BY NoCallIsKnown
<1>3. RowsOK
  BY <1>1, <1>2, BoundsAreNumbers, PlacesAreKnown DEF RowsOK, Known
<1>4. OriginalsAreRows /\ ApartIsApart /\ NoticesHaveShouts /\ NoticesRespectBlocks
  BY <1>1 DEF OriginalsAreRows, ApartIsApart, NoticesHaveShouts, NoticesRespectBlocks
<1>5. CommentTree
  BY <1>1 DEF CommentTree, Comments
<1> QED
  BY <1>2, <1>3, <1>4, <1>5 DEF IInv, CallsKnow

(* Steps that leave the shouts, the history and the comments alone.        *)
LEMMA RestStays ==
    ASSUME IInv, UNCHANGED <<shouts, apart, comments, blocks>>,
           place' \in [Users -> Places \cup {None}], banned' \subseteq Users,
           commentLikes' \subseteq Users \X DOMAIN comments,
           likes' \subseteq Users \X DOMAIN shouts,
           events' \in 0..MaxEvents, failures' \in 0..MaxFailures,
           call' \in [Handlers -> Call], CallsKnow',
           notices' \subseteq Notice,
           \A x \in notices' : x.shout \in DOMAIN shouts,
           \A x \in notices' \ notices : x.kind = "nearby" => x.to \notin apart[x.shout]
    PROVE  IInv'
<1>1. RowsOK'
  BY DEF IInv, RowsOK
<1>2. OriginalsAreRows' /\ ApartIsApart'
  BY DEF IInv, OriginalsAreRows, ApartIsApart
<1>3. NoticesHaveShouts' /\ NoticesRespectBlocks'
  BY DEF IInv, NoticesHaveShouts, NoticesRespectBlocks
<1>4. CommentTree'
  BY DEF IInv, CommentTree, Comments, There
<1> QED
  BY <1>1, <1>2, <1>3, <1>4 DEF IInv

---------------------------------------------------------------------------
(* Calls begin and go on *)

LEMMA CallAt ==
    ASSUME IInv, NEW h \in Handlers, call[h].todo # <<>>
    PROVE  /\ Known(shouts, apart, call[h]) /\ call[h] \in Call
           /\ call[h].todo \in Todos /\ call[h].by \in Users
BY DEF IInv, CallsKnow, Known

LEMMA AcceptKeeps ==
    ASSUME IInv, NEW h \in Handlers, NEW u \in Users, NEW request \in Call,
           Accept(h, u, request),
           request.todo \in {InsertMedia, InsertShare, ToInsert, ToInsertShare, ToComment},
           request.todo \in {InsertShare, ToInsertShare} =>
                request.original \in DOMAIN shouts,
           request.todo = ToComment => request.shout \in DOMAIN shouts
    PROVE  IInv'
<1> DEFINE k == [request EXCEPT !.by = u]
<1>1. /\ k \in Call /\ k.todo = request.todo /\ k.by = u
      /\ k.original = request.original /\ k.shout = request.shout
  BY DEF Call
<1>2. call' = [call EXCEPT ![h] = k] /\ UNCHANGED <<shouts, people, notices, reactions, apart>>
  BY DEF Accept
<1> HIDE DEF k
<1>3. Known(shouts, apart, k)
  BY <1>1, Tails DEF Known, Starts, Todos
<1>4. Settled
  BY <1>2 DEF Settled
<1>5. CallsKnow' /\ call' \in [Handlers -> Call]
  BY <1>2, <1>3, <1>4, OneCallMoves
<1>6. events' \in 0..MaxEvents /\ failures' \in 0..MaxFailures
  BY BoundsAreNumbers DEF Accept, Event, IInv, RowsOK
<1> QED
  BY <1>2, <1>5, <1>6, RestStays
     DEF people, reactions, IInv, RowsOK, NoticesHaveShouts

LEMMA PostKeeps ==
    ASSUME IInv, PostRequests
    PROVE  IInv'
<1>1. PICK h \in Handlers, u \in Users, p \in Places \cup {None} :
          CreatePost(h, u, p) \/ \E n \in There : Share(h, u, n, p)
  BY DEF PostRequests
<1>2. CASE CreatePost(h, u, p)
  <2> DEFINE t == PostSteps("media", p)
             request == [NoCall EXCEPT !.place = p, !.todo = t]
  <2>1. t = IF p = None THEN InsertMedia ELSE ToInsert
    BY DEF PostSteps, InsertMedia, ToInsert
  <2>2. t \in Seq(Steps)
    BY <2>1, TodosAreSteps DEF Todos
  <2> HIDE DEF t
  <2>3. request \in Call /\ request.todo = t
    BY <2>2, NoCallIsCall DEF Call
  <2>4. Accept(h, u, request)
    BY <1>2 DEF CreatePost, t
  <2> HIDE DEF request
  <2>5. request.todo \in {InsertMedia, ToInsert}
    BY <2>1, <2>3
  <2>6. request.todo \notin {InsertShare, ToInsertShare, ToComment}
    BY <2>5 DEF InsertMedia, ToInsert, InsertShare, ToInsertShare, ToComment
  <2> QED
    BY <2>3, <2>4, <2>5, <2>6, AcceptKeeps
<1>3. ASSUME NEW n \in There, Share(h, u, n, p)
      PROVE  IInv'
  <2> DEFINE t == PostSteps("share", p)
             request == [NoCall EXCEPT !.place = p, !.original = n, !.todo = t]
  <2>1. t = IF p = None THEN InsertShare ELSE ToInsertShare
    BY DEF PostSteps, InsertShare, ToInsertShare
  <2>2. t \in Seq(Steps)
    BY <2>1, TodosAreSteps DEF Todos
  <2>3. n \in DOMAIN shouts /\ n \in 0..MaxShouts
    BY RowsAreRows, BoundsAreNumbers DEF IInv, There
  <2> HIDE DEF t
  <2>4. request \in Call /\ request.todo = t /\ request.original = n
    BY <2>2, <2>3, NoCallIsCall DEF Call
  <2>5. Accept(h, u, request)
    BY <1>3 DEF Share, t
  <2> HIDE DEF request
  <2>6. request.todo \in {InsertShare, ToInsertShare}
    BY <2>1, <2>4
  <2>7. request.todo # ToComment
    BY <2>6 DEF InsertShare, ToInsertShare, ToComment
  <2> QED
    BY <2>3, <2>4, <2>5, <2>6, <2>7, AcceptKeeps
<1> QED
  BY <1>1, <1>2, <1>3

LEMMA PostCommentKeeps ==
    ASSUME IInv, NEW h \in Handlers, NEW u \in Users, NEW n \in There,
           NEW c \in Comments \cup {0}, PostComment(h, u, n, c)
    PROVE  IInv'
<1> DEFINE t == <<"comment", "tell">>
           request == [NoCall EXCEPT !.todo = t, !.shout = n, !.parent = c]
<1>1. t = ToComment /\ t \in Seq(Steps)
  BY TodosAreSteps DEF ToComment, Todos
<1>2. n \in DOMAIN shouts /\ n \in 0..MaxShouts /\ c \in 0..MaxComments
  BY RowsAreRows, BoundsAreNumbers DEF IInv, There, Comments
<1> HIDE DEF t
<1>3. request \in Call /\ request.todo = t /\ request.shout = n
  BY <1>1, <1>2, NoCallIsCall DEF Call
<1>4. Accept(h, u, request)
  BY DEF PostComment, t
<1> HIDE DEF request
<1>5. request.todo \notin {InsertShare, ToInsertShare}
  BY <1>1, <1>3 DEF InsertShare, ToInsertShare, ToComment
<1> QED
  BY <1>1, <1>2, <1>3, <1>4, <1>5, AcceptKeeps

(* What a step must know for the next one.                                 *)
LEMMA GoesOn ==
    ASSUME IInv, NEW h \in Handlers, NEW step, At(h, step), NEW known \in Call,
           Then(h, known), Settled,
           known.todo = call[h].todo, known.by = call[h].by,
           known.original = call[h].original,
           known.shout \in DOMAIN shouts',
           step # "comment" => shouts'[known.shout].author = known.by,
           step = "author" => known.by \in known.authors,
           step = "original" => AuthorsIn(shouts', known.shout) \subseteq known.authors,
           step = "blocks" => apart'[known.shout] \subseteq known.excluded,
           step = "audience" => apart'[known.shout] \cap known.audience = {}
    PROVE  CallsKnow' /\ call' \in [Handlers -> Call]
<1> DEFINE t == call[h].todo
           k == [known EXCEPT !.todo = Tail(t)]
<1>1. t \in Todos /\ t # <<>> /\ Head(t) = step /\ Known(shouts, apart, call[h])
  BY CallAt DEF At
<1>2. CASE Tail(t) = <<>>
  <2>1. call' = [call EXCEPT ![h] = NoCall]
    BY <1>1, <1>2, NextStep DEF Then
  <2> QED
    BY <2>1, NoCallIsKnown, OneCallMoves
<1>3. CASE Tail(t) # <<>>
  <2>1. call' = [call EXCEPT ![h] = k]
    BY <1>1, <1>3, NextStep DEF Then
  <2>2. Tail(t) \in Seq(Steps) /\ Tail(t) \in Todos
    BY <1>1, NextStep, TodosAreSteps
  <2>3. /\ k \in Call /\ k.todo = Tail(t) /\ k.by = call[h].by /\ k.shout = known.shout
        /\ k.original = call[h].original /\ k.authors = known.authors
        /\ k.excluded = known.excluded /\ k.audience = known.audience
    BY <2>2, CallFields
  <2> HIDE DEF k, t
  <2>4. k.by \in Users
    BY <2>3, CallAt, <1>1 DEF t
  <2>5. t \in {InsertShare, ToInsertShare} => k.original \in DOMAIN shouts'
    BY <1>1, <2>3 DEF Known, Settled, t
  <2>6. Starts(k.todo, "share") => k.original \in DOMAIN shouts'
    BY <1>1, <2>3, <2>5, NextStep
  <2>7. /\ Starts(k.todo, "original") => step = "author"
        /\ Starts(k.todo, "blocks") => step = "original"
        /\ Starts(k.todo, "audience") => step = "blocks"
        /\ Starts(k.todo, "notify") => step = "audience"
        /\ step = "comment" => Starts(k.todo, "tell")
    BY <1>1, <1>3, <2>3, StepBefore, NextStep DEF Starts
  <2>8. k.todo \notin {InsertShare, ToInsertShare}
    BY <1>1, <2>3, NextStep
  <2>9. Known(shouts', apart', k)
    BY <2>2, <2>3, <2>4, <2>6, <2>7, <2>8 DEF Known, Starts
  <2> QED
    BY <2>1, <2>9, OneCallMoves
<1> QED
  BY <1>2, <1>3

LEMMA EndKeeps ==
    ASSUME IInv, NEW h \in Handlers, End(h), Settled
    PROVE  CallsKnow' /\ call' \in [Handlers -> Call]
BY NoCallIsKnown, OneCallMoves DEF End

---------------------------------------------------------------------------
(* The steps of a call *)

LEMMA SettledIfSame ==
    ASSUME UNCHANGED <<shouts, apart>>
    PROVE  Settled
BY DEF Settled

(* Steps that only read, or only add notices.                              *)
LEMMA StepKeeps ==
    ASSUME IInv, call' \in [Handlers -> Call], CallsKnow',
           UNCHANGED <<shouts, people, reactions, apart, events>>,
           failures' \in 0..MaxFailures,
           notices' \subseteq Notice,
           \A x \in notices' : x.shout \in DOMAIN shouts,
           \A x \in notices' \ notices : x.kind = "nearby" => x.to \notin apart[x.shout]
    PROVE  IInv'
<1>1. UNCHANGED <<blocks, comments>> /\ place' \in [Users -> Places \cup {None}]
      /\ banned' \subseteq Users /\ commentLikes' \subseteq Users \X DOMAIN comments
      /\ likes' \subseteq Users \X DOMAIN shouts /\ events' \in 0..MaxEvents
  BY DEF people, reactions, IInv, RowsOK
<1> QED
  BY <1>1, RestStays

LEMMA ReadStepKeeps ==
    ASSUME IInv, call' \in [Handlers -> Call], CallsKnow',
           UNCHANGED <<shouts, people, notices, reactions, apart, bounds>>
    PROVE  IInv'
<1>1. UNCHANGED <<events, failures>>
  BY DEF bounds
<1> QED
  BY <1>1, StepKeeps DEF IInv, RowsOK, NoticesHaveShouts

LEMMA FailKeeps ==
    ASSUME IInv, NEW h \in Handlers, Fail(h)
    PROVE  IInv'
<1>1. CallsKnow' /\ call' \in [Handlers -> Call]
  BY EndKeeps, SettledIfSame DEF Fail
<1>2. failures' \in 0..MaxFailures
  BY BoundsAreNumbers DEF Fail, IInv, RowsOK
<1> QED
  BY <1>1, <1>2, StepKeeps DEF Fail, IInv, RowsOK, NoticesHaveShouts

LEMMA StoreMediaKeeps ==
    ASSUME IInv, NEW h \in Handlers, StoreMedia(h)
    PROVE  IInv'
<1>1. /\ Known(shouts, apart, call[h]) /\ call[h] \in Call
      /\ call[h].todo # <<>> /\ Head(call[h].todo) = "media"
  BY CallAt DEF StoreMedia, At
<1>2. call[h].shout \in DOMAIN shouts /\ shouts[call[h].shout].author = call[h].by
  BY <1>1 DEF Known, Starts
<1>3. Settled /\ UNCHANGED shouts
  BY SettledIfSame DEF StoreMedia
<1>4. CallsKnow' /\ call' \in [Handlers -> Call]
  BY <1>1, <1>2, <1>3, GoesOn DEF StoreMedia
<1> QED
  BY <1>4, ReadStepKeeps DEF StoreMedia

LEMMA TellOriginalAuthorKeeps ==
    ASSUME IInv, NEW h \in Handlers, TellOriginalAuthor(h)
    PROVE  IInv'
<1> DEFINE v == shouts[call[h].original].author
           x == [to |-> v, shout |-> call[h].shout, kind |-> "share"]
<1>1. /\ Known(shouts, apart, call[h]) /\ call[h] \in Call
      /\ call[h].todo # <<>> /\ Head(call[h].todo) = "share"
  BY CallAt DEF TellOriginalAuthor, At
<1>2. /\ call[h].shout \in DOMAIN shouts /\ shouts[call[h].shout].author = call[h].by
      /\ call[h].original \in DOMAIN shouts
  BY <1>1 DEF Known, Starts
<1>3. Settled /\ UNCHANGED shouts
  BY SettledIfSame DEF TellOriginalAuthor
<1>4. CallsKnow' /\ call' \in [Handlers -> Call]
  BY <1>1, <1>2, <1>3, GoesOn DEF TellOriginalAuthor
<1>5. x \in Notice /\ x.shout = call[h].shout /\ x.kind = "share"
  BY <1>2, RowsAreRows DEF IInv, Shout, Notice
<1>6. notices' \subseteq notices \cup {x} /\ failures' \in 0..MaxFailures
  BY BoundsAreNumbers DEF TellOriginalAuthor, IInv, RowsOK
<1>7. UNCHANGED <<shouts, people, reactions, apart, events>>
  BY DEF TellOriginalAuthor
<1> HIDE DEF x
<1>8. /\ notices' \subseteq Notice /\ \A y \in notices' : y.shout \in DOMAIN shouts
      /\ \A y \in notices' \ notices : y.kind # "nearby"
  BY <1>2, <1>5, <1>6 DEF IInv, RowsOK, NoticesHaveShouts
<1> QED
  BY <1>4, <1>6, <1>7, <1>8, StepKeeps

LEMMA ReadAuthorKeeps ==
    ASSUME IInv, NEW h \in Handlers, ReadAuthor(h)
    PROVE  IInv'
<1> DEFINE known == [call[h] EXCEPT !.authors = {call[h].by}]
<1>1. /\ Known(shouts, apart, call[h]) /\ call[h] \in Call /\ call[h].by \in Users
      /\ call[h].todo # <<>> /\ Head(call[h].todo) = "author"
  BY CallAt DEF ReadAuthor, At
<1>2. call[h].shout \in DOMAIN shouts /\ shouts[call[h].shout].author = call[h].by
  BY <1>1 DEF Known, Starts
<1>3. Settled /\ UNCHANGED shouts
  BY SettledIfSame DEF ReadAuthor
<1>4. /\ known \in Call /\ known.todo = call[h].todo /\ known.by = call[h].by
      /\ known.original = call[h].original /\ known.shout = call[h].shout
      /\ known.by \in known.authors
  BY <1>1 DEF Call
<1>5. At(h, "author") /\ (End(h) \/ Then(h, known))
  BY DEF ReadAuthor
<1> HIDE DEF known
<1>6. CallsKnow' /\ call' \in [Handlers -> Call]
  BY <1>2, <1>3, <1>4, <1>5, GoesOn, EndKeeps
<1> QED
  BY <1>6, ReadStepKeeps DEF ReadAuthor

(* A shout that has gone has no author but the one it was posted by.       *)
LEMMA ReadOriginalKeeps ==
    ASSUME IInv, NEW h \in Handlers, ReadOriginal(h)
    PROVE  IInv'
<1> DEFINE found == IF call[h].shout \in There THEN AuthorsOf(call[h].shout) ELSE {}
           known == [call[h] EXCEPT !.authors = @ \cup found]
<1>1. /\ Known(shouts, apart, call[h]) /\ call[h] \in Call /\ call[h].by \in Users
      /\ call[h].todo # <<>> /\ Head(call[h].todo) = "original"
  BY CallAt DEF ReadOriginal, At
<1>2. /\ call[h].shout \in DOMAIN shouts /\ shouts[call[h].shout].author = call[h].by
      /\ call[h].by \in call[h].authors
  BY <1>1 DEF Known, Starts
<1>3. Settled /\ UNCHANGED shouts
  BY SettledIfSame DEF ReadOriginal
<1>4. AuthorsIn(shouts, call[h].shout) \subseteq call[h].authors \cup found
  <2>1. CASE call[h].shout \in There
    BY <2>1 DEF AuthorsOf
  <2>2. CASE call[h].shout \notin There
    BY <1>2, <2>2 DEF There, AuthorsIn
  <2> QED
    BY <2>1, <2>2
<1>5. found \in SUBSET Users
  <2>1. \A n \in DOMAIN shouts : AuthorsIn(shouts, n) \subseteq Users
    BY RowsAreRows DEF IInv, OriginalsAreRows, AuthorsIn, Shout
  <2> QED
    BY <1>2, <2>1 DEF AuthorsOf
<1>6. At(h, "original") /\ (End(h) \/ Then(h, known))
  BY DEF ReadOriginal
<1> HIDE DEF found
<1>7. /\ known \in Call /\ known.todo = call[h].todo /\ known.by = call[h].by
      /\ known.original = call[h].original /\ known.shout = call[h].shout
      /\ known.authors = call[h].authors \cup found
  BY <1>1, <1>5 DEF Call
<1> HIDE DEF known
<1>8. CallsKnow' /\ call' \in [Handlers -> Call]
  BY <1>2, <1>3, <1>4, <1>6, <1>7, GoesOn, EndKeeps
<1> QED
  BY <1>8, ReadStepKeeps DEF ReadOriginal

(* Who has stayed apart is apart now, from authors the call has read.      *)
LEMMA ExcludeKeeps ==
    ASSUME IInv, NEW h \in Handlers, Exclude(h)
    PROVE  IInv'
<1> DEFINE out == call[h].excluded \cup call[h].authors \cup BlockedWith(call[h].authors)
           known == [call[h] EXCEPT !.excluded = @ \cup call[h].authors
                                                   \cup BlockedWith(call[h].authors)]
<1>1. /\ Known(shouts, apart, call[h]) /\ call[h] \in Call
      /\ call[h].todo # <<>> /\ Head(call[h].todo) = "blocks"
  BY CallAt DEF Exclude, At
<1>2. /\ call[h].shout \in DOMAIN shouts /\ shouts[call[h].shout].author = call[h].by
      /\ AuthorsIn(shouts, call[h].shout) \subseteq call[h].authors
  BY <1>1 DEF Known, Starts
<1>3. Settled /\ UNCHANGED <<shouts, apart>>
  BY SettledIfSame DEF Exclude
<1>4. apart[call[h].shout] \subseteq out
  BY <1>2 DEF IInv, ApartIsApart, Apart, BlockedIn, BlockedWith
<1>5. out \in SUBSET Users
  BY <1>1 DEF Call, BlockedWith, BlockedIn
<1>6. At(h, "blocks") /\ Then(h, known)
  BY DEF Exclude
<1>7. known = [call[h] EXCEPT !.excluded = out]
  BY <1>1 DEF Call
<1> HIDE DEF out
<1>8. /\ known \in Call /\ known.todo = call[h].todo /\ known.by = call[h].by
      /\ known.original = call[h].original /\ known.shout = call[h].shout
      /\ known.excluded = out
  BY <1>1, <1>5, <1>7 DEF Call
<1> HIDE DEF known
<1>9. CallsKnow' /\ call' \in [Handlers -> Call]
  BY <1>2, <1>3, <1>4, <1>6, <1>8, GoesOn
<1> QED
  BY <1>9, ReadStepKeeps DEF Exclude

LEMMA FindAudienceKeeps ==
    ASSUME IInv, NEW h \in Handlers, FindAudience(h)
    PROVE  IInv'
<1> DEFINE found == {u \in Users \ (call[h].excluded \cup banned) :
                        Close(place[u], call[h].place)}
           known == [call[h] EXCEPT !.audience = found]
<1>1. /\ Known(shouts, apart, call[h]) /\ call[h] \in Call
      /\ call[h].todo # <<>> /\ Head(call[h].todo) = "audience"
  BY CallAt DEF FindAudience, At
<1>2. /\ call[h].shout \in DOMAIN shouts /\ shouts[call[h].shout].author = call[h].by
      /\ apart[call[h].shout] \subseteq call[h].excluded
  BY <1>1 DEF Known, Starts
<1>3. Settled /\ UNCHANGED <<shouts, apart>>
  BY SettledIfSame DEF FindAudience
<1>4. apart[call[h].shout] \cap found = {} /\ found \in SUBSET Users
  BY <1>2
<1>5. At(h, "audience") /\ (End(h) \/ Then(h, known))
  BY DEF FindAudience
<1> HIDE DEF found
<1>6. /\ known \in Call /\ known.todo = call[h].todo /\ known.by = call[h].by
      /\ known.original = call[h].original /\ known.shout = call[h].shout
      /\ known.audience = found
  BY <1>1, <1>4 DEF Call
<1> HIDE DEF known
<1>7. CallsKnow' /\ call' \in [Handlers -> Call]
  BY <1>2, <1>3, <1>4, <1>5, <1>6, GoesOn, EndKeeps
<1> QED
  BY <1>7, ReadStepKeeps DEF FindAudience

LEMMA NotifyKeeps ==
    ASSUME IInv, NEW h \in Handlers, Notify(h)
    PROVE  IInv'
<1>1. /\ Known(shouts, apart, call[h]) /\ call[h] \in Call
      /\ call[h].todo # <<>> /\ Head(call[h].todo) = "notify"
  BY CallAt DEF Notify, At
<1>2. /\ call[h].shout \in DOMAIN shouts /\ shouts[call[h].shout].author = call[h].by
      /\ apart[call[h].shout] \cap call[h].audience = {}
  BY <1>1 DEF Known, Starts
<1>3. PICK u \in call[h].audience :
         /\ call' = [call EXCEPT ![h] = IF call[h].audience = {u} THEN NoCall
                                        ELSE [call[h] EXCEPT !.audience = @ \ {u}]]
         /\ \/ /\ notices' = notices \cup
                       {[to |-> u, shout |-> call[h].shout, kind |-> "nearby"]}
               /\ UNCHANGED failures
            \/ /\ failures < MaxFailures /\ failures' = failures + 1
               /\ UNCHANGED notices
  BY DEF Notify
<1> DEFINE k == [call[h] EXCEPT !.audience = @ \ {u}]
           x == [to |-> u, shout |-> call[h].shout, kind |-> "nearby"]
<1>4. Settled /\ UNCHANGED <<shouts, people, reactions, apart, events>>
  BY SettledIfSame DEF Notify
<1>5. /\ k \in Call /\ k.todo = call[h].todo /\ k.by = call[h].by
      /\ k.original = call[h].original /\ k.shout = call[h].shout
      /\ k.authors = call[h].authors /\ k.excluded = call[h].excluded
      /\ k.audience = call[h].audience \ {u}
  BY <1>1 DEF Call
<1>6. call' = [call EXCEPT ![h] = NoCall] \/ call' = [call EXCEPT ![h] = k]
  BY <1>3
<1> HIDE DEF k
<1>7. Known(shouts, apart, k)
  BY <1>1, <1>2, <1>5 DEF Known, Starts
<1>8. Known(shouts', apart', k) /\ Known(shouts', apart', NoCall)
  BY <1>4, <1>7, NoCallIsKnown
<1>9. CallsKnow' /\ call' \in [Handlers -> Call]
  BY <1>4, <1>6, <1>8, OneCallMoves
<1>10. /\ x \in Notice /\ x.shout = call[h].shout /\ x.to = u
       /\ u \notin apart[call[h].shout]
  <2>1. u \in Users
    BY <1>1 DEF Call
  <2> QED
    BY <1>2, <2>1, RowsAreRows DEF IInv, Notice
<1>11. notices' \subseteq notices \cup {x} /\ failures' \in 0..MaxFailures
  BY <1>3, BoundsAreNumbers DEF IInv, RowsOK
<1> HIDE DEF x
<1>12. /\ notices' \subseteq Notice /\ \A y \in notices' : y.shout \in DOMAIN shouts
       /\ \A y \in notices' \ notices : y.to \notin apart[y.shout]
  BY <1>2, <1>10, <1>11 DEF IInv, RowsOK, NoticesHaveShouts
<1> QED
  BY <1>4, <1>9, <1>11, <1>12, StepKeeps

(* The foreign key: an original is older than its share.                   *)
LEMMA InsertKeeps ==
    ASSUME IInv, NEW h \in Handlers, Insert(h)
    PROVE  IInv'
<1> DEFINE n == Len(shouts) + 1
           row == [ author |-> call[h].by, original |-> call[h].original,
                    place |-> call[h].place, state |-> "published" ]
           known == [call[h] EXCEPT !.shout = n]
<1>1. /\ Known(shouts, apart, call[h]) /\ call[h] \in Call /\ call[h].by \in Users
      /\ call[h].todo # <<>> /\ Head(call[h].todo) = "insert"
  BY CallAt DEF Insert, At
<1>2. CASE End(h) /\ UNCHANGED <<shouts, apart>>
  <2>1. CallsKnow' /\ call' \in [Handlers -> Call]
    BY <1>2, EndKeeps, SettledIfSame
  <2> QED
    BY <1>2, <2>1, ReadStepKeeps DEF Insert
<1>3. CASE /\ Len(shouts) < MaxShouts /\ call[h].original \in There \cup {0}
           /\ shouts' = Append(shouts, row)
           /\ Then(h, known)
           /\ apart' = [apart EXCEPT ![n] = Apart(Append(shouts, row), blocks, n)]
  <2>1. /\ DOMAIN shouts = 1..Len(shouts) /\ Len(shouts) \in Nat
        /\ n \notin DOMAIN shouts /\ n \in 1..MaxShouts /\ shouts \in Seq(Shout)
    BY <1>3, RowsAreRows, BoundsAreNumbers DEF IInv, RowsOK
  <2>2. row \in Shout /\ row.author = call[h].by /\ row.state = "published"
        /\ row.original \in DOMAIN shouts \cup {0}
    BY <1>1, <1>3 DEF Shout, Call, There
  <2> HIDE DEF row
  <2>3. /\ shouts' \in Seq(Shout) /\ Len(shouts') = n /\ DOMAIN shouts' = DOMAIN shouts \cup {n}
        /\ \A m \in DOMAIN shouts : shouts'[m] = shouts[m]
        /\ shouts'[n] = row
    BY <1>3, <2>1, <2>2, AppendProperties, LenProperties
  <2>4. \A m \in DOMAIN shouts : AuthorsIn(shouts', m) = AuthorsIn(shouts, m)
    BY <2>3 DEF IInv, OriginalsAreRows, AuthorsIn
  <2>5. AuthorsIn(shouts', n) \subseteq Users
    BY <2>1, <2>2, <2>3, RowsAreRows, <1>1 DEF AuthorsIn, IInv, Shout
  <2>6. /\ apart'[n] = Apart(shouts', blocks, n)
        /\ \A m \in DOMAIN shouts : apart'[m] = apart[m]
        /\ apart' \in [1..MaxShouts -> SUBSET Users]
    <3>1. Apart(shouts', blocks, n) \in SUBSET Users
      BY <2>5 DEF Apart, BlockedIn
    <3> QED
      BY <1>3, <2>1, <3>1 DEF IInv, RowsOK
  <2>7. Settled
    BY <2>3, <2>4, <2>6 DEF Settled
  <2>8. /\ known \in Call /\ known.todo = call[h].todo /\ known.by = call[h].by
        /\ known.original = call[h].original /\ known.shout = n
    <3>1. n \in 0..MaxShouts
      BY <2>1
    <3> HIDE DEF n
    <3> QED
      BY <1>1, <3>1 DEF Call
  <2> HIDE DEF known
  <2>9. CallsKnow' /\ call' \in [Handlers -> Call]
    <3>1. /\ At(h, "insert") /\ known.shout \in DOMAIN shouts'
          /\ shouts'[known.shout].author = known.by
      BY <2>2, <2>3, <2>8 DEF Insert
    <3> QED
      BY <1>3, <2>7, <2>8, <3>1, GoesOn
  <2>10. UNCHANGED <<place, banned, blocks, notices, likes, comments, commentLikes,
                     events, failures>>
    BY DEF Insert, people, reactions, bounds
  <2>11. RowsOK'
    <3>1. Len(shouts') <= MaxShouts
      BY <2>1, <2>3
    <3>2. likes' \subseteq Users \X DOMAIN shouts'
      BY <2>3, <2>10 DEF IInv, RowsOK
    <3>3. DOMAIN comments' = DOMAIN comments
      BY <2>10
    <3> QED
      BY <2>3, <2>6, <2>9, <2>10, <3>1, <3>2, <3>3 DEF IInv, RowsOK
  <2>12. OriginalsAreRows'
    BY <2>2, <2>3 DEF IInv, OriginalsAreRows
  <2>13. ApartIsApart'
    BY <2>3, <2>4, <2>6, <2>10 DEF IInv, ApartIsApart, Apart
  <2>14. NoticesHaveShouts' /\ NoticesRespectBlocks'
    BY <2>3, <2>6, <2>10 DEF IInv, NoticesHaveShouts, NoticesRespectBlocks
  <2>15. CommentTree'
    BY <2>3, <2>10 DEF IInv, CommentTree, Comments, There
  <2> QED
    BY <2>9, <2>11, <2>12, <2>13, <2>14, <2>15 DEF IInv
<1> QED
  BY <1>2, <1>3 DEF Insert

(* A new comment hangs under an older one that is there.                   *)
LEMMA InsertCommentKeeps ==
    ASSUME IInv, NEW h \in Handlers, InsertComment(h)
    PROVE  IInv'
<1> DEFINE row == [ shout |-> call[h].shout, live |-> TRUE,
                    author |-> call[h].by, parent |-> call[h].parent ]
<1>1. /\ Known(shouts, apart, call[h]) /\ call[h] \in Call /\ call[h].by \in Users
      /\ call[h].todo # <<>> /\ Head(call[h].todo) = "comment"
  BY CallAt DEF InsertComment, At
<1>2. Settled /\ UNCHANGED <<shouts, people, notices, likes, commentLikes, apart, bounds>>
  BY SettledIfSame DEF InsertComment
<1>3. CASE End(h) /\ UNCHANGED comments
  <2>1. CallsKnow' /\ call' \in [Handlers -> Call]
    BY <1>2, <1>3, EndKeeps
  <2> QED
    BY <1>2, <1>3, <2>1, ReadStepKeeps DEF reactions
<1>4. CASE /\ call[h].shout \in There /\ call[h].parent \in Comments \cup {0}
           /\ Len(comments) < MaxComments
           /\ comments' = Append(comments, row)
           /\ Then(h, call[h])
  <2>1. /\ DOMAIN comments = 1..Len(comments) /\ Len(comments) \in Nat
        /\ comments \in Seq(Comment)
    BY RowsAreRows DEF IInv, RowsOK
  <2>2. row \in Comment /\ row.shout = call[h].shout /\ row.parent = call[h].parent
    BY <1>1, <1>4, RowsAreRows DEF IInv, Comment, Call, There
  <2> HIDE DEF row
  <2>3. /\ comments' \in Seq(Comment) /\ Len(comments') = Len(comments) + 1
        /\ DOMAIN comments' = DOMAIN comments \cup {Len(comments) + 1}
        /\ \A c \in DOMAIN comments : comments'[c] = comments[c]
        /\ comments'[Len(comments) + 1] = row
    BY <1>4, <2>1, <2>2, AppendProperties, LenProperties
  <2>4. CallsKnow' /\ call' \in [Handlers -> Call]
    <3>1. At(h, "comment") /\ call[h].shout \in DOMAIN shouts'
      BY <1>2, <1>4 DEF InsertComment, There
    <3> QED
      BY <1>1, <1>2, <1>4, <3>1, GoesOn
  <2>5. UNCHANGED <<shouts, place, banned, blocks, notices, likes, commentLikes,
                    apart, events, failures>>
    BY <1>2 DEF people, bounds
  <2>6. RowsOK'
    <3>1. Len(comments') <= MaxComments
      BY <1>4, <2>1, <2>3, BoundsAreNumbers
    <3>2. commentLikes' \subseteq Users \X DOMAIN comments'
      BY <2>3, <2>5 DEF IInv, RowsOK
    <3> QED
      BY <2>3, <2>4, <2>5, <3>1, <3>2 DEF IInv, RowsOK
  <2>7. CommentTree'
    <3>1. There' = There
      BY <2>5 DEF There
    <3>2. \A c \in Comments : c \in Comments' /\ comments'[c] = comments[c]
      BY <2>3 DEF Comments
    <3>3. \A c \in Comments' : c \in Comments \/ c = Len(comments) + 1
      BY <2>3 DEF Comments
    <3>4. call[h].parent # 0 =>
             call[h].parent \in Comments' /\ call[h].parent < Len(comments) + 1
      BY <1>4, <2>1, <3>2 DEF Comments
    <3> QED
      BY <1>4, <2>2, <2>3, <3>1, <3>2, <3>3, <3>4 DEF IInv, CommentTree
  <2>8. OriginalsAreRows' /\ ApartIsApart'
    BY <2>5 DEF IInv, OriginalsAreRows, ApartIsApart
  <2>9. NoticesHaveShouts' /\ NoticesRespectBlocks'
    BY <2>5 DEF IInv, NoticesHaveShouts, NoticesRespectBlocks
  <2> QED
    BY <2>4, <2>6, <2>7, <2>8, <2>9 DEF IInv
<1> QED
  BY <1>3, <1>4 DEF InsertComment

LEMMA TellAuthorKeeps ==
    ASSUME IInv, NEW h \in Handlers, TellAuthor(h)
    PROVE  IInv'
<1> DEFINE v == IF call[h].parent # 0
                THEN {comments[c].author : c \in {call[h].parent} \cap Comments}
                ELSE {shouts[n].author : n \in {call[h].shout} \cap There}
           new == {[to |-> u, shout |-> call[h].shout, kind |-> "comment"] :
                       u \in v \ {call[h].by}}
<1>1. /\ Known(shouts, apart, call[h]) /\ call[h] \in Call
      /\ call[h].todo # <<>> /\ Head(call[h].todo) = "tell"
  BY CallAt DEF TellAuthor, At
<1>2. call[h].shout \in DOMAIN shouts
  BY <1>1 DEF Known, Starts
<1>3. v \subseteq Users
  BY RowsAreRows DEF IInv, Comments, There, Shout, Comment
<1> HIDE DEF v
<1>4. /\ new \subseteq Notice
      /\ \A x \in new : x.shout \in DOMAIN shouts /\ x.kind = "comment"
  BY <1>2, <1>3, RowsAreRows DEF IInv, Notice
<1>5. /\ notices' = notices \cup new /\ End(h)
      /\ UNCHANGED <<shouts, people, reactions, apart, bounds>>
  BY DEF TellAuthor, v
<1> HIDE DEF new
<1>6. CallsKnow' /\ call' \in [Handlers -> Call]
  BY <1>5, EndKeeps, SettledIfSame
<1>7. UNCHANGED events /\ failures' \in 0..MaxFailures
  BY <1>5 DEF bounds, IInv, RowsOK
<1>8. /\ notices' \subseteq Notice /\ \A x \in notices' : x.shout \in DOMAIN shouts
      /\ \A x \in notices' \ notices : x.kind # "nearby"
  BY <1>4, <1>5 DEF IInv, RowsOK, NoticesHaveShouts
<1> QED
  BY <1>5, <1>6, <1>7, <1>8, StepKeeps

---------------------------------------------------------------------------
(* Comments that go, likes, blocks *)

LEMMA WithoutIs ==
    ASSUME RowsOK, NEW gone
    PROVE  /\ Without(gone) \in Seq(Comment) /\ Len(Without(gone)) = Len(comments)
           /\ DOMAIN Without(gone) = DOMAIN comments
           /\ \A c \in DOMAIN comments :
                 /\ Without(gone)[c].shout = comments[c].shout
                 /\ Without(gone)[c].live = (comments[c].live /\ c \notin gone)
                 /\ Without(gone)[c].parent =
                        IF comments[c].parent \in gone THEN 0 ELSE comments[c].parent
<1>1. DOMAIN comments = 1..Len(comments) /\ Len(comments) \in Nat
  BY RowsAreRows
<1>2. ASSUME NEW c \in DOMAIN comments
      PROVE  /\ Without(gone)[c] \in Comment
             /\ Without(gone)[c].shout = comments[c].shout
             /\ Without(gone)[c].live = (comments[c].live /\ c \notin gone)
             /\ Without(gone)[c].parent =
                    IF comments[c].parent \in gone THEN 0 ELSE comments[c].parent
  <2> DEFINE l == comments[c].live /\ c \notin gone
             p == IF comments[c].parent \in gone THEN 0 ELSE comments[c].parent
  <2>1. comments[c] \in Comment
    BY RowsAreRows
  <2>2. l \in BOOLEAN /\ p \in 0..MaxComments
    BY <2>1, BoundsAreNumbers DEF Comment
  <2>3. Without(gone)[c] = [comments[c] EXCEPT !.live = @ /\ c \notin gone,
            !.parent = IF comments[c].parent \in gone THEN 0 ELSE @]
    BY DEF Without
  <2>4. Without(gone)[c] = [comments[c] EXCEPT !.live = l, !.parent = p]
    BY <2>1, <2>3 DEF Comment
  <2> HIDE DEF l, p
  <2>5. /\ Without(gone)[c] \in Comment /\ Without(gone)[c].shout = comments[c].shout
        /\ Without(gone)[c].live = l /\ Without(gone)[c].parent = p
    BY <2>1, <2>2, <2>4 DEF Comment
  <2> QED
    BY <2>5 DEF l, p
<1>3. Without(gone) \in [1..Len(comments) -> Comment]
  BY <1>1, <1>2 DEF Without
<1>4. Without(gone) \in Seq(Comment) /\ Len(Without(gone)) = Len(comments)
      /\ DOMAIN Without(gone) = DOMAIN comments
  BY <1>1, <1>3
<1> QED
  BY <1>2, <1>4

(* Replies let go of a comment before it goes.                             *)
LEMMA TreeStays ==
    ASSUME IInv, NEW gone, comments' = Without(gone),
           There \ There' \subseteq {n \in There : \A c \in Comments :
                                        comments[c].shout = n => c \in gone}
    PROVE  CommentTree'
<1>1. /\ DOMAIN comments' = DOMAIN comments
      /\ \A c \in DOMAIN comments :
            /\ comments'[c].shout = comments[c].shout
            /\ comments'[c].live = (comments[c].live /\ c \notin gone)
            /\ comments'[c].parent =
                   IF comments[c].parent \in gone THEN 0 ELSE comments[c].parent
  BY WithoutIs DEF IInv
<1>2. \A c \in DOMAIN comments : c \in Comments' <=> c \in Comments \ gone
  BY <1>1 DEF Comments
<1>3. Comments' \subseteq Comments
  BY <1>1, <1>2 DEF Comments
<1> QED
  BY <1>1, <1>2, <1>3 DEF IInv, CommentTree, Comments

LEMMA DeleteCommentKeeps ==
    ASSUME IInv, NEW c \in DOMAIN comments, NEW u \in Users, DeleteComment(c, u)
    PROVE  IInv'
<1>1. /\ comments' = Without({c}) /\ commentLikes' = {l \in commentLikes : l[2] # c}
      /\ UNCHANGED <<shouts, place, banned, blocks, notices, likes, call, apart>>
      /\ events' \in 0..MaxEvents /\ failures' \in 0..MaxFailures
  BY BoundsAreNumbers DEF DeleteComment, people, Event, IInv, RowsOK
<1>2. /\ comments' \in Seq(Comment) /\ Len(comments') = Len(comments)
      /\ DOMAIN comments' = DOMAIN comments
  BY <1>1, WithoutIs DEF IInv
<1>3. RowsOK'
  BY <1>1, <1>2 DEF IInv, RowsOK
<1>4. CommentTree'
  BY <1>1, TreeStays DEF There
<1>5. CallsKnow'
  BY <1>1, SettledIfSame, CallsStay DEF IInv
<1>6. OriginalsAreRows' /\ ApartIsApart' /\ NoticesHaveShouts' /\ NoticesRespectBlocks'
  BY <1>1 DEF IInv, OriginalsAreRows, ApartIsApart, NoticesHaveShouts, NoticesRespectBlocks
<1> QED
  BY <1>3, <1>4, <1>5, <1>6 DEF IInv

(* Likes, places, bans and deleted notices.                                *)
LEMMA PeopleKeep ==
    ASSUME IInv, UNCHANGED <<shouts, comments, call, apart, blocks>>, Event,
           place' \in [Users -> Places \cup {None}], banned' \subseteq Users,
           likes' \subseteq Users \X DOMAIN shouts,
           commentLikes' \subseteq Users \X DOMAIN comments,
           notices' \subseteq notices
    PROVE  IInv'
<1>1. CallsKnow' /\ call' \in [Handlers -> Call]
  BY SettledIfSame, CallsStay DEF IInv, RowsOK
<1>2. events' \in 0..MaxEvents /\ failures' \in 0..MaxFailures
  BY BoundsAreNumbers DEF Event, IInv, RowsOK
<1> QED
  BY <1>1, <1>2, RestStays DEF IInv, RowsOK, NoticesHaveShouts

LEMMA LikesKeep ==
    ASSUME IInv, NEW u \in Users,
           \/ \E n \in DOMAIN shouts : Like(n, u) \/ Unlike(n, u)
           \/ \E c \in DOMAIN comments : LikeComment(c, u) \/ UnlikeComment(c, u)
    PROVE  IInv'
<1>1. /\ UNCHANGED <<shouts, comments, call, apart, blocks, place, banned, notices>>
      /\ Event
  BY DEF Like, Unlike, LikeComment, UnlikeComment, people
<1>2. likes' \subseteq Users \X DOMAIN shouts /\ commentLikes' \subseteq Users \X DOMAIN comments
  <2>1. likes \subseteq Users \X DOMAIN shouts /\ commentLikes \subseteq Users \X DOMAIN comments
    BY DEF IInv, RowsOK
  <2>2. CASE \E n \in DOMAIN shouts : Like(n, u) \/ Unlike(n, u)
    BY <2>1, <2>2 DEF Like, Unlike
  <2>3. CASE \E c \in DOMAIN comments : LikeComment(c, u) \/ UnlikeComment(c, u)
    BY <2>1, <2>3 DEF LikeComment, UnlikeComment
  <2> QED
    BY <2>2, <2>3
<1> QED
  BY <1>1, <1>2, PeopleKeep DEF IInv, RowsOK

LEMMA OthersKeep ==
    ASSUME IInv,
           \/ \E u \in Users : Ban(u) \/ \E p \in Places \cup {None} : MoveTo(u, p)
           \/ \E x \in notices : DeleteNotice(x)
    PROVE  IInv'
<1>1. /\ UNCHANGED <<shouts, comments, call, apart, blocks, likes, commentLikes>>
      /\ Event /\ notices' \subseteq notices
  BY DEF Ban, MoveTo, DeleteNotice, people, reactions
<1>2. place' \in [Users -> Places \cup {None}] /\ banned' \subseteq Users
  BY DEF Ban, MoveTo, DeleteNotice, people, IInv, RowsOK
<1> QED
  BY <1>1, <1>2, PeopleKeep DEF IInv, RowsOK

LEMMA BlocksKeep ==
    ASSUME IInv, NEW u \in Users, NEW v \in Users, BlockUser(u, v) \/ UnblockUser(u, v)
    PROVE  IInv'
<1>1. /\ UNCHANGED <<shouts, place, banned, notices, likes, comments, commentLikes, call>>
      /\ blocks' \subseteq Users \X Users /\ StayApart
      /\ events' \in 0..MaxEvents /\ failures' \in 0..MaxFailures
  BY BoundsAreNumbers DEF BlockUser, UnblockUser, reactions, Event, IInv, RowsOK
<1>2. /\ apart' \in [1..MaxShouts -> SUBSET Users]
      /\ \A n \in 1..MaxShouts : apart'[n] \subseteq apart[n]
      /\ \A n \in DOMAIN shouts : apart'[n] \subseteq Apart(shouts', blocks', n)
  BY <1>1, RowsAreRows DEF StayApart, IInv, RowsOK
<1>3. Settled
  BY <1>1, <1>2, RowsAreRows DEF IInv, Settled
<1>4. CallsKnow'
  BY <1>1, <1>3, CallsStay DEF IInv
<1>5. RowsOK'
  BY <1>1, <1>2 DEF IInv, RowsOK
<1>6. OriginalsAreRows' /\ ApartIsApart' /\ NoticesHaveShouts'
  BY <1>1, <1>2 DEF IInv, OriginalsAreRows, ApartIsApart, NoticesHaveShouts
<1>7. NoticesRespectBlocks'
  BY <1>1, <1>2, RowsAreRows DEF IInv, NoticesHaveShouts, NoticesRespectBlocks
<1>8. CommentTree'
  BY <1>1 DEF IInv, CommentTree, Comments, There
<1> QED
  BY <1>4, <1>5, <1>6, <1>7, <1>8 DEF IInv

---------------------------------------------------------------------------
(* Shouts that change or go *)

(* An edit or a moderator touches neither author nor original.             *)
LEMMA EditKeeps ==
    ASSUME IInv,
           UNCHANGED <<place, banned, blocks, notices, likes, comments, commentLikes,
                       call, apart>>, Event,
           shouts' \in Seq(Shout), DOMAIN shouts' = DOMAIN shouts,
           Len(shouts') = Len(shouts),
           \A n \in DOMAIN shouts :
              /\ shouts'[n].author = shouts[n].author
              /\ shouts'[n].original = shouts[n].original
              /\ shouts'[n].state = "erased" <=> shouts[n].state = "erased"
    PROVE  IInv'
<1>1. events' \in 0..MaxEvents /\ failures' \in 0..MaxFailures
  BY BoundsAreNumbers DEF Event, IInv, RowsOK
<1>2. RowsOK'
  BY <1>1 DEF IInv, RowsOK
<1>3. \A n \in DOMAIN shouts : AuthorsIn(shouts', n) = AuthorsIn(shouts, n)
  BY DEF IInv, OriginalsAreRows, AuthorsIn
<1>4. Settled
  BY <1>3 DEF Settled
<1>5. CallsKnow'
  BY <1>4, CallsStay DEF IInv
<1>6. OriginalsAreRows' /\ ApartIsApart'
  BY <1>3 DEF IInv, OriginalsAreRows, ApartIsApart, Apart
<1>7. NoticesHaveShouts' /\ NoticesRespectBlocks'
  BY DEF IInv, NoticesHaveShouts, NoticesRespectBlocks
<1>8. CommentTree'
  <2>1. There' = There
    BY DEF There
  <2> QED
    BY <2>1 DEF IInv, CommentTree, Comments
<1> QED
  BY <1>2, <1>5, <1>6, <1>7, <1>8 DEF IInv

LEMMA UpdateKeeps ==
    ASSUME IInv, NEW n \in DOMAIN shouts,
           \/ Hide(n)
           \/ \E u \in Users, p \in Places \cup {None} : UpdatePost(n, u, p)
    PROVE  IInv'
<1>1. /\ shouts \in Seq(Shout) /\ DOMAIN shouts = 1..Len(shouts)
      /\ n \in 1..Len(shouts) /\ shouts[n] \in Shout
  BY RowsAreRows DEF IInv, RowsOK
<1>2. PICK row \in Shout :
         /\ shouts' = [shouts EXCEPT ![n] = row]
         /\ row.author = shouts[n].author /\ row.original = shouts[n].original
         /\ row.state = "erased" <=> shouts[n].state = "erased"
  <2>1. CASE Hide(n)
    <3>1. /\ [shouts[n] EXCEPT !.state = "hidden"] \in Shout
          /\ [shouts[n] EXCEPT !.state = "hidden"].state = "hidden"
          /\ shouts[n].state = "published"
      BY <1>1, <2>1 DEF Shout, Hide, Published
    <3> QED
      BY <1>1, <2>1, <3>1 DEF Hide, Shout
  <2>2. ASSUME NEW u \in Users, NEW p \in Places \cup {None}, UpdatePost(n, u, p)
        PROVE  \E row \in Shout :
                 /\ shouts' = [shouts EXCEPT ![n] = row]
                 /\ row.author = shouts[n].author /\ row.original = shouts[n].original
                 /\ row.state = "erased" <=> shouts[n].state = "erased"
    <3>1. [shouts[n] EXCEPT !.place = p] \in Shout
      BY <1>1 DEF Shout
    <3> QED
      BY <1>1, <2>2, <3>1 DEF UpdatePost, Shout
  <2> QED
    BY <2>1, <2>2
<1>3. /\ shouts' \in Seq(Shout) /\ Len(shouts') = Len(shouts)
      /\ \A m \in 1..Len(shouts) : shouts'[m] = IF m = n THEN row ELSE shouts[m]
  BY <1>1, <1>2, ExceptSeq
<1>4. DOMAIN shouts' = DOMAIN shouts
  BY <1>1, <1>2
<1>5. /\ UNCHANGED <<place, banned, blocks, notices, likes, comments, commentLikes,
                     call, apart>> /\ Event
  BY DEF Hide, UpdatePost, people, reactions
<1> QED
  BY <1>1, <1>2, <1>3, <1>4, <1>5, EditKeeps

LEMMA DeletePostKeeps ==
    ASSUME IInv, NEW n \in DOMAIN shouts, NEW u \in Users, DeletePost(n, u)
    PROVE  IInv'
<1> DEFINE gone == {c \in Comments : comments[c].shout = n}
<1>1. /\ UNCHANGED <<place, banned, blocks, notices, call>> /\ StayApart
      /\ comments' = Without(gone)
      /\ commentLikes' = {l \in commentLikes : l[2] \notin gone}
      /\ likes' = {l \in likes : l[2] # n}
      /\ events' \in 0..MaxEvents /\ failures' \in 0..MaxFailures
  <2>1. /\ UNCHANGED <<people, notices, call>> /\ StayApart /\ Event
        /\ comments' = Without(gone)
        /\ commentLikes' = {l \in commentLikes : l[2] \notin gone}
        /\ likes' = {l \in likes : l[2] # n}
    BY DEF DeletePost
  <2>2. events' \in 0..MaxEvents /\ failures' \in 0..MaxFailures
    BY <2>1, BoundsAreNumbers DEF Event, IInv, RowsOK
  <2> QED
    BY <2>1, <2>2 DEF people
<1>2. /\ DOMAIN shouts = 1..Len(shouts) /\ Len(shouts) \in Nat
      /\ \A m \in DOMAIN shouts : shouts[m] \in Shout /\ m \in 1..MaxShouts
  BY RowsAreRows DEF IInv
<1>3. \A m \in DOMAIN shouts :
         /\ shouts'[m] \in Shout
         /\ shouts'[m].author = shouts[m].author
         /\ shouts'[m].original = IF shouts[m].original = n THEN 0 ELSE shouts[m].original
         /\ shouts'[m].state = IF m = n THEN "erased" ELSE shouts[m].state
  <2> SUFFICES ASSUME NEW m \in DOMAIN shouts
               PROVE  /\ shouts'[m] \in Shout
                      /\ shouts'[m].author = shouts[m].author
                      /\ shouts'[m].original =
                            IF shouts[m].original = n THEN 0 ELSE shouts[m].original
                      /\ shouts'[m].state = IF m = n THEN "erased" ELSE shouts[m].state
    OBVIOUS
  <2> DEFINE s == IF m = n THEN "erased" ELSE shouts[m].state
             o == IF shouts[m].original = n THEN 0 ELSE shouts[m].original
  <2>1. shouts'[m] = [shouts[m] EXCEPT !.state = IF m = n THEN "erased" ELSE @,
                                       !.original = IF @ = n THEN 0 ELSE @]
    BY DEF DeletePost
  <2>2. shouts'[m] = [shouts[m] EXCEPT !.state = s, !.original = o]
    BY <1>2, <2>1 DEF Shout
  <2>3. s \in {"published", "hidden", "erased"} /\ o \in 0..MaxShouts
    BY <1>2, BoundsAreNumbers DEF Shout
  <2> HIDE DEF s, o
  <2>4. /\ shouts'[m] \in Shout /\ shouts'[m].author = shouts[m].author
        /\ shouts'[m].original = o /\ shouts'[m].state = s
    BY <1>2, <2>2, <2>3 DEF Shout
  <2> QED
    BY <2>4 DEF s, o
<1>4. /\ shouts' \in Seq(Shout) /\ DOMAIN shouts' = DOMAIN shouts
      /\ Len(shouts') = Len(shouts)
  <2>1. DOMAIN shouts' = DOMAIN shouts
    BY DEF DeletePost
  <2>2. shouts' \in [1..Len(shouts) -> Shout]
    BY <1>2, <1>3, <2>1 DEF DeletePost
  <2> QED
    BY <1>2, <2>1, <2>2
<1>5. \A m \in DOMAIN shouts : AuthorsIn(shouts', m) \subseteq AuthorsIn(shouts, m)
  BY <1>3, <1>4 DEF IInv, OriginalsAreRows, AuthorsIn
<1>6. /\ apart' \in [1..MaxShouts -> SUBSET Users]
      /\ \A m \in 1..MaxShouts : apart'[m] \subseteq apart[m]
      /\ \A m \in DOMAIN shouts : apart'[m] \subseteq Apart(shouts', blocks', m)
  BY <1>1, <1>2 DEF StayApart, IInv, RowsOK
<1>7. Settled
  BY <1>2, <1>3, <1>4, <1>5, <1>6 DEF Settled
<1>8. CallsKnow'
  BY <1>1, <1>7, CallsStay DEF IInv
<1>9. /\ comments' \in Seq(Comment) /\ Len(comments') = Len(comments)
      /\ DOMAIN comments' = DOMAIN comments
  BY <1>1, WithoutIs DEF IInv
<1>10. RowsOK'
  BY <1>1, <1>4, <1>6, <1>9 DEF IInv, RowsOK
<1>11. CommentTree'
  <2>1. There \ There' \subseteq {n}
    BY <1>3, <1>4 DEF There
  <2> QED
    BY <1>1, <2>1, TreeStays
<1>12. OriginalsAreRows' /\ ApartIsApart'
  BY <1>1, <1>3, <1>4, <1>6 DEF IInv, OriginalsAreRows, ApartIsApart
<1>13. NoticesHaveShouts' /\ NoticesRespectBlocks'
  BY <1>1, <1>2, <1>4, <1>6 DEF IInv, NoticesHaveShouts, NoticesRespectBlocks
<1> QED
  BY <1>8, <1>10, <1>11, <1>12, <1>13 DEF IInv

---------------------------------------------------------------------------
LEMMA NextKeeps ==
    ASSUME IInv, [Next]_vars
    PROVE  IInv'
<1>1. CASE PostRequests
  BY <1>1, PostKeeps
<1>2. CASE OwnerRequests
  BY <1>2, DeletePostKeeps, UpdateKeeps DEF OwnerRequests
<1>3. CASE LikeRequests
  BY <1>3, LikesKeep DEF LikeRequests
<1>4. CASE CommentRequests
  BY <1>4, PostCommentKeeps, DeleteCommentKeeps, LikesKeep DEF CommentRequests
<1>5. CASE BlockRequests
  BY <1>5, BlocksKeep DEF BlockRequests
<1>6. ASSUME NEW h \in Handlers,
             \/ Insert(h) \/ StoreMedia(h) \/ TellOriginalAuthor(h)
             \/ SendNearbyNotifications(h)
             \/ InsertComment(h) \/ TellAuthor(h) \/ Fail(h)
      PROVE  IInv'
  BY <1>6, InsertKeeps, StoreMediaKeeps, TellOriginalAuthorKeeps, ReadAuthorKeeps,
     ReadOriginalKeeps, ExcludeKeeps, FindAudienceKeeps, NotifyKeeps,
     InsertCommentKeeps, TellAuthorKeeps, FailKeeps DEF SendNearbyNotifications
<1>7. ASSUME NEW n \in DOMAIN shouts, Hide(n)
      PROVE  IInv'
  BY <1>7, UpdateKeeps
<1>8. CASE \/ \E u \in Users : Ban(u) \/ \E p \in Places \cup {None} : MoveTo(u, p)
           \/ \E x \in notices : DeleteNotice(x)
  BY <1>8, OthersKeep
<1>9. ASSUME NEW u \in Users, ReadFirst(u) \/ ReadNext(u)
      PROVE  IInv'
  <2>1. UNCHANGED <<shouts, people, notices, reactions, call, apart>> /\ Event
    BY <1>9 DEF ReadFirst, ReadNext
  <2> QED
    BY <2>1, PeopleKeep DEF people, reactions, IInv, RowsOK, NoticesHaveShouts,
       NoticesRespectBlocks
<1>10. CASE UNCHANGED vars
  <2>1. CallsKnow'
    BY <1>10, SettledIfSame, CallsStay DEF IInv, vars
  <2>2. UNCHANGED <<shouts, people, notices, reactions, call, apart, bounds>>
    BY <1>10 DEF vars
  <2> QED
    BY <2>1, <2>2, ReadStepKeeps DEF IInv, RowsOK
<1> QED
  BY <1>1, <1>2, <1>3, <1>4, <1>5, <1>6, <1>7, <1>8, <1>9, <1>10 DEF Next, Step

(* What a call that posts or comments relies on when it resumes.           *)
THEOREM Invariant == Spec => []IInv
BY InitInv, NextKeeps, PTL DEF Spec

---------------------------------------------------------------------------
(* The reader *)

Undisturbed == \A u \in Users : reading.by = u /\ ~reading.disturbed => ~Overflows(u)

ReadingInv ==
    /\ reading \in Reading /\ reading.page <= events
    /\ \A u \in Users : reading.by = u => reading.steady \subseteq Feed(u)
    /\ Undisturbed
    /\ PagesSkipNothing

(* What the feed lists are rows, and finitely many; the rank of one is a   *)
(* number, and grows with what is listed.                                  *)
LEMMA ListsAreFinite ==
    ASSUME RowsOK, NEW u \in Users
    PROVE  /\ Listed(u) \subseteq 1..MaxShouts /\ IsFiniteSet(Listed(u))
           /\ Feed(u) \subseteq Listed(u)
<1>1. DOMAIN shouts \subseteq 1..MaxShouts
  BY RowsAreRows
<1>2. Listed(u) \subseteq 1..MaxShouts /\ Feed(u) \subseteq Listed(u)
  BY <1>1 DEF Listed, Feed, Published, There
<1>3. IsFiniteSet(1..MaxShouts)
  BY FS_Interval, BoundsAreNumbers
<1> QED
  BY <1>2, <1>3, FS_Subset

LEMMA FewAreFinite ==
    ASSUME NEW rows, rows \subseteq 1..MaxShouts
    PROVE  IsFiniteSet(rows)
<1>1. IsFiniteSet(1..MaxShouts)
  BY FS_Interval, BoundsAreNumbers
<1> QED
  BY <1>1, FS_Subset

LEMMA RanksGrow ==
    ASSUME NEW large, IsFiniteSet(large), NEW small \in SUBSET large, NEW n
    PROVE  /\ Rank(n, small) \in Nat /\ Rank(n, large) \in Nat
           /\ Rank(n, small) <= Rank(n, large)
<1> DEFINE S == {m \in small : m >= n}
           L == {m \in large : m >= n}
<1>1. S \subseteq L /\ IsFiniteSet(L)
  BY FS_Subset
<1>2. /\ Cardinality(S) \in Nat /\ Cardinality(L) \in Nat
      /\ Cardinality(S) <= Cardinality(L)
  BY <1>1, FS_Subset, FS_CardinalityType
<1> QED
  BY <1>2 DEF Rank

LEMMA RanksStart ==
    ASSUME NEW rows, IsFiniteSet(rows), rows \subseteq Nat, NEW n \in rows
    PROVE  Rank(n, rows) \in Nat \ {0}
<1> DEFINE S == {m \in rows : m >= n}
<1>1. IsFiniteSet(S) /\ n \in S
  BY FS_Subset
<1>2. Cardinality(S) \in Nat /\ Cardinality(S) # 0
  BY <1>1, FS_CardinalityType, FS_EmptySet
<1> QED
  BY <1>2 DEF Rank

LEMMA PagesAreRows ==
    ASSUME RowsOK, NEW u \in Users, NEW k, NEW rows \in Found(u)
    PROVE  Page(u, k, rows) \subseteq 1..MaxShouts
<1>1. rows \subseteq Listed(u)
  BY DEF Found
<1> QED
  BY <1>1, ListsAreFinite DEF Page

LEMMA EventsGrow ==
    ASSUME RowsOK, Step
    PROVE  events <= events'
<1>1. events \in Nat
  BY DEF RowsOK
<1> SUFFICES Event \/ events' = events
  BY <1>1 DEF Event
<1>2. PostRequests \/ OwnerRequests => Event
  BY DEF PostRequests, OwnerRequests, CreatePost, Share, Accept, DeletePost, UpdatePost
<1>3. LikeRequests \/ CommentRequests \/ BlockRequests => Event
  BY DEF LikeRequests, CommentRequests, BlockRequests, Like, Unlike, PostComment, Accept,
         DeleteComment, LikeComment, UnlikeComment, BlockUser, UnblockUser
<1>4. ASSUME NEW h \in Handlers,
             Insert(h) \/ StoreMedia(h) \/ TellOriginalAuthor(h) \/ InsertComment(h)
      PROVE  events' = events
  BY <1>4 DEF Insert, StoreMedia, TellOriginalAuthor, InsertComment, bounds
<1>5. ASSUME NEW h \in Handlers,
             SendNearbyNotifications(h) \/ TellAuthor(h) \/ Fail(h)
      PROVE  events' = events
  BY <1>5 DEF SendNearbyNotifications, ReadAuthor, ReadOriginal, Exclude, FindAudience,
              Notify, TellAuthor, Fail, bounds
<1>6. ASSUME \/ \E n \in DOMAIN shouts : Hide(n)
             \/ \E u \in Users : Ban(u) \/ \E p \in Places \cup {None} : MoveTo(u, p)
             \/ \E x \in notices : DeleteNotice(x)
      PROVE  Event
  BY <1>6 DEF Hide, Ban, MoveTo, DeleteNotice
<1> QED
  BY <1>2, <1>3, <1>4, <1>5, <1>6 DEF Step

LEMMA ReadingInit == Init => ReadingInv
BY BoundsAreNumbers, PlacesAreKnown
   DEF Init, ReadingInv, Reading, NoReading, PagesSkipNothing, Undisturbed

LEMMA ReadFirstKeeps ==
    ASSUME RowsOK, ReadingInv, NEW u \in Users, ReadFirst(u)
    PROVE  ReadingInv'
<1>1. PICK rows \in Found(u) :
        reading' = [ by |-> u, page |-> 1, seen |-> Page(u, 1, rows),
                     steady |-> Feed(u), disturbed |-> Overflows(u) ]
  BY DEF ReadFirst
<1>2. /\ UNCHANGED <<shouts, place, banned, blocks, notices>>
      /\ events' = events + 1 /\ events < MaxEvents /\ events \in Nat
  BY DEF ReadFirst, people, Event, RowsOK
<1>3. Feed(u)' = Feed(u) /\ Listed(u)' = Listed(u)
  BY <1>2 DEF Feed, Listed, IsHidden, HiddenUsers, AuthorsOf, Published, There, Notified
<1>4. /\ Page(u, 1, rows) \subseteq 1..MaxShouts /\ Feed(u) \subseteq 1..MaxShouts
      /\ Overflows(u) \in BOOLEAN
  BY PagesAreRows, ListsAreFinite DEF Overflows
<1>5. reading' \in Reading /\ reading'.page <= events'
  BY <1>1, <1>2, <1>4, BoundsAreNumbers DEF Reading
<1>6. PagesSkipNothing'
  <2> SUFFICES ASSUME ~Overflows(u), NEW n \in Feed(u) \ Page(u, 1, rows)
               PROVE  Rank(n, Listed(u)) > 1
    BY <1>1, <1>3 DEF PagesSkipNothing
  <2>1. rows = Listed(u) /\ n \in Listed(u) /\ ~IsHidden(u, n)
    BY DEF Found, Feed
  <2>2. Rank(n, Listed(u)) # 1
    BY <2>1 DEF Page
  <2>3. Rank(n, Listed(u)) \in Nat \ {0}
    BY <2>1, ListsAreFinite, RanksStart
  <2> QED
    BY <2>2, <2>3
<1>7. \A v \in Users : reading'.by = v => reading'.steady \subseteq Feed(v)'
  BY <1>1, <1>3
<1>8. Overflows(u)' = Overflows(u)
  BY <1>2 DEF Overflows, Candidates, Published, There, Notified
<1>9. Undisturbed'
  BY <1>1, <1>8 DEF Undisturbed
<1> QED
  BY <1>5, <1>6, <1>7, <1>9 DEF ReadingInv

LEMMA ReadNextKeeps ==
    ASSUME RowsOK, ReadingInv, NEW u \in Users, ReadNext(u)
    PROVE  ReadingInv'
<1> DEFINE k == reading.page + 1
<1>1. PICK rows \in Found(u) :
        reading' = [reading EXCEPT !.page = @ + 1, !.seen = @ \cup Page(u, k, rows)]
  BY DEF ReadNext
<1>2. /\ UNCHANGED <<shouts, place, banned, blocks, notices>> /\ reading.by = u
      /\ events' = events + 1 /\ events < MaxEvents /\ events \in Nat
  BY DEF ReadNext, people, Event, RowsOK
<1>3. Feed(u)' = Feed(u) /\ Listed(u)' = Listed(u)
  BY <1>2 DEF Feed, Listed, IsHidden, HiddenUsers, AuthorsOf, Published, There, Notified
<1>4. Page(u, k, rows) \subseteq 1..MaxShouts
  BY PagesAreRows
<1>5. reading \in Reading /\ reading.page \in Nat /\ reading.page <= events
  BY DEF ReadingInv, Reading
<1>6. /\ reading'.by = u /\ reading'.page = k
      /\ reading'.seen = reading.seen \cup Page(u, k, rows)
      /\ reading'.steady = reading.steady /\ reading'.disturbed = reading.disturbed
      /\ reading' \in Reading
  <2>1. k \in 0..MaxEvents
    BY <1>2, <1>5, BoundsAreNumbers
  <2> DEFINE s == reading.seen \cup Page(u, k, rows)
  <2>2. s \in SUBSET (1..MaxShouts)
    BY <1>4, <1>5 DEF Reading
  <2>3. reading' = [reading EXCEPT !.page = k, !.seen = s]
    BY <1>1, <1>5 DEF Reading
  <2> HIDE DEF s, k
  <2>4. /\ reading'.by = u /\ reading'.page = k /\ reading'.seen = s
        /\ reading'.steady = reading.steady /\ reading'.disturbed = reading.disturbed
    BY <1>2, <1>5, <2>3 DEF Reading
  <2>5. reading' \in Reading
    BY <1>5, <2>1, <2>2, <2>3 DEF Reading
  <2> QED
    BY <2>4, <2>5 DEF s
<1>7. reading'.page <= events'
  BY <1>2, <1>5, <1>6
<1>8. PagesSkipNothing'
  <2> SUFFICES ASSUME ~reading.disturbed,
                      NEW n \in reading.steady \ (reading.seen \cup Page(u, k, rows))
               PROVE  Rank(n, Listed(u)) > k
    BY <1>3, <1>6 DEF PagesSkipNothing
  <2>1. n \in Listed(u) /\ ~IsHidden(u, n)
    BY <1>2 DEF ReadingInv, Feed
  <2>2. Rank(n, Listed(u)) > reading.page
    BY <1>2 DEF ReadingInv, PagesSkipNothing
  <2>3. ~Overflows(u)
    BY <1>2 DEF ReadingInv, Undisturbed
  <2>4. rows = Listed(u)
    BY <2>3 DEF Found
  <2>5. Rank(n, Listed(u)) # k
    BY <2>1, <2>4 DEF Page
  <2>6. Rank(n, Listed(u)) \in Nat
    BY <2>1, ListsAreFinite, RanksStart
  <2> QED
    BY <1>5, <2>2, <2>5, <2>6
<1>9. \A v \in Users : reading'.by = v => reading'.steady \subseteq Feed(v)'
  BY <1>2, <1>3, <1>6 DEF ReadingInv
<1>10. Overflows(u)' = Overflows(u)
  BY <1>2 DEF Overflows, Candidates, Published, There, Notified
<1>11. Undisturbed'
  BY <1>2, <1>6, <1>10 DEF Undisturbed, ReadingInv
<1> QED
  BY <1>6, <1>7, <1>8, <1>9, <1>11 DEF ReadingInv

(* Whatever else is done: what is still listed has not moved forward.      *)
LEMMA WatchKeeps ==
    ASSUME RowsOK, RowsOK', ReadingInv, Watch, events <= events'
    PROVE  ReadingInv'
<1>1. CASE reading.by = None
  <2>1. reading' = reading
    BY <1>1 DEF Watch
  <2> QED
    BY <1>1, <2>1, PlacesAreKnown
       DEF ReadingInv, PagesSkipNothing, RowsOK, Reading, Undisturbed
<1>2. CASE reading.by # None
  <2>1. PICK u \in Users :
          /\ u = reading.by
          /\ reading' = [reading EXCEPT
                !.steady = @ \cap Feed(u)',
                !.disturbed = @ \/ ~(Listed(u) \subseteq Listed(u)') \/ Overflows(u)']
    BY <1>2 DEF Watch
  <2>2. reading \in Reading
    BY DEF ReadingInv
  <2>3. /\ reading'.by = u /\ reading'.page = reading.page /\ reading'.seen = reading.seen
        /\ reading'.steady = reading.steady \cap Feed(u)'
        /\ reading'.disturbed =
              (reading.disturbed \/ ~(Listed(u) \subseteq Listed(u)') \/ Overflows(u)')
        /\ reading' \in Reading
    BY <2>1, <2>2 DEF Reading
  <2>4. reading'.page <= events'
    BY <2>2, <2>3 DEF ReadingInv, Reading, RowsOK
  <2>5. PagesSkipNothing'
    <3> SUFFICES ASSUME ~reading.disturbed, Listed(u) \subseteq Listed(u)',
                        NEW n \in reading.steady \ reading.seen
                 PROVE  Rank(n, Listed(u)') > reading.page
      BY <2>3 DEF PagesSkipNothing, Rank
    <3>1. IsFiniteSet(Listed(u)')
      <4>1. DOMAIN shouts' \subseteq 1..MaxShouts
        BY BoundsAreNumbers DEF RowsOK
      <4>2. Listed(u)' \subseteq 1..MaxShouts
        BY <4>1 DEF Listed, Published, There
      <4> QED
        BY <4>2, FewAreFinite
    <3>2. Rank(n, Listed(u)) > reading.page
      BY <2>1 DEF ReadingInv, PagesSkipNothing
    <3> QED
      BY <2>2, <3>1, <3>2, RanksGrow DEF Reading
  <2>6. \A v \in Users : reading'.by = v => reading'.steady \subseteq Feed(v)'
    BY <2>3
  <2>7. Undisturbed'
    BY <2>3 DEF Undisturbed
  <2> QED
    BY <2>3, <2>4, <2>5, <2>6, <2>7 DEF ReadingInv
<1> QED
  BY <1>1, <1>2

LEMMA ReadingNext ==
    ASSUME IInv, IInv', ReadingInv, [Next]_vars
    PROVE  ReadingInv'
<1>1. CASE Step /\ Watch
  <2>1. events <= events'
    BY <1>1, EventsGrow DEF IInv
  <2> QED
    BY <1>1, <2>1, WatchKeeps DEF IInv
<1>2. CASE UNCHANGED vars
  <2>1. UNCHANGED <<shouts, place, banned, blocks, notices, reading, events>>
    BY <1>2 DEF vars, people, bounds
  <2>2. \A u \in Users : /\ Feed(u)' = Feed(u) /\ Listed(u)' = Listed(u)
                         /\ Overflows(u)' = Overflows(u)
    BY <2>1 DEF Feed, Listed, Overflows, Candidates, IsHidden, HiddenUsers, AuthorsOf,
                Published, There, Notified
  <2> QED
    BY <2>1, <2>2 DEF ReadingInv, PagesSkipNothing, Undisturbed
<1> QED
  BY <1>1, <1>2, ReadFirstKeeps, ReadNextKeeps DEF Next, IInv

THEOREM ReadingInvariant == Spec => []ReadingInv
<1>1. IInv /\ IInv' /\ ReadingInv /\ [Next]_vars => ReadingInv'
  BY ReadingNext
<1> QED
  BY <1>1, ReadingInit, Invariant, PTL DEF Spec

(* Every variable keeps its type.                                          *)
THEOREM TypeCorrect == Spec => []TypeOK
<1>1. IInv /\ ReadingInv => TypeOK
  BY DEF IInv, RowsOK, ReadingInv, TypeOK
<1> QED
  BY <1>1, Invariant, ReadingInvariant, PTL

(* Nobody is told about a shout nearby who has been one of its authors, or *)
(* blocked with one of them, all the time since it was posted: whoever     *)
(* blocks, unblocks, shares, edits or deletes between the steps of         *)
(* sendNearbyNotifications.                                                *)
THEOREM BlocksAreRespected == Spec => []NoticesRespectBlocks
BY Invariant, PTL DEF IInv

(* No comment is lost from the pages: it stands under its shout or under   *)
(* an older comment that is there.                                         *)
THEOREM CommentsAreReachable == Spec => []NoCommentIsLost
<1>1. IInv => NoCommentIsLost
  BY RowsAreRows DEF IInv, CommentTree, NoCommentIsLost, TopLevel, Replies, Comments, Comment
<1> QED
  BY <1>1, Invariant, PTL

(* A reader who turns the pages of his feed misses nothing that is in it   *)
(* all the time, unless a shout leaves what is listed for him or there are *)
(* more than the query reads.                                              *)
THEOREM NothingIsSkipped == Spec => []PagesSkipNothing
<1>1. ReadingInv => PagesSkipNothing
  BY DEF ReadingInv
<1> QED
  BY <1>1, ReadingInvariant, PTL
=============================================================================
