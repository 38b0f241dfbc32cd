------------------------------ MODULE Messaging ------------------------------
(***************************************************************************)
(* MessageService, ReadPositionService and the handlers that call them, at *)
(* statement level.  createMessage is a transaction: it looks the client's *)
(* mutation id up, creates the message and commits.  updatePosition is no  *)
(* transaction: it reads the message, the stored position and the message  *)
(* of that position, and then upserts.  A message's number stands for its  *)
(* place in the order (createdAt, id); it is drawn before the commit.      *)
(***************************************************************************)
EXTENDS Integers, FiniteSets

CONSTANTS
  Post,          \* calls of POST /api/messages in flight at once
  Mutation,      \* values of clientMutationId
  NoMutation,    \* the client sent none
  ReadCall,      \* CASE_READ_UP_TO frames in flight at once
  Reader,        \* users who read the case
  PageSize,      \* the limit of getMessagesByCase
  MaxMessages    \* bound on the messages created

ASSUME NoMutationAssumption == NoMutation \notin Mutation
ASSUME PageSizeAssumption == PageSize \in 1..100
ASSUME MaxMessagesAssumption == MaxMessages \in Nat \ {0}

VARIABLES
  posts,     \* the calls of createMessage
  messages,  \* committed messages
  drawn,     \* the last number given to a message
  acks,      \* <<mutation, message>> pairs that clients saw answered with 201
  reads,     \* the calls of updatePosition
  position,  \* CaseReadPosition.lastReadMessageId, 0 without a row
  scroll     \* a client that pages back through the case

messagingVars == <<posts, messages, drawn, acks, reads, position, scroll>>

NoPost == [pc |-> "none", mutation |-> NoMutation, id |-> 0]
NoRead == [pc |-> "none", user |-> "nobody", id |-> 0, existing |-> 0]
NoScroll == [cursor |-> 0, wanted |-> {}, seen |-> {}]

MessagingInit ==
  /\ posts = [p \in Post |-> NoPost]
  /\ messages = {}
  /\ drawn = 0
  /\ acks = {}
  /\ reads = [c \in ReadCall |-> NoRead]
  /\ position = [u \in Reader |-> 0]
  /\ scroll = NoScroll

PostsOnly == UNCHANGED <<messages, drawn, acks, reads, position, scroll>>
ReadsOnly == UNCHANGED <<posts, messages, drawn, acks, scroll>>

\* A client posts a message, or posts it again: it never had an answer, or had it.
SendMessage(p, mutation) ==
  /\ posts[p].pc = "none"
  /\ posts' = [posts EXCEPT ![p] = [pc |-> "find", mutation |-> mutation, id |-> 0]]
  /\ PostsOnly

\* The pre-check: an existing message of the mutation ends the transaction.
FindMessage(p) ==
  LET found == { m \in messages : m.mutation = posts[p].mutation /\ m.mutation # NoMutation }
  IN  /\ posts[p].pc = "find"
      /\ \/ /\ found # {}
            /\ \E m \in found :
                 posts' = [posts EXCEPT ![p].pc = "publish", ![p].id = m.id]
         \/ /\ found = {}
            /\ posts' = [posts EXCEPT ![p].pc = "create"]
      /\ PostsOnly

\* The isolation checks: the case, its author or the parent is not there.
RefuseMessage(p) ==
  /\ posts[p].pc = "create"
  /\ posts' = [posts EXCEPT ![p] = NoPost]
  /\ PostsOnly

\* Variant: (tenantId, clientMutationId) has an index that is not unique.
NotIndexed(p) == {}

\* @@unique([tenantId, clientMutationId]): the rows, committed or not, that an insert meets.
Indexed(p) ==
  { m.id : m \in { x \in messages : x.mutation = posts[p].mutation /\ x.mutation # NoMutation } }
    \cup { posts[q].id : q \in { r \in Post \ {p} : posts[r].pc = "commit" /\ posts[r].mutation = posts[p].mutation
                                                    /\ posts[r].mutation # NoMutation } }

\* message.create(): a number is drawn, the row waits for the commit.
CreateRow(p) ==
  /\ posts[p].pc = "create"
  /\ Indexed(p) = {}
  /\ drawn < MaxMessages
  /\ drawn' = drawn + 1
  /\ posts' = [posts EXCEPT ![p].pc = "commit", ![p].id = drawn + 1]
  /\ UNCHANGED <<messages, acks, reads, position, scroll>>

\* The index holds a committed row of the mutation: the insert fails and is answered 400.
\* While the row is another transaction's the insert waits.
DuplicateRow(p) ==
  /\ posts[p].pc = "create"
  /\ Indexed(p) \cap { m.id : m \in messages } # {}
  /\ posts' = [posts EXCEPT ![p] = NoPost]
  /\ PostsOnly

CommitMessage(p) ==
  /\ posts[p].pc = "commit"
  /\ messages' = messages \cup {[id |-> posts[p].id, mutation |-> posts[p].mutation]}
  /\ posts' = [posts EXCEPT ![p].pc = "publish"]
  /\ UNCHANGED <<drawn, acks, reads, position, scroll>>

\* publishMessage, publishAck and the 201, in one step of the handler.
AnswerMessage(p) ==
  /\ posts[p].pc = "publish"
  /\ acks' = acks \cup {<<posts[p].mutation, posts[p].id>>}
  /\ posts' = [posts EXCEPT ![p] = NoPost]
  /\ UNCHANGED <<messages, drawn, reads, position, scroll>>

\* updatePosition, 1: the message must be one of the case.
ReadUpTo(c, u, id) ==
  /\ reads[c].pc = "none"
  /\ \E m \in messages : m.id = id
  /\ reads' = [reads EXCEPT ![c] = [pc |-> "existing", user |-> u, id |-> id, existing |-> 0]]
  /\ ReadsOnly /\ UNCHANGED position

\* 2: the stored position.
FetchPosition(c) ==
  /\ reads[c].pc = "existing"
  /\ reads' = [reads EXCEPT ![c].pc = "compare", ![c].existing = position[reads[c].user]]
  /\ ReadsOnly /\ UNCHANGED position

\* 3: a backward move against what was read is ignored.
IgnoreBackward(c) ==
  /\ reads[c].pc = "compare"
  /\ reads[c].id < reads[c].existing
  /\ reads' = [reads EXCEPT ![c] = NoRead]
  /\ ReadsOnly /\ UNCHANGED position

\* 4: the upsert.
UpsertPosition(c) ==
  /\ reads[c].pc = "compare"
  /\ reads[c].id >= reads[c].existing
  /\ position' = [position EXCEPT ![reads[c].user] = reads[c].id]
  /\ reads' = [reads EXCEPT ![c] = NoRead]
  /\ ReadsOnly

Newest(S, n) == { id \in S : Cardinality({ x \in S : x > id }) < n }

\* nextCursor: the oldest message of the page, null (here 0) when no more are left.
NextCursor(older) ==
  IF Cardinality(older) <= PageSize THEN 0
  ELSE CHOOSE id \in Newest(older, PageSize) : \A x \in Newest(older, PageSize) : id <= x

\* getMessagesByCase() from the cursor on: the newest PageSize messages before it.
FetchPage(before) ==
  LET older == { m.id : m \in { x \in messages : x.id < before } }
  IN  [page |-> Newest(older, PageSize), next |-> NextCursor(older)]

\* A client opens the case, without a cursor.
OpenCase ==
  LET first == FetchPage(MaxMessages + 1)
  IN  /\ messages # {} /\ scroll = NoScroll
      /\ scroll' = [cursor |-> first.next, wanted |-> { m.id : m \in messages }, seen |-> first.page]
      /\ UNCHANGED <<posts, messages, drawn, acks, reads, position>>

\* It asks for the next page while there is one, and closes the case at the end.
ScrollBack ==
  LET following == FetchPage(scroll.cursor)
  IN  /\ scroll # NoScroll
      /\ scroll' = IF scroll.cursor = 0 THEN NoScroll
                   ELSE [scroll EXCEPT !.cursor = following.next, !.seen = @ \cup following.page]
      /\ UNCHANGED <<posts, messages, drawn, acks, reads, position>>

\* The process ends: open transactions roll back, no call is answered.
MessagingCrash ==
  /\ posts' = [p \in Post |-> NoPost]
  /\ reads' = [c \in ReadCall |-> NoRead]
  /\ UNCHANGED <<messages, drawn, acks, position, scroll>>

MessagingNext ==
  \/ \E p \in Post :
       \/ \E mutation \in Mutation \cup {NoMutation} : SendMessage(p, mutation)
       \/ FindMessage(p) \/ RefuseMessage(p) \/ CreateRow(p) \/ DuplicateRow(p)
       \/ CommitMessage(p) \/ AnswerMessage(p)
  \/ \E c \in ReadCall :
       \/ \E u \in Reader, id \in 1..MaxMessages : ReadUpTo(c, u, id)
       \/ FetchPosition(c) \/ IgnoreBackward(c) \/ UpsertPosition(c)
  \/ OpenCase \/ ScrollBack
  \/ MessagingCrash

MessagingSpec == MessagingInit /\ [][MessagingNext]_messagingVars
-----------------------------------------------------------------------------
MessagingTypeOK ==
  /\ posts \in [Post -> [pc: {"none", "find", "create", "commit", "publish"},
                         mutation: Mutation \cup {NoMutation}, id: 0..MaxMessages]]
  /\ messages \subseteq [id: 1..MaxMessages, mutation: Mutation \cup {NoMutation}]
  /\ drawn \in 0..MaxMessages
  /\ acks \subseteq (Mutation \cup {NoMutation}) \X (1..MaxMessages)
  /\ reads \in [ReadCall -> [pc: {"none", "existing", "compare"}, user: Reader \cup {"nobody"},
                             id: 0..MaxMessages, existing: 0..MaxMessages]]
  /\ position \in [Reader -> 0..MaxMessages]
  /\ scroll \in [cursor: 0..MaxMessages, wanted: SUBSET (1..MaxMessages), seen: SUBSET (1..MaxMessages)]

(***************************************************************************)
(* "Idempotent + Race Safe": however often and in whatever overlap a       *)
(* client posts one mutation, crashes and lost answers included, there is  *)
(* one message of it and every 201 it gets names that message.             *)
(***************************************************************************)
OneMessagePerMutation ==
  \A mutation \in Mutation :
    /\ Cardinality({ m \in messages : m.mutation = mutation }) <= 1
    /\ \A a \in acks : a[1] = mutation =>
         [id |-> a[2], mutation |-> mutation] \in messages

(***************************************************************************)
(* "Cursor-based pagination avoids OFFSET drift": whatever is posted, or   *)
(* committed late, while a client scrolls back, each message that was      *)
(* there when it opened the case is on a page it has or is yet to come.    *)
(***************************************************************************)
CursorSkipsNothing == \A id \in scroll.wanted : id \in scroll.seen \/ id < scroll.cursor

(***************************************************************************)
(* "Read position can ONLY move forward", "No backward regression under    *)
(* race conditions" (read-position.service.ts).                            *)
(***************************************************************************)
ReadPositionOnlyMovesForward == [][\A u \in Reader : position'[u] >= position[u]]_messagingVars
=============================================================================
