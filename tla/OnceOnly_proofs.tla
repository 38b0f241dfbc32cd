--------------------------- MODULE OnceOnly_proofs ---------------------------
(***************************************************************************)
(* What is asked twice is done once, for any number of requests at once:   *)
(* behind the idempotency guard, by a client's mutation id, by an invite,  *)
(* by a login link; and a session that is revoked once stays revoked.      *)
(***************************************************************************)
EXTENDS IdempotencyGuard, Messaging, Invitations, Sessions, Authority, FiniteSetTheorems, TLAPS

\* A set whose members are all the same has one at most.
LEMMA NoTwo ==
  ASSUME NEW S, \A x, y \in S : x = y
  PROVE  Cardinality(S) \in 0..1 /\ (S = {} => Cardinality(S) = 0)
<1>1. CASE S = {}
  BY <1>1, FS_EmptySet
<1>2. CASE S # {}
  <2>1. PICK x : S = {x}
    BY <1>2
  <2>2. Cardinality({x}) = 1
    BY FS_Singleton
  <2>3. Cardinality(S) = 1
    BY <2>1, <2>2
  <2> QED
    BY <1>2, <2>3
<1> QED
  BY <1>1, <1>2

-----------------------------------------------------------------------------
(* The idempotency guard. *)

\* The keys whose record is in the file, or was lost by it.
Known == DOMAIN responses \cup lost

\* A record is well-formed, and what was answered is known for ever.
StoreOK ==
  /\ DOMAIN responses \subseteq IdempotencyKey
  /\ \A k \in DOMAIN responses : responses[k] \in RequestHash
  /\ answers \subseteq IdempotencyKey \X RequestHash
  /\ disk \in {"sound", "failing"}
  /\ lost \subseteq IdempotencyKey
  /\ \A x \in answers : x[1] \in Known

Request == [pc: {"none", "guard", "handle", "save", "answer"}, route: GuardedRoute,
            key: IdempotencyKey \cup {NoKey}, hash: RequestHash \cup {NoKey}, late: BOOLEAN]

\* A handler runs under a key, a saving route has tried to record what it answers, and late
\* means that there was an answer.
RequestOK(r) ==
  /\ r.pc \in {"handle", "save", "answer"} => r.key \in IdempotencyKey
  /\ r.pc # "none" => r.hash \in RequestHash
  /\ r.pc = "answer" /\ r.route \in SavingRoute => r.key \in Known
  /\ r.late => <<r.key, r.hash>> \in answers

RequestsOK == http \in [HttpRequest -> Request] /\ \A q \in HttpRequest : RequestOK(http[q])

GuardInv == StoreOK /\ RequestsOK

LEMMA NoRequestOK == NoRequest \in Request /\ RequestOK(NoRequest) /\ RequestOK(NoRequest)'
BY DEF NoRequest, Request, GuardedRoute, RequestOK

LEMMA GuardBegins == GuardInit => GuardInv
<1> SUFFICES ASSUME GuardInit PROVE GuardInv
  OBVIOUS
<1>1. RequestsOK
  BY NoRequestOK DEF GuardInit, RequestsOK
<1>2. StoreOK
  BY DEF GuardInit, StoreOK
<1> QED
  BY <1>1, <1>2 DEF GuardInv

\* What is known and answered stays so: requests that do not move stay well.
LEMMA RequestsStay ==
  ASSUME RequestsOK, Known \subseteq Known', answers \subseteq answers',
         NEW q \in HttpRequest, NEW r \in Request, RequestOK(r)', http' = [http EXCEPT ![q] = r]
  PROVE  RequestsOK'
<1>1. http' \in [HttpRequest -> Request]
  BY DEF RequestsOK
<1>2. ASSUME NEW x \in HttpRequest PROVE RequestOK(http[x])'
  <2>1. CASE x = q
    BY <2>1 DEF RequestsOK, RequestOK
  <2>2. CASE x # q
    <3>1. http'[x] = http[x] /\ RequestOK(http[x])
      BY <2>2 DEF RequestsOK
    <3> QED
      BY <3>1 DEF RequestOK
  <2> QED
    BY <2>1, <2>2
<1> QED
  BY <1>1, <1>2 DEF RequestsOK

\* Writing the file loses no knowledge, whatever it leaves of the file.
LEMMA WritingKeeps ==
  ASSUME StoreOK, NEW keys \in SUBSET IdempotencyKey, NEW store, WriteFile(store, keys),
         DOMAIN store \subseteq IdempotencyKey, \A k \in DOMAIN store : store[k] \in RequestHash,
         UNCHANGED <<answers, disk>>
  PROVE  StoreOK' /\ Known \subseteq Known' /\ keys \subseteq Known'
<1>1. Known \subseteq Known' /\ keys \subseteq Known'
  BY DEF WriteFile, Known
<1>2. lost' \subseteq IdempotencyKey /\ responses' = store
  BY DEF WriteFile, StoreOK
<1>3. \A x \in answers' : x[1] \in Known'
  BY <1>1 DEF StoreOK
<1> QED
  BY <1>1, <1>2, <1>3 DEF StoreOK

\* What can be loaded, and what a save of one record may leave, are well-formed stores.
LEMMA StoresOK ==
  ASSUME StoreOK, NEW loaded \in Loads, NEW k \in IdempotencyKey, NEW h \in RequestHash,
         NEW store \in Saves(StoreFile(loaded, k, h))
  PROVE  DOMAIN store \subseteq IdempotencyKey /\ \A x \in DOMAIN store : store[x] \in RequestHash
<1>1. DOMAIN <<>> = {}
  OBVIOUS
<1>2. DOMAIN loaded \subseteq IdempotencyKey /\ \A x \in DOMAIN loaded : loaded[x] \in RequestHash
  BY <1>1 DEF Loads, StoreOK
<1>3. PICK new : new = StoreFile(loaded, k, h)
  OBVIOUS
<1>4. DOMAIN new \subseteq IdempotencyKey /\ \A x \in DOMAIN new : new[x] \in RequestHash
  BY <1>2, <1>3 DEF StoreFile
<1>5. store \in {new, responses, <<>>}
  BY <1>3 DEF Saves
<1> QED
  BY <1>1, <1>4, <1>5 DEF StoreOK

LEMMA GuardSteps == GuardInv /\ [GuardNext]_guardVars => GuardInv'
<1> SUFFICES ASSUME GuardInv, [GuardNext]_guardVars PROVE GuardInv'
  OBVIOUS
<1> USE DEF GuardInv
<1>0. ASSUME UNCHANGED <<responses, lost>> PROVE Known' = Known
  BY <1>0 DEF Known
<1>1. ASSUME NEW q \in HttpRequest, NEW route \in GuardedRoute, NEW k \in IdempotencyKey \cup {NoKey},
             NEW h \in RequestHash, Arrive(q, route, k, h)
      PROVE  GuardInv'
  <2>0. PICK r : r = [pc |-> "guard", route |-> route, key |-> k, hash |-> h, late |-> <<k, h>> \in answers]
    OBVIOUS
  <2>1. r \in Request
    BY <2>0 DEF Request
  <2>2. RequestOK(r)'
    BY <2>0, <1>1 DEF RequestOK, Arrive
  <2>3. StoreOK' /\ Known' = Known /\ answers' = answers
    BY <1>1, <1>0 DEF Arrive, StoreOK
  <2>4. http' = [http EXCEPT ![q] = r]
    BY <2>0, <1>1 DEF Arrive
  <2> QED
    BY <2>1, <2>2, <2>3, <2>4, RequestsStay
<1>2. ASSUME NEW q \in HttpRequest, Guard(q) PROVE GuardInv'
  <2>1. StoreOK' /\ Known' = Known /\ answers' = answers
    BY <1>2, <1>0 DEF Guard, StoreOK
  <2>2. http[q] \in Request /\ RequestOK(http[q]) /\ http[q].pc = "guard"
    BY <1>2 DEF RequestsOK, Guard
  <2>3. CASE http' = [http EXCEPT ![q] = NoRequest]
    BY <2>1, <2>3, NoRequestOK, RequestsStay
  <2>4. CASE http[q].key # NoKey /\ http' = [http EXCEPT ![q].pc = "handle"]
    <3>0. PICK r : r = [http[q] EXCEPT !.pc = "handle"]
      OBVIOUS
    <3>1. http' = [http EXCEPT ![q] = r]
      BY <3>0, <2>4
    <3>2. r \in Request
      BY <3>0, <2>2 DEF Request
    <3>3. RequestOK(r)'
      BY <3>0, <2>1, <2>2, <2>4 DEF RequestOK, Request
    <3> QED
      BY <2>1, <3>1, <3>2, <3>3, RequestsStay
  <2> QED
    BY <1>2, <2>3, <2>4 DEF Guard, Respond
<1>3. ASSUME NEW q \in HttpRequest, Handle(q) PROVE GuardInv'
  <2>1. http[q] \in Request /\ RequestOK(http[q]) /\ http[q].pc = "handle"
    BY <1>3 DEF RequestsOK, Handle
  <2>2. http[q].key \in IdempotencyKey
    BY <2>1 DEF RequestOK
  <2>3. /\ Known' = Known /\ answers' = answers
        /\ responses' = responses /\ lost' = lost /\ disk' = disk
    BY <1>3, <1>0 DEF Handle
  <2>5. StoreOK'
    BY <2>3 DEF StoreOK
  <2>6. CASE http' = [http EXCEPT ![q] = NoRequest]
    BY <2>3, <2>5, <2>6, NoRequestOK, RequestsStay
  <2>7. ASSUME NEW pc \in {"save", "answer"}, http' = [http EXCEPT ![q].pc = pc],
               pc = "answer" => http[q].route \notin SavingRoute
        PROVE  GuardInv'
    <3>0. PICK r : r = [http[q] EXCEPT !.pc = pc]
      OBVIOUS
    <3>1. http' = [http EXCEPT ![q] = r]
      BY <3>0, <2>7
    <3>2. r \in Request
      BY <3>0, <2>1 DEF Request
    <3>3. RequestOK(r)'
      BY <3>0, <2>1, <2>2, <2>3, <2>7 DEF RequestOK, Request
    <3> QED
      BY <2>3, <2>5, <3>1, <3>2, <3>3, RequestsStay
  <2> QED
    BY <1>3, <2>6, <2>7 DEF Handle, Respond
<1>4. ASSUME NEW q \in HttpRequest, SaveResponse(q) PROVE GuardInv'
  <2>0. PICK r : r = [http[q] EXCEPT !.pc = "answer"]
    OBVIOUS
  <2>1. http[q] \in Request /\ RequestOK(http[q]) /\ http[q].pc = "save"
    BY <1>4 DEF RequestsOK, SaveResponse
  <2>2. http[q].key \in IdempotencyKey /\ http[q].hash \in RequestHash
    BY <2>1 DEF RequestOK
  <2>3. PICK loaded \in Loads : \E store \in Saves(StoreFile(loaded, http[q].key, http[q].hash)) :
                                  WriteFile(store, {http[q].key})
    BY <1>4 DEF SaveResponse
  <2>4. PICK store \in Saves(StoreFile(loaded, http[q].key, http[q].hash)) :
               WriteFile(store, {http[q].key})
    BY <2>3
  <2>5. DOMAIN store \subseteq IdempotencyKey /\ \A k \in DOMAIN store : store[k] \in RequestHash
    BY <2>2, StoresOK
  <2>6. StoreOK' /\ Known \subseteq Known' /\ http[q].key \in Known' /\ answers' = answers
    <3>1. UNCHANGED <<answers, disk>> /\ {http[q].key} \in SUBSET IdempotencyKey
      BY <1>4, <2>2 DEF SaveResponse
    <3> QED
      BY <2>4, <2>5, <3>1, WritingKeeps
  <2>7. http' = [http EXCEPT ![q] = r] /\ r \in Request
    BY <2>0, <1>4, <2>1 DEF SaveResponse, Request
  <2>8. RequestOK(r)'
    BY <2>0, <2>1, <2>2, <2>6 DEF RequestOK, Request
  <2> QED
    BY <2>6, <2>7, <2>8, RequestsStay
<1>5. ASSUME NEW q \in HttpRequest, Answer(q) PROVE GuardInv'
  <2>1. RequestOK(http[q]) /\ http[q].pc = "answer"
    BY <1>5 DEF RequestsOK, Answer
  <2>2. http[q].key \in IdempotencyKey /\ http[q].hash \in RequestHash
        /\ (http[q].route \in SavingRoute => http[q].key \in Known)
    BY <2>1 DEF RequestOK
  <2>3. Known' = Known /\ answers \subseteq answers'
    BY <1>5, <1>0 DEF Answer
  <2>4. StoreOK'
    BY <1>5, <2>2, <2>3 DEF Answer, StoreOK
  <2> QED
    BY <1>5, <2>3, <2>4, NoRequestOK, RequestsStay DEF Answer, Respond
<1>6. CASE ServerCrash
  <2>1. RequestsOK' /\ UNCHANGED <<answers, disk>>
    BY <1>6, NoRequestOK DEF ServerCrash, RequestsOK
  <2>2. CASE UNCHANGED <<responses, lost>>
    BY <2>1, <2>2, <1>0 DEF StoreOK
  <2>3. CASE WriteFile(<<>>, {})
    <3>1. DOMAIN <<>> \subseteq IdempotencyKey /\ \A k \in DOMAIN <<>> : <<>>[k] \in RequestHash
      OBVIOUS
    <3>2. StoreOK'
      BY <2>1, <2>3, <3>1, WritingKeeps
    <3> QED
      BY <2>1, <3>2
  <2> QED
    BY <1>6, <2>1, <2>2, <2>3 DEF ServerCrash
<1>7. CASE DiskChanges
  BY <1>7, <1>0 DEF DiskChanges, StoreOK, RequestsOK, RequestOK
<1>8. CASE UNCHANGED guardVars
  BY <1>8, <1>0 DEF guardVars, StoreOK, RequestsOK, RequestOK
<1> QED
  BY <1>1, <1>2, <1>3, <1>4, <1>5, <1>6, <1>7, <1>8 DEF GuardNext

\* The guard's invariant holds of every run, for any number of requests and keys.
THEOREM GuardInvariance == GuardSpec => []GuardInv
BY GuardBegins, GuardSteps, PTL DEF GuardSpec

\* A request behind an answer that passes the guard while the disk is sound has lost its record.
LEMMA PassingMeansLost ==
  GuardInv /\ [GuardNext]_guardVars =>
    [\A q \in HttpRequest :
       http[q].late /\ http[q].pc = "guard" /\ http'[q].pc = "handle" =>
         disk = "failing" \/ http[q].key \in lost]_guardVars
<1> SUFFICES ASSUME GuardInv, GuardNext, NEW q \in HttpRequest,
                    http[q].late, http[q].pc = "guard", http'[q].pc = "handle", disk # "failing"
             PROVE  http[q].key \in lost
  BY DEF guardVars
<1> USE DEF GuardInv
<1>1. http \in [HttpRequest -> Request] /\ RequestOK(http[q])
  BY DEF RequestsOK
<1>2. http[q].key \in Known
  BY <1>1 DEF RequestOK, StoreOK
<1>3. Guard(q)
  <2>1. \A p \in HttpRequest : http' = [http EXCEPT ![p] = NoRequest] => http'[q].pc # "handle"
    BY <1>1 DEF NoRequest
  <2>2. ASSUME NEW p \in HttpRequest, NEW pc \in {"save", "answer"}, http' = [http EXCEPT ![p].pc = pc]
        PROVE  FALSE
    <3>1. CASE p = q
      BY <1>1, <2>2, <3>1 DEF Request
    <3>2. CASE p # q
      BY <1>1, <2>2, <3>2
    <3> QED
      BY <3>1, <3>2
  <2>3. ASSUME NEW p \in HttpRequest, NEW route \in GuardedRoute, NEW k \in IdempotencyKey \cup {NoKey},
               NEW h \in RequestHash, Arrive(p, route, k, h)
        PROVE  FALSE
    <3>1. CASE p = q
      BY <1>1, <2>3, <3>1 DEF Arrive
    <3>2. CASE p # q
      BY <1>1, <2>3, <3>2 DEF Arrive
    <3> QED
      BY <3>1, <3>2
  <2>4. ASSUME NEW p \in HttpRequest, Guard(p) PROVE p = q
    <3>1. CASE p # q
      BY <1>1, <2>4, <3>1 DEF Guard, Respond
    <3> QED
      BY <3>1
  <2>5. ASSUME NEW p \in HttpRequest, Handle(p) \/ SaveResponse(p) \/ Answer(p) PROVE FALSE
    BY <2>1, <2>2, <2>5 DEF Handle, SaveResponse, Answer, Respond
  <2>6. CASE ServerCrash \/ DiskChanges
    BY <2>6 DEF ServerCrash, DiskChanges, NoRequest
  <2> QED
    BY <2>3, <2>4, <2>5, <2>6 DEF GuardNext
<1>4. ~Stored(http[q].key, responses)
  <2>1. Loads = {responses}
    BY DEF Loads
  <2>2. CASE http' = [http EXCEPT ![q] = NoRequest]
    BY <1>1, <2>2 DEF NoRequest
  <2> QED
    BY <1>3, <2>1, <2>2 DEF Guard, Respond
<1> QED
  BY <1>2, <1>4 DEF Known, Stored

(***************************************************************************)
(* idempotencyGuard: a request sent again after an answer passes the guard *)
(* only while the disk fails or after its record was lost, for any number  *)
(* of requests and keys, with crashes and failures of the disk anywhere.   *)
(***************************************************************************)
THEOREM AnsweredOnce == GuardSpec => []GuardTypeOK /\ AnsweredIsNotRepeated
<1>1. GuardInv => GuardTypeOK
  BY DEF GuardInv, StoreOK, RequestsOK, Request, GuardTypeOK
<1> QED
  BY <1>1, PassingMeansLost, GuardInvariance, PTL DEF GuardSpec, AnsweredIsNotRepeated

-----------------------------------------------------------------------------
(* Messages. *)

PostRow == [pc: {"none", "find", "create", "commit", "publish"},
            mutation: Mutation \cup {NoMutation}, id: 0..MaxMessages]
MessageRow == [id: 1..MaxMessages, mutation: Mutation \cup {NoMutation}]
RowOf(t) == [id |-> t.id, mutation |-> t.mutation]

\* What is committed: one message of each mutation, and every answer names a message.
MessagesOK ==
  /\ messages \subseteq MessageRow
  /\ \A m, n \in messages : m.mutation = n.mutation /\ m.mutation # NoMutation => m = n
  /\ \A a \in acks : [id |-> a[2], mutation |-> a[1]] \in messages

\* A row that waits for its commit is the only one of its mutation; what is published is committed.
PostOK(p) ==
  /\ posts[p].pc = "commit" => RowOf(posts[p]) \in MessageRow
  /\ posts[p].pc = "publish" => RowOf(posts[p]) \in messages
  /\ posts[p].pc = "commit" /\ posts[p].mutation # NoMutation =>
       /\ \A m \in messages : m.mutation # posts[p].mutation
       /\ \A q \in Post : posts[q].pc = "commit" /\ posts[q].mutation = posts[p].mutation => q = p

PostsOK == posts \in [Post -> PostRow] /\ \A p \in Post : PostOK(p)

MessagesInv == MessagesOK /\ PostsOK /\ drawn \in 0..MaxMessages

LEMMA MessagesBegin == MessagingInit => MessagesInv
BY MaxMessagesAssumption DEF MessagingInit, NoPost, MessagesInv, MessagesOK, PostsOK, PostOK, PostRow

\* A call that neither creates nor commits leaves the invariant as it was.
LEMMA PostMoves ==
  ASSUME MessagesInv, NEW p \in Post, NEW t \in PostRow, t.pc # "commit",
         t.pc = "publish" => RowOf(t) \in messages,
         posts' = [posts EXCEPT ![p] = t], messages' = messages
  PROVE  PostsOK'
<1> USE DEF MessagesInv, PostsOK
<1>1. posts' \in [Post -> PostRow]
  OBVIOUS
<1>2. \A x \in Post : x # p => posts'[x] = posts[x]
  OBVIOUS
<1>3. posts'[p] = t
  OBVIOUS
<1>4. ASSUME NEW x \in Post PROVE PostOK(x)'
  BY <1>2, <1>3 DEF PostOK, RowOf
<1> QED
  BY <1>1, <1>4

LEMMA MessagesStep == MessagesInv /\ [MessagingNext]_messagingVars => MessagesInv'
<1> SUFFICES ASSUME MessagesInv, [MessagingNext]_messagingVars PROVE MessagesInv'
  OBVIOUS
<1> DEFINE Quiet == UNCHANGED <<messages, drawn, acks>>
<1>1. ASSUME NEW p \in Post, NEW t \in PostRow, t.pc # "commit",
             t.pc = "publish" => RowOf(t) \in messages,
             posts' = [posts EXCEPT ![p] = t], Quiet
      PROVE  MessagesInv'
  BY <1>1, PostMoves DEF MessagesInv, MessagesOK
<1>2. NoPost \in PostRow /\ NoPost.pc = "none"
  BY MaxMessagesAssumption DEF NoPost, PostRow
<1>3. ASSUME NEW p \in Post, NEW mutation \in Mutation \cup {NoMutation}, SendMessage(p, mutation)
      PROVE  MessagesInv'
  <2>1. [pc |-> "find", mutation |-> mutation, id |-> 0] \in PostRow
    BY MaxMessagesAssumption DEF PostRow
  <2> QED
    BY <1>1, <1>3, <2>1 DEF SendMessage, PostsOnly
<1>4. ASSUME NEW p \in Post, FindMessage(p) PROVE MessagesInv'
  <2>1. posts[p] \in PostRow /\ Quiet
    BY <1>4 DEF MessagesInv, PostsOK, FindMessage, PostsOnly
  <2>2. ASSUME NEW m \in messages, m.mutation = posts[p].mutation,
               posts' = [posts EXCEPT ![p].pc = "publish", ![p].id = m.id]
        PROVE  MessagesInv'
    <3>0. PICK t : t = [posts[p] EXCEPT !.pc = "publish", !.id = m.id]
      OBVIOUS
    <3>1. m \in MessageRow
      BY DEF MessagesInv, MessagesOK
    <3>4. t = [pc |-> "publish", mutation |-> posts[p].mutation, id |-> m.id]
      BY <2>1, <3>0 DEF PostRow
    <3>5. m.id \in 0..MaxMessages /\ posts[p].mutation \in Mutation \cup {NoMutation}
      BY <2>1, <3>1, MaxMessagesAssumption DEF PostRow, MessageRow
    <3>6. m = [id |-> m.id, mutation |-> m.mutation]
      BY <3>1 DEF MessageRow
    <3>7. t \in PostRow /\ t.pc = "publish"
      BY <3>4, <3>5 DEF PostRow
    <3>8. t.id = m.id /\ t.mutation = m.mutation
      BY <2>2, <3>4
    <3>2. t \in PostRow /\ t.pc = "publish" /\ RowOf(t) = m
      BY <3>6, <3>7, <3>8, Zenon DEF RowOf
    <3>3. posts' = [posts EXCEPT ![p] = t]
      BY <2>2, <3>0 DEF MessagesInv, PostsOK
    <3> QED
      BY <1>1, <2>1, <3>2, <3>3
  <2>3. ASSUME posts' = [posts EXCEPT ![p].pc = "create"] PROVE MessagesInv'
    <3>0. PICK t : t = [posts[p] EXCEPT !.pc = "create"]
      OBVIOUS
    <3>1. t \in PostRow /\ t.pc = "create" /\ posts' = [posts EXCEPT ![p] = t]
      BY <2>1, <2>3, <3>0 DEF PostRow
    <3> QED
      BY <1>1, <2>1, <3>1
  <2> QED
    BY <1>4, <2>2, <2>3 DEF FindMessage
<1>5. ASSUME NEW p \in Post, RefuseMessage(p) \/ DuplicateRow(p) PROVE MessagesInv'
  BY <1>1, <1>2, <1>5 DEF RefuseMessage, DuplicateRow, PostsOnly
<1>6. ASSUME NEW p \in Post, CreateRow(p) PROVE MessagesInv'
  <2>1. posts[p] \in PostRow
    BY DEF MessagesInv, PostsOK
  <2>0. PICK t : t = [posts[p] EXCEPT !.pc = "commit", !.id = drawn + 1]
    OBVIOUS
  <2>2. drawn + 1 \in 1..MaxMessages /\ drawn' = drawn + 1
    BY <1>6, MaxMessagesAssumption DEF CreateRow, MessagesInv
  <2>3. t \in PostRow /\ t.pc = "commit" /\ t.mutation = posts[p].mutation /\ RowOf(t) \in MessageRow
    <3>1. t = [pc |-> "commit", mutation |-> posts[p].mutation, id |-> drawn + 1]
      BY <2>0, <2>1 DEF PostRow
    <3>2. drawn + 1 \in 0..MaxMessages /\ posts[p].mutation \in Mutation \cup {NoMutation}
      BY <2>1, <2>2, MaxMessagesAssumption DEF PostRow
    <3>3. t \in PostRow /\ t.pc = "commit"
      BY <3>1, <3>2 DEF PostRow
    <3>4. t.mutation = posts[p].mutation /\ t.id = drawn + 1
      BY <3>1
    <3>5. RowOf(t) \in MessageRow
      BY <2>2, <3>2, <3>4 DEF RowOf, MessageRow
    <3> QED
      BY <3>3, <3>4, <3>5
  <2>4. posts' = [posts EXCEPT ![p] = t] /\ messages' = messages /\ acks' = acks
    BY <1>6, <2>0, <2>2 DEF CreateRow
  <2>5. Indexed(p) = {}
    BY <1>6 DEF CreateRow
  <2>6. ASSUME posts[p].mutation # NoMutation, NEW m \in messages PROVE m.mutation # posts[p].mutation
    BY <2>5, <2>6 DEF Indexed
  <2>7. ASSUME posts[p].mutation # NoMutation, NEW q \in Post, q # p, posts[q].pc = "commit"
        PROVE  posts[q].mutation # posts[p].mutation
    BY <2>5, <2>7 DEF Indexed
  <2>8. posts' \in [Post -> PostRow] /\ posts'[p] = t /\ \A x \in Post : x # p => posts'[x] = posts[x]
    BY <2>3, <2>4 DEF MessagesInv, PostsOK
  <2>9. PostOK(p)'
    <3>1. \A q \in Post : q # p /\ posts'[q].pc = "commit" /\ t.mutation # NoMutation => posts'[q].mutation # t.mutation
      BY <2>3, <2>7, <2>8
    <3> QED
      BY <2>3, <2>4, <2>6, <2>8, <3>1 DEF PostOK
  <2>10. ASSUME NEW x \in Post, x # p PROVE PostOK(x)'
    <3>1. PostOK(x) /\ posts'[x] = posts[x]
      BY <2>8, <2>10 DEF MessagesInv, PostsOK
    <3>2. posts[x].pc = "commit" /\ posts[x].mutation # NoMutation => posts[p].mutation # posts[x].mutation
      BY <2>7, <2>10
    <3> QED
      BY <2>3, <2>4, <2>8, <3>1, <3>2 DEF PostOK
  <2> QED
    BY <2>2, <2>4, <2>8, <2>9, <2>10 DEF MessagesInv, MessagesOK, PostsOK
<1>7. ASSUME NEW p \in Post, CommitMessage(p) PROVE MessagesInv'
  <2>1. posts[p] \in PostRow /\ PostOK(p) /\ posts[p].pc = "commit"
    BY <1>7 DEF MessagesInv, PostsOK, CommitMessage
  <2>2. PICK row : row = RowOf(posts[p])
    OBVIOUS
  <2>3. row \in MessageRow /\ row.mutation = posts[p].mutation /\ messages' = messages \cup {row}
    BY <1>7, <2>1, <2>2 DEF PostOK, RowOf, CommitMessage
  <2>4. row.mutation # NoMutation => \A m \in messages : m.mutation # row.mutation
    BY <2>1, <2>3 DEF PostOK
  <2>5. MessagesOK'
    BY <1>7, <2>3, <2>4 DEF MessagesInv, MessagesOK, CommitMessage
  <2>6. PICK t : t = [posts[p] EXCEPT !.pc = "publish"]
    OBVIOUS
  <2>7. t \in PostRow /\ t.pc = "publish" /\ RowOf(t) = row /\ posts' = [posts EXCEPT ![p] = t]
    BY <1>7, <2>1, <2>2, <2>6 DEF PostRow, RowOf, CommitMessage
  <2>8. posts' \in [Post -> PostRow] /\ posts'[p] = t /\ \A x \in Post : x # p => posts'[x] = posts[x]
    BY <2>7 DEF MessagesInv, PostsOK
  <2>9. PostOK(p)'
    BY <2>3, <2>7, <2>8 DEF PostOK, RowOf
  <2>10. ASSUME NEW x \in Post, x # p PROVE PostOK(x)'
    <3>1. PostOK(x) /\ posts'[x] = posts[x]
      BY <2>8, <2>10 DEF MessagesInv, PostsOK
    <3>2. posts[x].pc = "commit" /\ posts[x].mutation # NoMutation => row.mutation # posts[x].mutation
      BY <2>1, <2>3, <2>10, <3>1 DEF PostOK
    <3> QED
      BY <2>3, <2>7, <2>8, <3>1, <3>2 DEF PostOK, RowOf
  <2> QED
    BY <1>7, <2>5, <2>8, <2>9, <2>10 DEF MessagesInv, PostsOK, CommitMessage
<1>8. ASSUME NEW p \in Post, AnswerMessage(p) PROVE MessagesInv'
  <2>1. [id |-> posts[p].id, mutation |-> posts[p].mutation] \in messages
    BY <1>8 DEF MessagesInv, PostsOK, PostOK, RowOf, AnswerMessage
  <2>2. MessagesOK'
    BY <1>8, <2>1 DEF MessagesInv, MessagesOK, AnswerMessage
  <2>3. PostsOK'
    BY <1>2, <1>8, PostMoves DEF AnswerMessage
  <2> QED
    BY <1>8, <2>2, <2>3 DEF MessagesInv, AnswerMessage
<1>9. ASSUME UNCHANGED <<posts, messages, drawn, acks>> PROVE MessagesInv'
  BY <1>9 DEF MessagesInv, MessagesOK, PostsOK, PostOK, RowOf
<1>10. ASSUME NEW c \in ReadCall,
              (\E u \in Reader, id \in 1..MaxMessages : ReadUpTo(c, u, id))
                \/ FetchPosition(c) \/ IgnoreBackward(c) \/ UpsertPosition(c)
       PROVE  MessagesInv'
  BY <1>9, <1>10 DEF ReadUpTo, FetchPosition, IgnoreBackward, UpsertPosition, ReadsOnly
<1>11. CASE OpenCase \/ ScrollBack \/ UNCHANGED messagingVars
  BY <1>9, <1>11 DEF OpenCase, ScrollBack, messagingVars
<1>12. CASE MessagingCrash
  BY <1>2, <1>12 DEF MessagingCrash, MessagesInv, MessagesOK, PostsOK, PostOK
<1> QED
  BY <1>3, <1>4, <1>5, <1>6, <1>7, <1>8, <1>10, <1>11, <1>12 DEF MessagingNext

\* The invariant of the messages holds of every run.
THEOREM MessagesInvariance == MessagingSpec => []MessagesInv
BY MessagesBegin, MessagesStep, PTL DEF MessagingSpec

(***************************************************************************)
(* createMessage: one message of a mutation, and every answer names it,    *)
(* for any number of posts in whatever overlap, with crashes anywhere.     *)
(***************************************************************************)
THEOREM PostedOnce == MessagingSpec => []OneMessagePerMutation
<1>1. MessagesInv => OneMessagePerMutation
  <2> SUFFICES ASSUME MessagesInv, NEW mutation \in Mutation
               PROVE  /\ Cardinality({ m \in messages : m.mutation = mutation }) <= 1
                      /\ \A a \in acks : a[1] = mutation => [id |-> a[2], mutation |-> mutation] \in messages
    BY DEF OneMessagePerMutation
  <2>1. mutation # NoMutation
    BY NoMutationAssumption
  <2>2. PICK S : S = { m \in messages : m.mutation = mutation }
    OBVIOUS
  <2>3. \A x, y \in S : x = y
    BY <2>1, <2>2 DEF MessagesInv, MessagesOK
  <2>4. Cardinality(S) \in 0..1
    BY <2>3, NoTwo
  <2>5. Cardinality(S) <= 1
    BY <2>4
  <2>6. \A a \in acks : a[1] = mutation => [id |-> a[2], mutation |-> mutation] \in messages
    BY DEF MessagesInv, MessagesOK
  <2> QED
    BY <2>2, <2>5, <2>6
<1> QED
  BY <1>1, MessagesInvariance, PTL

-----------------------------------------------------------------------------
(* Invitations. *)

InvitePC == {"none", "findUser", "createUser", "findRole", "findRoleOfUser", "createRole", "createRoleOfUser",
             "deleteInvite", "findInvites", "deleteInvites", "createInvite", "commit", "commitSession"}
TxRow == [pc: InvitePC, invite: Invites, newUser: BOOLEAN, newRole: BOOLEAN,
          snapshot: SUBSET Invites, locked: SUBSET Invites]

\* An invite has one row, and none once somebody has signed in with it.
InvitesOK ==
  /\ lastInvite \in 0..MaxInvites
  /\ invites \subseteq Invites
  /\ \A i \in invites : i.id \in 1..lastInvite
  /\ \A i, j \in invites : i.id = j.id => i = j
  /\ inviteSessions \in [1..MaxInvites -> 0..1]
  /\ \A n \in 1..MaxInvites : inviteSessions[n] = 1 => n <= lastInvite /\ \A i \in invites : i.id # n

\* The row that a transaction is about to insert.
Inserts(t) == t.pc = "commit" /\ ~t.newRole

\* A transaction deletes rows that are there and that it alone has locked; the invite
\* it accepts is one of them, the invite it creates is new.
TxOK(w) ==
  /\ itx[w].locked \subseteq invites
  /\ \A v \in Other(w) : itx[v].locked \cap itx[w].locked = {}
  /\ itx[w].pc = "commitSession" => itx[w].locked = {itx[w].invite}
  /\ Inserts(itx[w]) =>
       /\ itx[w].invite.id \in 1..lastInvite
       /\ inviteSessions[itx[w].invite.id] = 0
       /\ \A i \in invites : i.id # itx[w].invite.id
       /\ \A v \in Other(w) : Inserts(itx[v]) => itx[v].invite.id # itx[w].invite.id

InviteInv == InvitesOK /\ itx \in [InviteTx -> TxRow] /\ \A w \in InviteTx : TxOK(w)

LEMMA IdleRow == Idle \in TxRow /\ Idle.pc = "none" /\ Idle.locked = {}
<1>1. NoInvite \in Invites
  BY MaxInvitesAssumption DEF NoInvite, Invites
<1>2. Idle = [pc |-> "none", invite |-> NoInvite, newUser |-> FALSE, newRole |-> FALSE,
              snapshot |-> {}, locked |-> {}]
  BY DEF Idle
<1>3. Idle \in TxRow
  BY <1>1, <1>2 DEF TxRow, InvitePC
<1> QED
  BY <1>2, <1>3

LEMMA InvitesBegin == InviteInit => InviteInv
<1> SUFFICES ASSUME InviteInit PROVE InviteInv
  OBVIOUS
<1>1. InvitesOK
  BY MaxInvitesAssumption DEF InviteInit, InvitesOK
<1>2. itx \in [InviteTx -> TxRow] /\ \A w \in InviteTx : itx[w] = Idle
  BY IdleRow DEF InviteInit
<1>3. \A w \in InviteTx : TxOK(w)
  BY <1>2, IdleRow DEF TxOK, Inserts, Other
<1> QED
  BY <1>1, <1>2, <1>3 DEF InviteInv

\* A transaction that commits nothing and inserts no invite, with locks that are its own.
LEMMA TxMoves ==
  ASSUME InviteInv, NEW w \in InviteTx, NEW t \in TxRow, Go(w, t),
         t.locked \subseteq invites, \A v \in Other(w) : itx[v].locked \cap t.locked = {},
         t.pc = "commitSession" => t.locked = {t.invite}, ~Inserts(t)
  PROVE  InviteInv'
<1>1. itx' = [itx EXCEPT ![w] = t] /\ UNCHANGED <<invites, inviteSessions, lastInvite>>
  BY DEF Go, NothingCommitted
<1>2. itx' \in [InviteTx -> TxRow] /\ itx'[w] = t /\ \A x \in InviteTx : x # w => itx'[x] = itx[x]
  BY <1>1 DEF InviteInv
<1>3. InvitesOK'
  BY <1>1 DEF InviteInv, InvitesOK
<1>4. TxOK(w)'
  BY <1>1, <1>2 DEF TxOK, Other, Inserts
<1>5. ASSUME NEW x \in InviteTx, x # w PROVE TxOK(x)'
  <2>1. TxOK(x) /\ itx'[x] = itx[x] /\ w \in Other(x) /\ x \in Other(w)
    BY <1>2, <1>5 DEF InviteInv, Other
  <2>2. \A v \in Other(x) : itx'[v].locked \cap itx[x].locked = {}
    BY <1>2, <2>1 DEF TxOK, Other
  <2>3. \A v \in Other(x) : Inserts(itx'[v]) => v # w /\ itx'[v] = itx[v]
    BY <1>2 DEF Other
  <2>4. itx[x].locked \subseteq invites
        /\ (itx[x].pc = "commitSession" => itx[x].locked = {itx[x].invite})
        /\ (Inserts(itx[x]) =>
              /\ itx[x].invite.id \in 1..lastInvite
              /\ inviteSessions[itx[x].invite.id] = 0
              /\ \A i \in invites : i.id # itx[x].invite.id
              /\ \A v \in Other(x) : Inserts(itx'[v]) => itx'[v].invite.id # itx[x].invite.id)
    BY <2>1, <2>3 DEF TxOK
  <2> QED
    BY <1>1, <2>1, <2>2, <2>4 DEF TxOK, Inserts
<1> QED
  BY <1>2, <1>3, <1>4, <1>5 DEF InviteInv

LEMMA TxEnds == ASSUME InviteInv, NEW w \in InviteTx, Go(w, Idle) PROVE InviteInv'
BY IdleRow, TxMoves DEF Inserts

\* It goes on to another statement, with what it has locked.
LEMMA TxGoesOn ==
  ASSUME InviteInv, NEW w \in InviteTx, NEW t \in TxRow, Go(w, t), t.locked = itx[w].locked,
         t.pc # "commitSession", ~Inserts(t)
  PROVE  InviteInv'
<1>1. itx[w].locked \subseteq invites /\ \A v \in Other(w) : itx[v].locked \cap itx[w].locked = {}
  BY DEF InviteInv, TxOK
<1> QED
  BY <1>1, TxMoves

LEMMA RowAtPC ==
  ASSUME NEW r \in TxRow, NEW x \in InvitePC, NEW t, t = [r EXCEPT !.pc = x]
  PROVE  t \in TxRow /\ t.pc = x /\ t.locked = r.locked /\ t.invite = r.invite /\ t.newRole = r.newRole
BY DEF TxRow

\* The statements up to the commit, except the one that draws an invite.
InviteStatement(w) ==
  \/ StartAccept(w) \/ FindUser(w) \/ CreateUser(w) \/ FindRole(w) \/ CreateRole(w) \/ DeleteInvite(w)
  \/ \E roleKey \in RoleKey : StartProvision(w, roleKey)
  \/ FindInvites(w) \/ DeleteInvites(w) \/ RollbackInvite(w)

LEMMA InviteStatements == ASSUME InviteInv, NEW w \in InviteTx, InviteStatement(w) PROVE InviteInv'
<1>0. itx[w] \in TxRow /\ TxOK(w)
  BY DEF InviteInv
<1>1. CASE StartAccept(w)
  <2>1. PICK i \in invites : Go(w, [Idle EXCEPT !.pc = "findUser", !.invite = i])
    BY <1>1 DEF StartAccept
  <2>2. PICK t : t = [Idle EXCEPT !.pc = "findUser", !.invite = i]
    OBVIOUS
  <2>3. i \in Invites
    BY DEF InviteInv, InvitesOK
  <2>4. t \in TxRow /\ t.pc = "findUser" /\ t.locked = {}
    BY <2>2, <2>3, IdleRow DEF TxRow, InvitePC
  <2> QED
    BY <2>1, <2>2, <2>4, TxMoves DEF Inserts
<1>2. ASSUME NEW x \in InvitePC, x # "commitSession", x # "commit", Go(w, [itx[w] EXCEPT !.pc = x]) PROVE InviteInv'
  <2>1. PICK t : t = [itx[w] EXCEPT !.pc = x]
    OBVIOUS
  <2> QED
    BY <1>0, <1>2, <2>1, RowAtPC, TxGoesOn DEF Inserts
<1>3. CASE FindUser(w)
  <2>1. PICK x : x = IF userExists THEN "findRole" ELSE "createUser"
    OBVIOUS
  <2> QED
    BY <1>2, <1>3, <2>1 DEF FindUser, InvitePC
<1>4. CASE CreateUser(w)
  <2>1. CASE Go(w, Idle)
    BY <2>1, TxEnds
  <2>2. CASE Go(w, [itx[w] EXCEPT !.pc = "findRole", !.newUser = TRUE])
    <3>1. PICK t : t = [itx[w] EXCEPT !.pc = "findRole", !.newUser = TRUE]
      OBVIOUS
    <3>2. t \in TxRow /\ t.pc = "findRole" /\ t.locked = itx[w].locked
      BY <1>0, <3>1 DEF TxRow, InvitePC
    <3> QED
      BY <2>2, <3>1, <3>2, TxGoesOn DEF Inserts
  <2> QED
    BY <1>4, <2>1, <2>2 DEF CreateUser
<1>5. CASE FindRole(w)
  <2>1. PICK attached : attached = (itx[w].invite.roleKey \in userRoles /\ ~itx[w].newUser)
    OBVIOUS
  <2>2. PICK x : x = IF attached THEN "deleteInvite" ELSE "createRole"
    OBVIOUS
  <2>3. Go(w, [itx[w] EXCEPT !.pc = x]) \/ Go(w, Idle) \/ Go(w, [itx[w] EXCEPT !.pc = "createRoleOfUser"])
    BY <1>5, <2>1, <2>2 DEF FindRole
  <2> QED
    BY <1>2, <2>2, <2>3, TxEnds DEF InvitePC
<1>6. CASE CreateRole(w)
  <2>1. PICK x : x = IF At(w, "createRole") THEN "deleteInvite" ELSE "commit"
    OBVIOUS
  <2>2. CASE Go(w, Idle)
    BY <2>2, TxEnds
  <2>3. CASE Go(w, [itx[w] EXCEPT !.pc = x, !.newRole = TRUE])
    <3>1. PICK t : t = [itx[w] EXCEPT !.pc = x, !.newRole = TRUE]
      OBVIOUS
    <3>2. t \in TxRow /\ t.pc = x /\ t.locked = itx[w].locked /\ t.newRole
      BY <1>0, <2>1, <3>1 DEF TxRow, InvitePC
    <3>3. ~Inserts(t)
      BY <3>2, Zenon DEF Inserts
    <3>4. t.pc # "commitSession"
      BY <2>1, <3>2
    <3>5. Go(w, t)
      BY <2>3, <3>1
    <3> QED
      BY <3>2, <3>3, <3>4, <3>5, TxGoesOn
  <2> QED
    BY <1>6, <2>1, <2>2, <2>3 DEF CreateRole
<1>7. CASE DeleteInvite(w)
  <2>1. PICK rows : rows = {itx[w].invite}
    OBVIOUS
  <2>2. CASE Go(w, Idle)
    BY <2>2, TxEnds
  <2>3. CASE itx[w].invite \in invites /\ Go(w, [itx[w] EXCEPT !.pc = "commitSession", !.locked = {itx[w].invite}])
    <3>1. PICK t : t = [itx[w] EXCEPT !.pc = "commitSession", !.locked = rows]
      OBVIOUS
    <3>2. rows \in SUBSET Invites /\ rows \subseteq invites
      BY <2>1, <2>3 DEF InviteInv, InvitesOK
    <3>3. t \in TxRow /\ t.pc = "commitSession" /\ t.locked = rows /\ t.invite = itx[w].invite
      BY <1>0, <3>1, <3>2 DEF TxRow, InvitePC
    <3>4. \A v \in Other(w) : itx[v].locked \cap rows = {}
      BY <1>7, <2>1 DEF DeleteInvite, Unlocked
    <3>5. Go(w, t)
      BY <2>1, <2>3, <3>1
    <3> QED
      BY <2>1, <3>2, <3>3, <3>4, <3>5, TxMoves DEF Inserts
  <2> QED
    BY <1>7, <2>2, <2>3 DEF DeleteInvite
<1>8. ASSUME NEW roleKey \in RoleKey, StartProvision(w, roleKey) PROVE InviteInv'
  <2>1. PICK x : x = IF userExists THEN "findRoleOfUser" ELSE "findInvites"
    OBVIOUS
  <2>2. PICK i : i = [id |-> 0, roleKey |-> roleKey]
    OBVIOUS
  <2>3. PICK t : t = [Idle EXCEPT !.pc = x, !.invite = i]
    OBVIOUS
  <2>4. i \in Invites
    BY <2>2, MaxInvitesAssumption DEF Invites
  <2>5. t \in TxRow /\ t.pc = x /\ t.locked = {}
    BY <2>1, <2>3, <2>4, IdleRow DEF TxRow, InvitePC
  <2>6. Go(w, t)
    BY <1>8, <2>1, <2>2, <2>3 DEF StartProvision
  <2> QED
    BY <2>1, <2>5, <2>6, TxMoves DEF Inserts
<1>9. CASE FindInvites(w)
  <2>1. PICK t : t = [itx[w] EXCEPT !.pc = "deleteInvites", !.snapshot = invites]
    OBVIOUS
  <2>2. invites \in SUBSET Invites
    BY DEF InviteInv, InvitesOK
  <2>3. t \in TxRow /\ t.pc = "deleteInvites" /\ t.locked = itx[w].locked
    BY <1>0, <2>1, <2>2 DEF TxRow, InvitePC
  <2> QED
    BY <1>9, <2>1, <2>3, TxGoesOn DEF FindInvites, Inserts
<1>10. CASE DeleteInvites(w)
  <2>1. PICK rows : rows = itx[w].snapshot \cap invites
    OBVIOUS
  <2>2. PICK t : t = [itx[w] EXCEPT !.pc = "createInvite", !.snapshot = {}, !.locked = rows]
    OBVIOUS
  <2>3. rows \in SUBSET Invites /\ rows \subseteq invites
    BY <2>1 DEF InviteInv, InvitesOK
  <2>4. t \in TxRow /\ t.pc = "createInvite" /\ t.locked = rows
    BY <1>0, <2>2, <2>3 DEF TxRow, InvitePC
  <2>5. \A v \in Other(w) : itx[v].locked \cap rows = {}
    BY <1>10, <2>1 DEF DeleteInvites, Unlocked
  <2>6. Go(w, t)
    BY <1>10, <2>1, <2>2 DEF DeleteInvites
  <2> QED
    BY <2>3, <2>4, <2>5, <2>6, TxMoves DEF Inserts
<1>11. CASE RollbackInvite(w)
  BY <1>11, TxEnds DEF RollbackInvite
<1> QED
  BY <1>1, <1>3, <1>4, <1>5, <1>6, <1>7, <1>8, <1>9, <1>10, <1>11 DEF InviteStatement

LEMMA InviteIsDrawn == ASSUME InviteInv, NEW w \in InviteTx, CreateInvite(w) PROVE InviteInv'
<1>1. itx[w] \in TxRow /\ TxOK(w) /\ lastInvite \in 0..MaxInvites /\ InvitesOK
  BY DEF InviteInv, InvitesOK
<1>2. PICK n : n = lastInvite + 1
  OBVIOUS
<1>3. n \in 1..MaxInvites /\ lastInvite' = n
  BY <1>1, <1>2, MaxInvitesAssumption DEF CreateInvite
<1>4. PICK i : i = [itx[w].invite EXCEPT !.id = n]
  OBVIOUS
<1>5. i \in Invites /\ i.id = n
  BY <1>1, <1>3, <1>4, MaxInvitesAssumption DEF TxRow, Invites
<1>6. PICK t : t = [itx[w] EXCEPT !.pc = "commit", !.invite = i]
  OBVIOUS
<1>7. t \in TxRow /\ t.pc = "commit" /\ t.invite = i /\ t.locked = itx[w].locked
  BY <1>1, <1>5, <1>6 DEF TxRow, InvitePC
<1>8. itx' = [itx EXCEPT ![w] = t]
  BY <1>2, <1>4, <1>6 DEF CreateInvite, InviteInv
<1>9. itx' \in [InviteTx -> TxRow] /\ itx'[w] = t /\ \A x \in InviteTx : x # w => itx'[x] = itx[x]
  BY <1>7, <1>8 DEF InviteInv
<1>10. UNCHANGED <<invites, inviteSessions>>
  BY DEF CreateInvite, NothingCommitted
<1>11. InvitesOK'
  BY <1>1, <1>2, <1>3, <1>10, MaxInvitesAssumption DEF InvitesOK
<1>12. \A v \in Other(w) : Inserts(itx[v]) => itx[v].invite.id \in 1..lastInvite
  BY DEF InviteInv, TxOK, Other
<1>13. TxOK(w)'
  <2>1. inviteSessions[n] = 0 /\ \A j \in invites : j.id # n
    BY <1>1, <1>2, <1>3 DEF InvitesOK
  <2>2. \A v \in Other(w) : Inserts(itx[v]) => itx[v].invite.id # n
    BY <1>1, <1>2, <1>12
  <2>3. \A v \in Other(w) : itx'[v] = itx[v]
    BY <1>9 DEF Other
  <2>4. itx[w].locked \subseteq invites /\ \A v \in Other(w) : itx[v].locked \cap itx[w].locked = {}
    BY <1>1 DEF TxOK
  <2> QED
    BY <1>3, <1>5, <1>7, <1>9, <1>10, <2>1, <2>2, <2>3, <2>4 DEF TxOK, Other, Inserts
<1>14. ASSUME NEW x \in InviteTx, x # w PROVE TxOK(x)'
  <2>1. TxOK(x) /\ itx'[x] = itx[x] /\ x \in Other(w)
    BY <1>9, <1>14 DEF InviteInv, Other
  <2>2. \A v \in Other(x) : itx'[v].locked = itx[v].locked
    BY <1>7, <1>9 DEF Other
  <2>3. Inserts(itx[x]) =>
          /\ itx[x].invite.id \in 1..n
          /\ \A v \in Other(x) : Inserts(itx'[v]) => itx'[v].invite.id # itx[x].invite.id
    <3>1. SUFFICES ASSUME Inserts(itx[x]) PROVE itx[x].invite.id \in 1..n
            /\ \A v \in Other(x) : Inserts(itx'[v]) => itx'[v].invite.id # itx[x].invite.id
      OBVIOUS
    <3>2. itx[x].invite.id \in 1..lastInvite
      BY <1>12, <2>1, <3>1
    <3>3. itx[x].invite.id \in 1..n /\ itx[x].invite.id # n
      BY <1>1, <1>2, <3>2
    <3>4. ASSUME NEW v \in Other(x), Inserts(itx'[v]) PROVE itx'[v].invite.id # itx[x].invite.id
      <4>1. CASE v = w
        BY <1>5, <1>7, <1>9, <3>3, <4>1
      <4>2. CASE v # w
        BY <1>9, <2>1, <3>1, <3>4, <4>2 DEF TxOK, Other
      <4> QED
        BY <4>1, <4>2
    <3> QED
      BY <3>3, <3>4
  <2>4. /\ itx[x].locked \subseteq invites
        /\ \A v \in Other(x) : itx[v].locked \cap itx[x].locked = {}
        /\ itx[x].pc = "commitSession" => itx[x].locked = {itx[x].invite}
        /\ Inserts(itx[x]) => inviteSessions[itx[x].invite.id] = 0 /\ \A j \in invites : j.id # itx[x].invite.id
    BY <2>1 DEF TxOK
  <2> QED
    BY <1>3, <1>10, <2>1, <2>2, <2>3, <2>4 DEF TxOK, Other, Inserts
<1> QED
  BY <1>9, <1>11, <1>13, <1>14 DEF InviteInv

LEMMA InviteCommits == ASSUME InviteInv, NEW w \in InviteTx, CommitInvite(w) PROVE InviteInv'
<1>1. PICK t : t = itx[w]
  OBVIOUS
<1>2. t \in TxRow /\ TxOK(w) /\ InvitesOK
  BY <1>1 DEF InviteInv
<1>3. PICK new : new = IF Inserts(t) THEN {t.invite} ELSE {}
  OBVIOUS
<1>4. invites' = (invites \ t.locked) \cup new /\ lastInvite' = lastInvite
  BY <1>1, <1>3 DEF CommitInvite, Inserts
<1>5. \A i \in new : Inserts(t) /\ i = t.invite /\ i \in Invites /\ i.id \in 1..lastInvite
                     /\ inviteSessions[i.id] = 0 /\ \A j \in invites : j.id # i.id
  BY <1>1, <1>2, <1>3 DEF TxOK, TxRow
<1>6. itx' \in [InviteTx -> TxRow] /\ itx'[w] = Idle /\ \A x \in InviteTx : x # w => itx'[x] = itx[x]
  BY IdleRow DEF CommitInvite, InviteInv
<1>7. /\ lastInvite \in 0..MaxInvites /\ invites' \subseteq Invites
      /\ \A i \in invites' : i.id \in 1..lastInvite
      /\ \A i, j \in invites' : i.id = j.id => i = j
  BY <1>2, <1>4, <1>5 DEF InvitesOK
\* Either it signs in with an invite that has just gone, or no session changes.
<1>8. \/ inviteSessions' = inviteSessions
      \/ /\ t.invite \in invites /\ t.invite.id \in 1..MaxInvites /\ new = {}
         /\ inviteSessions[t.invite.id] = 0
         /\ inviteSessions' = [inviteSessions EXCEPT ![t.invite.id] = 1]
         /\ \A i \in invites' : i.id # t.invite.id
  <2>1. CASE t.pc = "commitSession"
    <3>1. t.locked = {t.invite} /\ t.invite \in invites
      BY <1>1, <1>2, <2>1 DEF TxOK
    <3>2. new = {}
      BY <1>3, <2>1 DEF Inserts
    <3>3. t.invite.id \in 1..MaxInvites
      BY <1>2, <3>1, MaxInvitesAssumption DEF InvitesOK
    <3>4. inviteSessions[t.invite.id] = 0
      BY <1>2, <3>1, <3>3 DEF InvitesOK
    <3>5. inviteSessions' = [inviteSessions EXCEPT ![t.invite.id] = 1]
      BY <1>1, <2>1, <3>4 DEF CommitInvite
    <3>6. \A i \in invites' : i.id # t.invite.id
      BY <1>2, <1>4, <3>1, <3>2 DEF InvitesOK
    <3> QED
      BY <3>1, <3>2, <3>3, <3>4, <3>5, <3>6
  <2>2. CASE t.pc # "commitSession"
    BY <1>1, <2>2 DEF CommitInvite
  <2> QED
    BY <2>1, <2>2
<1>9. /\ inviteSessions' \in [1..MaxInvites -> 0..1]
      /\ \A n \in 1..MaxInvites : inviteSessions'[n] = 1 => n <= lastInvite /\ \A i \in invites' : i.id # n
  <2>1. ASSUME NEW n \in 1..MaxInvites, inviteSessions[n] = 1 PROVE n <= lastInvite /\ \A i \in invites' : i.id # n
    <3>1. n <= lastInvite /\ \A i \in invites : i.id # n
      BY <1>2, <2>1 DEF InvitesOK
    <3>2. \A i \in new : i.id # n
      BY <1>5, <2>1
    <3> QED
      BY <1>4, <3>1, <3>2
  <2>2. CASE inviteSessions' = inviteSessions
    BY <1>2, <2>1, <2>2 DEF InvitesOK
  <2>3. CASE inviteSessions' # inviteSessions
    <3>1. t.invite.id \in 1..lastInvite
      BY <1>2, <1>8, <2>3 DEF InvitesOK
    <3>2. inviteSessions \in [1..MaxInvites -> 0..1] /\ lastInvite \in Nat
      BY <1>2, MaxInvitesAssumption DEF InvitesOK
    <3>3. ASSUME NEW n \in 1..MaxInvites, inviteSessions'[n] = 1 PROVE n <= lastInvite /\ \A i \in invites' : i.id # n
      <4>1. CASE n = t.invite.id
        BY <1>8, <2>3, <3>1, <3>2, <4>1
      <4>2. CASE n # t.invite.id
        <5>1. inviteSessions[n] = 1
          BY <1>8, <2>3, <3>2, <3>3, <4>2
        <5> QED
          BY <2>1, <5>1
      <4> QED
        BY <4>1, <4>2
    <3>4. inviteSessions' \in [1..MaxInvites -> 0..1]
      BY <1>8, <2>3, <3>2
    <3> QED
      BY <3>3, <3>4
  <2> QED
    BY <2>2, <2>3
<1>10. InvitesOK'
  BY <1>4, <1>7, <1>9 DEF InvitesOK
<1>11. TxOK(w)'
  BY <1>6, IdleRow DEF TxOK, Inserts
<1>12. ASSUME NEW x \in InviteTx, x # w PROVE TxOK(x)'
  <2>1. TxOK(x) /\ itx'[x] = itx[x] /\ w \in Other(x) /\ x \in Other(w)
    BY <1>6, <1>12 DEF InviteInv, Other
  <2>2. itx[x].locked \subseteq invites'
    <3>1. itx[x].locked \subseteq invites /\ itx[x].locked \cap t.locked = {}
      BY <1>1, <1>2, <2>1 DEF TxOK
    <3> QED
      BY <1>4, <3>1
  <2>3. \A v \in Other(x) : itx'[v].locked \cap itx[x].locked = {}
    BY <1>6, <2>1, IdleRow DEF TxOK, Other
  <2>4. itx[x].pc = "commitSession" => itx[x].locked = {itx[x].invite}
    BY <2>1 DEF TxOK
  <2>5. ASSUME Inserts(itx[x])
        PROVE  /\ itx[x].invite.id \in 1..lastInvite
               /\ inviteSessions'[itx[x].invite.id] = 0
               /\ \A i \in invites' : i.id # itx[x].invite.id
               /\ \A v \in Other(x) : Inserts(itx'[v]) => itx'[v].invite.id # itx[x].invite.id
    <3>1. itx[x].invite.id \in 1..lastInvite /\ inviteSessions[itx[x].invite.id] = 0
          /\ \A i \in invites : i.id # itx[x].invite.id
      BY <2>1, <2>5 DEF TxOK
    <3>2. \A i \in new : i.id # itx[x].invite.id
      BY <1>1, <1>5, <2>1, <2>5 DEF TxOK
    <3>3. \A i \in invites' : i.id # itx[x].invite.id
      BY <1>4, <3>1, <3>2
    <3>4. inviteSessions'[itx[x].invite.id] = 0
      <4>1. t.invite \in invites => t.invite.id # itx[x].invite.id
        BY <3>1
      <4>2. inviteSessions \in [1..MaxInvites -> 0..1] /\ itx[x].invite.id \in 1..MaxInvites
        BY <1>7, <1>2, <3>1, MaxInvitesAssumption DEF InvitesOK
      <4> QED
        BY <1>8, <3>1, <4>1, <4>2
    <3>5. \A v \in Other(x) : Inserts(itx'[v]) => v # w /\ itx'[v] = itx[v]
      BY <1>6, IdleRow DEF Other, Inserts
    <3>6. \A v \in Other(x) : Inserts(itx'[v]) => itx'[v].invite.id # itx[x].invite.id
      BY <2>1, <2>5, <3>5 DEF TxOK
    <3> QED
      BY <3>1, <3>3, <3>4, <3>6
  <2> QED
    BY <1>4, <2>1, <2>2, <2>3, <2>4, <2>5 DEF TxOK, Inserts, Other
<1> QED
  BY <1>6, <1>10, <1>11, <1>12 DEF InviteInv

\* The invariant of the invitations holds of every run.
THEOREM InviteInvariance == InviteSpec => []InviteInv
<1>1. InviteInv /\ [InviteNext]_inviteVars => InviteInv'
  <2> SUFFICES ASSUME InviteInv, [InviteNext]_inviteVars PROVE InviteInv'
    OBVIOUS
  <2>1. CASE UNCHANGED inviteVars
    BY <2>1 DEF inviteVars, InviteInv, InvitesOK, TxOK, Inserts, Other
  <2>2. ASSUME NEW w \in InviteTx, InviteStatement(w) \/ CreateInvite(w) \/ CommitInvite(w) PROVE InviteInv'
    BY <2>2, InviteStatements, InviteIsDrawn, InviteCommits
  <2> QED
    BY <2>1, <2>2 DEF InviteNext, InviteStatement
<1> QED
  BY <1>1, InvitesBegin, PTL DEF InviteSpec

\* A transaction is about a role of the tenant, and so is each invite that it leaves.
RolesKnown ==
  /\ userExists \in BOOLEAN /\ userRoles \subseteq RoleKey
  /\ \A i \in invites : i.roleKey \in RoleKey
  /\ \A w \in InviteTx : itx[w] = Idle \/ itx[w].invite.roleKey \in RoleKey

\* A statement of a transaction that stays about its role, or ends.
LEMMA RoleStays ==
  ASSUME InviteInv, RolesKnown, NEW w \in InviteTx, NEW t, Go(w, t), t = Idle \/ t.invite.roleKey \in RoleKey
  PROVE  RolesKnown'
<1>1. \A v \in InviteTx : itx'[v] = IF v = w THEN t ELSE itx[v]
  BY DEF Go, InviteInv
<1> QED
  BY <1>1 DEF Go, NothingCommitted, RolesKnown

LEMMA RolesStep == InviteInv /\ RolesKnown /\ [InviteNext]_inviteVars => RolesKnown'
<1> SUFFICES ASSUME InviteInv, RolesKnown, [InviteNext]_inviteVars PROVE RolesKnown'
  OBVIOUS
<1>1. CASE UNCHANGED inviteVars
  BY <1>1 DEF inviteVars, RolesKnown
<1>2. ASSUME NEW w \in InviteTx PROVE itx[w] \in TxRow /\ itx[w].invite \in Invites
  BY <1>2 DEF InviteInv, TxRow
<1>3. ASSUME NEW w \in InviteTx, itx[w].pc # "none" PROVE itx[w].invite.roleKey \in RoleKey
  BY <1>3, IdleRow DEF RolesKnown
<1>4. ASSUME NEW w \in InviteTx, NEW t, Go(w, t), itx[w].pc # "none", t = Idle \/ t.invite = itx[w].invite
      PROVE  RolesKnown'
  BY <1>3, <1>4, RoleStays
<1>5. ASSUME NEW w \in InviteTx, StartAccept(w) PROVE RolesKnown'
  <2>1. PICK i \in invites : Go(w, [Idle EXCEPT !.pc = "findUser", !.invite = i])
    BY <1>5, Zenon DEF StartAccept
  <2>2. [Idle EXCEPT !.pc = "findUser", !.invite = i].invite.roleKey \in RoleKey
    BY DEF RolesKnown, Idle
  <2> QED
    BY <2>1, <2>2, RoleStays
<1>6. ASSUME NEW w \in InviteTx, NEW roleKey \in RoleKey, StartProvision(w, roleKey) PROVE RolesKnown'
  <2>1. PICK t : t = [Idle EXCEPT !.pc = IF userExists THEN "findRoleOfUser" ELSE "findInvites",
                                  !.invite = [id |-> 0, roleKey |-> roleKey]]
    OBVIOUS
  <2>2. t.invite.roleKey \in RoleKey
    BY <2>1 DEF Idle
  <2>3. Go(w, t)
    BY <1>6, <2>1 DEF StartProvision
  <2> QED
    BY <2>2, <2>3, RoleStays
<1>7. ASSUME NEW w \in InviteTx,
             \/ FindUser(w) \/ CreateUser(w) \/ FindRole(w) \/ CreateRole(w) \/ DeleteInvite(w)
             \/ FindInvites(w) \/ DeleteInvites(w) \/ RollbackInvite(w)
      PROVE  \E t : Go(w, t) /\ (t = Idle \/ t.invite = itx[w].invite) /\ itx[w].pc # "none"
  <2> USE <1>2 DEF TxRow, At
  <2>1. CASE FindUser(w)
    BY <2>1 DEF FindUser
  <2>2. CASE CreateUser(w)
    BY <2>2 DEF CreateUser
  <2>3. CASE FindRole(w)
    BY <2>3 DEF FindRole
  <2>4. CASE CreateRole(w)
    BY <2>4 DEF CreateRole
  <2>5. CASE DeleteInvite(w)
    BY <2>5 DEF DeleteInvite
  <2>6. CASE FindInvites(w)
    BY <2>6 DEF FindInvites
  <2>7. CASE DeleteInvites(w)
    BY <2>7 DEF DeleteInvites
  <2>8. CASE RollbackInvite(w)
    BY <2>8 DEF RollbackInvite
  <2> QED
    BY <1>7, <2>1, <2>2, <2>3, <2>4, <2>5, <2>6, <2>7, <2>8
<1>8. ASSUME NEW w \in InviteTx, CreateInvite(w) PROVE RolesKnown'
  <2>1. PICK t : t = [itx[w] EXCEPT !.pc = "commit", !.invite.id = lastInvite + 1]
    OBVIOUS
  <2>2. t.invite = [itx[w].invite EXCEPT !.id = lastInvite + 1]
    BY <1>2, <2>1 DEF TxRow
  <2>3. t.invite.roleKey = itx[w].invite.roleKey
    BY <1>2, <2>2 DEF Invites
  <2>4. itx[w].invite.roleKey \in RoleKey
    BY <1>3, <1>8 DEF CreateInvite, At
  <2>5. itx' = [itx EXCEPT ![w] = t] /\ NothingCommitted
    BY <1>8, <2>1 DEF CreateInvite
  <2>6. \A v \in InviteTx : itx'[v] = IF v = w THEN t ELSE itx[v]
    BY <2>5 DEF InviteInv
  <2> QED
    BY <2>3, <2>4, <2>5, <2>6 DEF NothingCommitted, RolesKnown
<1>9. ASSUME NEW w \in InviteTx, CommitInvite(w) PROVE RolesKnown'
  <2>1. itx[w].invite.roleKey \in RoleKey
    BY <1>3, <1>9 DEF CommitInvite, At
  <2>2. \A v \in InviteTx : itx'[v] = IF v = w THEN Idle ELSE itx[v]
    BY <1>9 DEF CommitInvite, InviteInv
  <2>3. userRoles' \subseteq RoleKey /\ \A i \in invites' : i.roleKey \in RoleKey
    BY <1>9, <2>1 DEF CommitInvite, RolesKnown
  <2>4. userExists' = (userExists \/ itx[w].newUser)
    BY <1>9 DEF CommitInvite
  <2>5. userExists' \in BOOLEAN
    BY <2>4, Zenon
  <2> QED
    BY <2>2, <2>3, <2>5 DEF RolesKnown
<1> QED
  BY <1>1, <1>4, <1>5, <1>6, <1>7, <1>8, <1>9 DEF InviteNext

\* What the variables of the invitations hold.
THEOREM InviteTypes == InviteSpec => []InviteTypeOK
<1>1. InviteInit => RolesKnown
  BY DEF InviteInit, RolesKnown
<1>2. InviteInv /\ RolesKnown => InviteTypeOK
  <2> SUFFICES ASSUME InviteInv, RolesKnown PROVE InviteTypeOK
    OBVIOUS
  <2>1. inviteSessions \in [1..MaxInvites -> Nat]
    BY DEF InviteInv, InvitesOK
  <2> QED
    BY <2>1 DEF InviteInv, InvitesOK, TxRow, InvitePC, RolesKnown, InviteTypeOK
<1> QED
  BY <1>1, <1>2, RolesStep, InviteInvariance, PTL DEF InviteSpec

(***************************************************************************)
(* acceptInvite: an invite signs in at most once and is gone once it has,  *)
(* for any number of transactions that accept and replace invites.         *)
(***************************************************************************)
THEOREM InvitedOnce == InviteSpec => []InviteIsSingleUse
<1>1. InviteInv => InviteIsSingleUse
  <2> SUFFICES ASSUME InviteInv, NEW n \in 1..MaxInvites
               PROVE  inviteSessions[n] + Cardinality({ i \in invites : i.id = n }) <= 1
    BY DEF InviteIsSingleUse
  <2>1. PICK S : S = { i \in invites : i.id = n }
    OBVIOUS
  <2>2. \A x, y \in S : x = y
    BY <2>1 DEF InviteInv, InvitesOK
  <2>3. Cardinality(S) \in 0..1 /\ (S = {} => Cardinality(S) = 0)
    BY <2>2, NoTwo
  <2>4. inviteSessions[n] \in 0..1 /\ (inviteSessions[n] = 1 => S = {})
    BY <2>1 DEF InviteInv, InvitesOK
  <2>5. inviteSessions[n] + Cardinality(S) <= 1
    BY <2>3, <2>4
  <2> QED
    BY <2>1, <2>5
<1> QED
  BY <1>1, InviteInvariance, PTL
-----------------------------------------------------------------------------
(* Sessions: a login link, and a revocation. *)

Session == [id: 1..MaxRefresh, login: LoginToken, refresh: 1..MaxRefresh,
            revoked: BOOLEAN, expired: BOOLEAN]

Call == [pc: {"deleteToken", "deleteExpired", "createSession", "rotate"},
         login: LoginToken, session: 0..MaxRefresh]

Creating(a) == calls[a].pc = "createSession"

\* A session is named by a refresh token that only it was given.
IdsAreFresh ==
  /\ \A s \in sessions : s.id <= issued
  /\ \A s, q \in sessions : s.id = q.id => s = q

\* What came of a login token: the token itself, a call that deleted it, or its session.
OneOutcome ==
  /\ \A s, q \in sessions : s.login = q.login => s = q
  /\ \A a, b \in AuthCall : Creating(a) /\ Creating(b) /\ calls[a].login = calls[b].login => a = b
  /\ \A s \in sessions, a \in AuthCall : Creating(a) => s.login # calls[a].login
  /\ \A t \in LoginToken : loginTokens[t] # "deleted" =>
       /\ \A s \in sessions : s.login # t
       /\ \A a \in AuthCall : Creating(a) => calls[a].login # t

SessionsInv == SessionsTypeOK /\ IdsAreFresh /\ OneOutcome

\* A step of a call other than the delete that lets it create a session.
CreatesNothing(a) ==
  \/ calls'[a] \in {calls[a], NoLogin}
  \/ calls'[a] \in Call /\ calls'[a].pc # "createSession"

\* The rows are rewritten one by one; nothing is un-revoked.
Rewritten ==
  \E f : /\ sessions' = { f[s] : s \in sessions }
         /\ \A s \in sessions : /\ f[s] \in Session
                                /\ f[s].id = s.id /\ f[s].login = s.login
                                /\ s.revoked => f[s].revoked

LEMMA CallShape ==
  ASSUME SessionsTypeOK, NEW a \in AuthCall, calls[a].pc # "none"
  PROVE  calls[a] \in Call /\ calls[a].login \in LoginToken
BY DEF SessionsTypeOK, NoLogin, Call

LEMMA SessionsBegin == SessionsInit => SessionsInv
<1> SUFFICES ASSUME SessionsInit PROVE SessionsInv
  OBVIOUS
<1> USE DEF SessionsInit
<1>1. SessionsTypeOK
  BY MaxRefreshAssumption DEF SessionsTypeOK
<1>2. IdsAreFresh /\ OneOutcome
  BY DEF IdsAreFresh, OneOutcome, Creating, NoLogin
<1> QED
  BY <1>1, <1>2 DEF SessionsInv

(* A step that writes neither sessions nor login tokens, and creates nothing. *)
LEMMA CallsAlone ==
  ASSUME SessionsInv, UNCHANGED <<loginTokens, sessions, issued, known>>,
         DOMAIN calls' = AuthCall,
         \A a \in AuthCall : CreatesNothing(a)
  PROVE  SessionsInv'
<1> USE DEF SessionsInv
<1>1. SessionsTypeOK'
  BY DEF SessionsTypeOK, Call, CreatesNothing
<1>2. IdsAreFresh'
  BY DEF IdsAreFresh
<1>3. \A a \in AuthCall : Creating(a)' => Creating(a) /\ calls'[a] = calls[a]
  BY DEF Creating, NoLogin, CreatesNothing
<1>4. OneOutcome'
  BY <1>3 DEF OneOutcome
<1> QED
  BY <1>1, <1>2, <1>4

(* A step that only rewrites sessions and may end a call. *)
LEMMA RewriteKeeps ==
  ASSUME SessionsInv, Rewritten, UNCHANGED loginTokens,
         issued' \in 0..MaxRefresh, issued' >= issued, known' \subseteq 1..issued',
         DOMAIN calls' = AuthCall,
         \A a \in AuthCall : calls'[a] = calls[a] \/ calls'[a] = NoLogin
  PROVE  SessionsInv' /\ \A s \in sessions : s.revoked => ~Authenticated(s.id)'
<1> USE DEF SessionsInv
<1>1. PICK f : /\ sessions' = { f[s] : s \in sessions }
               /\ \A s \in sessions : /\ f[s] \in Session
                                      /\ f[s].id = s.id /\ f[s].login = s.login
                                      /\ s.revoked => f[s].revoked
  BY DEF Rewritten
<1>2. SessionsTypeOK'
  <2>1. sessions' \subseteq Session
    BY <1>1
  <2> QED
    BY <2>1 DEF SessionsTypeOK, Session
<1>3. IdsAreFresh'
  <2>1. \A s \in sessions : s.id \in Int /\ issued \in Int
    BY DEF SessionsTypeOK
  <2> QED
    BY <1>1, <2>1 DEF IdsAreFresh
<1>4. \A a \in AuthCall : Creating(a)' => Creating(a) /\ calls'[a] = calls[a]
  BY DEF Creating, NoLogin
<1>5. OneOutcome'
  BY <1>1, <1>4 DEF OneOutcome
<1>6. ASSUME NEW s \in sessions, s.revoked, NEW q \in sessions', q.id = s.id PROVE q.revoked
  <2>1. PICK r \in sessions : q = f[r]
    BY <1>1, <1>6
  <2>2. r = s
    BY <1>1, <1>6, <2>1 DEF IdsAreFresh
  <2> QED
    BY <1>1, <1>6, <2>1, <2>2
<1> QED
  BY <1>2, <1>3, <1>5, <1>6 DEF Authenticated

(* Login tokens: a token that is requested, expires or is deleted made nothing yet. *)
LEMMA TokensKeep ==
  ASSUME SessionsInv, NEW t \in LoginToken, NEW status \in {"fresh", "expired", "deleted"},
         loginTokens' = [loginTokens EXCEPT ![t] = status],
         status # "deleted" => loginTokens[t] # "deleted",
         UNCHANGED <<sessions, issued, known>>,
         DOMAIN calls' = AuthCall,
         \A a \in AuthCall : calls'[a] = calls[a] \/ calls'[a] = NoLogin
  PROVE  SessionsInv'
<1> USE DEF SessionsInv
<1>1. SessionsTypeOK'
  BY DEF SessionsTypeOK
<1>2. IdsAreFresh'
  BY DEF IdsAreFresh
<1>3. \A a \in AuthCall : Creating(a)' => Creating(a) /\ calls'[a] = calls[a]
  BY DEF Creating, NoLogin
<1>4. \A u \in LoginToken : loginTokens'[u] # "deleted" => loginTokens[u] # "deleted"
  BY DEF SessionsTypeOK
<1>5. OneOutcome'
  BY <1>3, <1>4 DEF OneOutcome
<1> QED
  BY <1>1, <1>2, <1>5

(* The delete by id lets one request through: the one that finds the row. *)
LEMMA DeleteKeeps ==
  ASSUME SessionsInv, NEW a \in AuthCall, DeleteLoginToken(a)
  PROVE  SessionsInv'
<1> USE DEF SessionsInv
<1> DEFINE t == calls[a].login
<1>1. /\ calls[a] \in Call /\ t \in LoginToken /\ calls[a].pc = "deleteToken"
      /\ loginTokens' = [loginTokens EXCEPT ![t] = "deleted"]
      /\ UNCHANGED <<sessions, issued, known>>
  BY CallShape DEF DeleteLoginToken
<1>2. CASE loginTokens[t] = "deleted"
  <2>1. calls' = [calls EXCEPT ![a] = NoLogin]
    BY <1>2 DEF DeleteLoginToken, Reply, Step
  <2> QED
    BY <1>1, <2>1, TokensKeep DEF SessionsTypeOK
<1>3. CASE loginTokens[t] # "deleted"
  <2>1. calls' = [calls EXCEPT ![a] = [calls[a] EXCEPT !.pc = "createSession"]]
    BY <1>3 DEF DeleteLoginToken, Step
  <2>2. /\ DOMAIN calls' = AuthCall
        /\ calls'[a] \in Call /\ calls'[a].login = t
        /\ \A b \in AuthCall : b # a => calls'[b] = calls[b]
    BY <1>1, <2>1 DEF SessionsTypeOK, Call
  <2>3. SessionsTypeOK'
    BY <1>1, <2>2 DEF SessionsTypeOK, Call
  <2>4. IdsAreFresh'
    BY <1>1 DEF IdsAreFresh
  <2>5. \A b \in AuthCall : Creating(b)' => b = a \/ (Creating(b) /\ calls'[b] = calls[b])
    BY <2>2 DEF Creating
  <2>6. /\ \A q \in sessions : q.login # t
        /\ \A b \in AuthCall : Creating(b) => calls[b].login # t
    BY <1>1, <1>3 DEF OneOutcome
  <2>7. \A u \in LoginToken : loginTokens'[u] # "deleted" => u # t /\ loginTokens[u] # "deleted"
    BY <1>1 DEF SessionsTypeOK
  <2>8. OneOutcome'
    BY <1>1, <2>2, <2>5, <2>6, <2>7 DEF OneOutcome
  <2> QED
    BY <2>3, <2>4, <2>8
<1> QED
  BY <1>2, <1>3

(* The session takes the place of the call that creates it. *)
LEMMA CreateKeeps ==
  ASSUME SessionsInv, NEW a \in AuthCall, CreateSession(a)
  PROVE  SessionsInv'
<1> USE DEF SessionsInv
<1> DEFINE t == calls[a].login
           new == [id |-> issued + 1, login |-> t, refresh |-> issued + 1,
                   revoked |-> FALSE, expired |-> FALSE]
<1>1. /\ calls[a].pc = "createSession" /\ t \in LoginToken
      /\ issued' = issued + 1 /\ issued + 1 \in 1..MaxRefresh
      /\ sessions' = sessions \cup {new}
      /\ known' = known \cup {issued + 1}
      /\ calls' = [calls EXCEPT ![a] = NoLogin]
      /\ UNCHANGED loginTokens
  BY CallShape, MaxRefreshAssumption DEF CreateSession, Reply, Step, SessionsTypeOK
<1>2. new \in Session /\ new.id = issued + 1 /\ new.login = t
  BY <1>1 DEF Session
<1>3. SessionsTypeOK'
  <2>1. sessions' \subseteq Session
    BY <1>1, <1>2 DEF SessionsTypeOK, Session
  <2>2. known' \subseteq 1..issued'
    BY <1>1 DEF SessionsTypeOK
  <2>3. issued' \in 0..MaxRefresh
    BY <1>1 DEF SessionsTypeOK
  <2> QED
    BY <1>1, <2>1, <2>2, <2>3 DEF SessionsTypeOK, Session
<1>4. IdsAreFresh'
  <2>1. \A s \in sessions : s.id \in Int /\ issued \in Int
    BY DEF SessionsTypeOK
  <2>2. \A s \in sessions : s.id <= issued
    BY DEF IdsAreFresh
  <2> HIDE DEF new
  <2> QED
    BY <1>1, <1>2, <2>1, <2>2 DEF IdsAreFresh
<1>5. OneOutcome'
  <2>1. \A b \in AuthCall : Creating(b)' => b # a /\ Creating(b) /\ calls'[b] = calls[b]
    BY <1>1 DEF Creating, NoLogin, SessionsTypeOK
  <2>2. \A s \in sessions : s.login # t
    BY <1>1 DEF OneOutcome, Creating
  <2>3. \A b \in AuthCall : Creating(b) /\ b # a => calls[b].login # t
    BY <1>1 DEF OneOutcome, Creating
  <2>4. loginTokens[t] = "deleted"
    BY <1>1 DEF OneOutcome, Creating
  <2> HIDE DEF new
  <2> QED
    BY <1>1, <1>2, <2>1, <2>2, <2>3, <2>4 DEF OneOutcome
<1> QED
  BY <1>3, <1>4, <1>5

LEMMA RotateRewrites ==
  ASSUME SessionsInv, NEW a \in AuthCall, RotateSession(a)
  PROVE  Rewritten
<1> DEFINE f == [s \in sessions |-> IF s.id = calls[a].session THEN Rotated(s, issued + 1) ELSE s]
<1>1. sessions' = { f[s] : s \in sessions }
  BY DEF RotateSession
<1>2. issued + 1 \in 1..MaxRefresh
  BY MaxRefreshAssumption DEF RotateSession, SessionsInv, SessionsTypeOK
<1>3. ASSUME NEW s \in sessions
      PROVE  /\ f[s] \in Session /\ f[s].id = s.id /\ f[s].login = s.login
             /\ s.revoked => f[s].revoked
  <2>1. s \in Session
    BY DEF SessionsInv, SessionsTypeOK, Session
  <2> QED
    BY <1>2, <2>1 DEF Rotated, Session
<1> QED
  BY <1>1, <1>3 DEF Rewritten

LEMMA LogoutRewrites ==
  ASSUME SessionsInv, NEW token, Logout(token)
  PROVE  Rewritten
<1> DEFINE f == [s \in sessions |-> IF s.refresh = token THEN [s EXCEPT !.revoked = TRUE] ELSE s]
<1>1. sessions' = { f[s] : s \in sessions }
  BY DEF Logout
<1>2. ASSUME NEW s \in sessions
      PROVE  /\ f[s] \in Session /\ f[s].id = s.id /\ f[s].login = s.login
             /\ s.revoked => f[s].revoked
  <2>1. s \in Session
    BY DEF SessionsInv, SessionsTypeOK, Session
  <2> QED
    BY <2>1 DEF Session
<1> QED
  BY <1>1, <1>2 DEF Rewritten

LEMMA ExpiryRewrites ==
  ASSUME SessionsInv, NEW x \in sessions, SessionExpires(x)
  PROVE  Rewritten
<1> DEFINE f == [s \in sessions |-> IF s = x THEN [x EXCEPT !.expired = TRUE] ELSE s]
<1>1. sessions' = { f[s] : s \in sessions }
  BY DEF SessionExpires
<1>2. ASSUME NEW s \in sessions
      PROVE  /\ f[s] \in Session /\ f[s].id = s.id /\ f[s].login = s.login
             /\ s.revoked => f[s].revoked
  <2>1. s \in Session
    BY DEF SessionsInv, SessionsTypeOK, Session
  <2> QED
    BY <2>1 DEF Session
<1> QED
  BY <1>1, <1>2 DEF Rewritten

-----------------------------------------------------------------------------
\* Every step keeps the invariant and revokes for good.
LEMMA SessionsStep ==
  ASSUME SessionsInv, [SessionsNext]_sessionVars
  PROVE  SessionsInv' /\ \A s \in sessions : s.revoked => ~Authenticated(s.id)'
<1> USE DEF SessionsInv
<1> DEFINE Kill == \A s \in sessions : s.revoked => ~Authenticated(s.id)'
<1>0. ASSUME UNCHANGED sessions PROVE Kill
  BY <1>0 DEF Authenticated, IdsAreFresh
<1>1. ASSUME NEW t \in LoginToken, RequestLogin(t) \/ LoginTokenExpires(t)
      PROVE  SessionsInv' /\ Kill
  <2>1. PICK status \in {"fresh", "expired"} : loginTokens' = [loginTokens EXCEPT ![t] = status]
    BY <1>1 DEF RequestLogin, LoginTokenExpires
  <2>2. loginTokens[t] # "deleted" /\ UNCHANGED <<sessions, issued, known, calls>>
    BY <1>1 DEF RequestLogin, LoginTokenExpires
  <2> QED
    BY <1>0, <2>1, <2>2, TokensKeep DEF SessionsTypeOK
<1>2. ASSUME NEW a \in AuthCall, NEW t \in LoginToken, FindLoginToken(a, t)
      PROVE  SessionsInv' /\ Kill
  <2>1. PICK pc \in {"deleteToken", "deleteExpired"} :
          calls' = [calls EXCEPT ![a] = [pc |-> pc, login |-> t, session |-> 0]]
    BY <1>2 DEF FindLoginToken, Step
  <2>2. [pc |-> pc, login |-> t, session |-> 0] \in Call
    BY MaxRefreshAssumption DEF Call
  <2>3. UNCHANGED <<loginTokens, sessions, issued, known>>
    BY <1>2 DEF FindLoginToken
  <2>a. /\ DOMAIN calls' = AuthCall
        /\ calls'[a] = [pc |-> pc, login |-> t, session |-> 0]
        /\ \A b \in AuthCall : b # a => calls'[b] = calls[b]
    BY <2>1 DEF SessionsTypeOK
  <2>b. calls'[a] \in Call /\ calls'[a].pc # "createSession"
    BY <2>2, <2>a
  <2>4. \A b \in AuthCall : CreatesNothing(b)
    BY <2>a, <2>b DEF CreatesNothing
  <2>5. SessionsInv'
    BY <2>3, <2>a, <2>4, CallsAlone
  <2> QED
    BY <1>0, <2>3, <2>5
<1>3. ASSUME NEW a \in AuthCall, DeleteExpired(a)
      PROVE  SessionsInv' /\ Kill
  <2>1. /\ calls[a].login \in LoginToken
        /\ loginTokens' = [loginTokens EXCEPT ![calls[a].login] = "deleted"]
        /\ calls' = [calls EXCEPT ![a] = NoLogin]
        /\ UNCHANGED <<sessions, issued, known>>
    BY <1>3, CallShape DEF DeleteExpired, Reply, Step
  <2> QED
    BY <1>0, <2>1, TokensKeep DEF SessionsTypeOK
<1>4. ASSUME NEW a \in AuthCall, DeleteLoginToken(a)
      PROVE  SessionsInv' /\ Kill
  BY <1>0, <1>4, DeleteKeeps DEF DeleteLoginToken
<1>5. ASSUME NEW a \in AuthCall, CreateSession(a)
      PROVE  SessionsInv' /\ Kill
  <2>1. sessions' = sessions \cup {[id |-> issued + 1, login |-> calls[a].login, refresh |-> issued + 1,
                                    revoked |-> FALSE, expired |-> FALSE]}
    BY <1>5 DEF CreateSession
  <2>2. \A s \in sessions : s.id \in Int /\ issued \in Int /\ s.id <= issued
    BY DEF SessionsTypeOK, IdsAreFresh
  <2>3. \A s \in sessions, q \in sessions' : q.id = s.id => q \in sessions
    BY <2>1, <2>2
  <2>4. Kill
    BY <2>3 DEF IdsAreFresh, Authenticated
  <2> QED
    BY <1>5, <2>4, CreateKeeps
<1>6. ASSUME NEW a \in AuthCall, RotateSession(a)
      PROVE  SessionsInv' /\ Kill
  <2>0. /\ issued < MaxRefresh /\ issued' = issued + 1 /\ known' = known \cup {issued + 1}
        /\ issued \in 0..MaxRefresh /\ known \subseteq 1..issued
    BY <1>6 DEF RotateSession, SessionsTypeOK
  <2>1. /\ issued' \in 0..MaxRefresh /\ issued' >= issued
        /\ known' \subseteq 1..issued'
    BY <2>0, MaxRefreshAssumption
  <2>2. calls' = [calls EXCEPT ![a] = NoLogin] /\ UNCHANGED loginTokens
    BY <1>6 DEF RotateSession, Reply, Step
  <2> QED
    BY <1>6, <2>1, <2>2, RotateRewrites, RewriteKeeps DEF SessionsTypeOK
<1>7. ASSUME NEW a \in AuthCall, NEW token \in known, FindSession(a, token)
      PROVE  SessionsInv' /\ Kill
  <2>1. PICK s \in sessions : calls' = [calls EXCEPT ![a] = [pc |-> "rotate", login |-> s.login, session |-> s.id]]
    BY <1>7 DEF FindSession, Step
  <2>2. [pc |-> "rotate", login |-> s.login, session |-> s.id] \in Call
    BY DEF Call, SessionsTypeOK
  <2>3. UNCHANGED <<loginTokens, sessions, issued, known>>
    BY <1>7 DEF FindSession
  <2>a. /\ DOMAIN calls' = AuthCall
        /\ calls'[a] = [pc |-> "rotate", login |-> s.login, session |-> s.id]
        /\ \A b \in AuthCall : b # a => calls'[b] = calls[b]
    BY <2>1 DEF SessionsTypeOK
  <2>b. calls'[a] \in Call /\ calls'[a].pc # "createSession"
    BY <2>2, <2>a
  <2>4. \A b \in AuthCall : CreatesNothing(b)
    BY <2>a, <2>b DEF CreatesNothing
  <2>5. SessionsInv'
    BY <2>3, <2>a, <2>4, CallsAlone
  <2> QED
    BY <1>0, <2>3, <2>5
<1>8. ASSUME NEW token \in known, Logout(token)
      PROVE  SessionsInv' /\ Kill
  <2>1. UNCHANGED <<loginTokens, issued, known, calls>>
    BY <1>8 DEF Logout
  <2> QED
    BY <1>8, <2>1, LogoutRewrites, RewriteKeeps DEF SessionsTypeOK
<1>9. ASSUME NEW s \in sessions, SessionExpires(s)
      PROVE  SessionsInv' /\ Kill
  <2>1. UNCHANGED <<loginTokens, issued, known, calls>>
    BY <1>9 DEF SessionExpires
  <2> QED
    BY <1>9, <2>1, ExpiryRewrites, RewriteKeeps DEF SessionsTypeOK
<1>10. CASE AuthCrash
  <2>1. UNCHANGED <<loginTokens, sessions, issued, known>>
    BY <1>10 DEF AuthCrash
  <2>2. DOMAIN calls' = AuthCall /\ \A b \in AuthCall : CreatesNothing(b)
    BY <1>10 DEF AuthCrash, CreatesNothing
  <2>3. SessionsInv'
    BY <2>1, <2>2, CallsAlone
  <2> QED
    BY <1>0, <2>1, <2>3
<1>11. CASE UNCHANGED sessionVars
  <2>1. UNCHANGED <<loginTokens, sessions, issued, known, calls>>
    BY <1>11 DEF sessionVars
  <2>2. DOMAIN calls' = AuthCall /\ \A b \in AuthCall : CreatesNothing(b)
    BY <2>1 DEF SessionsTypeOK, CreatesNothing
  <2>3. SessionsInv'
    BY <2>1, <2>2, CallsAlone
  <2> QED
    BY <1>0, <2>1, <2>3
<1> QED
  BY <1>1, <1>2, <1>3, <1>4, <1>5, <1>6, <1>7, <1>8, <1>9, <1>10, <1>11 DEF SessionsNext

\* The inductive invariant of any number of requests.
THEOREM SessionsInvariance == SessionsSpec => []SessionsInv
<1>1. SessionsInv /\ [SessionsNext]_sessionVars => SessionsInv'
  BY SessionsStep
<1> QED
  BY <1>1, SessionsBegin, PTL DEF SessionsSpec

(***************************************************************************)
(* A login token, the calls past its delete and its sessions: there is one *)
(* of these at most, however many requests redeem the token at once.       *)
(***************************************************************************)
THEOREM OneSessionEach == SessionsSpec => []OneSessionPerLogin
<1>1. SessionsInv => OneSessionPerLogin
  <2> SUFFICES ASSUME SessionsInv, NEW t \in LoginToken
               PROVE  Cardinality({ s \in sessions : s.login = t })
                        + Cardinality({ a \in AuthCall : calls[a].pc = "createSession" /\ calls[a].login = t })
                        + (IF loginTokens[t] \in {"fresh", "expired"} THEN 1 ELSE 0) <= 1
    BY DEF OneSessionPerLogin
  <2> DEFINE S == { s \in sessions : s.login = t }
             A == { a \in AuthCall : calls[a].pc = "createSession" /\ calls[a].login = t }
  <2>1. (\A x, y \in S : x = y) /\ (\A x, y \in A : x = y)
    BY DEF SessionsInv, OneOutcome, Creating
  <2>2. S = {} \/ A = {}
    BY DEF SessionsInv, OneOutcome, Creating
  <2>3. loginTokens[t] \in {"fresh", "expired"} => S = {} /\ A = {}
    BY DEF SessionsInv, OneOutcome, Creating
  <2>4. /\ Cardinality(S) \in 0..1 /\ (S = {} => Cardinality(S) = 0)
        /\ Cardinality(A) \in 0..1 /\ (A = {} => Cardinality(A) = 0)
    BY <2>1, NoTwo
  <2> HIDE DEF S, A
  <2>5. Cardinality(S) + Cardinality(A) + (IF loginTokens[t] \in {"fresh", "expired"} THEN 1 ELSE 0) <= 1
    BY <2>2, <2>3, <2>4
  <2> QED
    BY <2>5 DEF S, A
<1> QED
  BY <1>1, SessionsInvariance, PTL

(***************************************************************************)
(* A session that is revoked is accepted by authMiddleware in no later     *)
(* state, whatever rotation of it was under way.                           *)
(***************************************************************************)
THEOREM RevocationIsFinal == SessionsSpec => RevokedStaysRevoked
<1>1. SessionsInv /\ [SessionsNext]_sessionVars
        => [\A s \in sessions : s.revoked => ~Authenticated(s.id)']_sessionVars
  BY SessionsStep
<1> QED
  BY <1>1, SessionsInvariance, PTL DEF SessionsSpec, RevokedStaysRevoked

-----------------------------------------------------------------------------
(* Approvals and the decisions that resolving them makes. *)

Resolution ==
  [pc: {"none", "update", "findActive", "supersede", "create", "effect", "appendVote", "commit"},
   approval: Approval \cup {"none"}, approved: BOOLEAN, active: SUBSET Decisions,
   superseded: SUBSET Decisions, decision: 0..MaxDecisions]

\* The numbers of the decisions of a request, of which each has its own.
Numbers(a) == { n \in 1..MaxDecisions : \E d \in decisions : d.n = n /\ d.approval = a }

DecisionsOK ==
  /\ \A d, e \in decisions : d.n = e.n => d = e
  /\ \A d \in decisions : d.n <= lastDecision
  /\ \A a \in Approval :
       /\ Cardinality(Numbers(a)) = provisioned[a]
       /\ provisioned[a] > 0 => approvals[a].status \in {"APPROVED", "REJECTED"}
  /\ decisions # {} => \E d \in decisions : d.active

\* A transaction that has the number of the decision it is going to commit.
Numbered(t) == t.approved /\ t.pc \in {"effect", "commit"}

\* What a transaction saw active is there, and still as it was or superseded.
Looked(t) ==
  \A d \in t.active : /\ \E e \in decisions : e.n = d.n
                      /\ \A e \in decisions : e.n = d.n /\ e.active => e = d

\* Once it has superseded, it holds what is still active of it.
Replaced(t) ==
  t.approved /\ t.pc \in {"create", "effect", "commit"} => t.active \cap decisions \subseteq t.superseded

\* What a transaction has superseded is there and active, its number is nobody's yet.
ResolutionOK(t) ==
  /\ t.pc \notin {"none", "appendVote"} => t.approval \in Approval
  /\ \A d \in t.active : d.active
  /\ t.superseded \subseteq decisions /\ \A d \in t.superseded : d.active
  /\ ~t.approved => t.superseded = {} /\ t.pc \in {"none", "update", "appendVote", "commit"}
  /\ Numbered(t) => t.decision \in 1..lastDecision /\ \A d \in decisions : d.n # t.decision
  /\ Looked(t) /\ Replaced(t)

\* Two transactions supersede different decisions and have different numbers.
Apart(t, u) ==
  /\ t.superseded \cap u.superseded = {}
  /\ Numbered(t) /\ Numbered(u) => t.decision # u.decision

ResolutionsOK ==
  /\ \A w \in Approver : ResolutionOK(rtx[w])
  /\ \A w, v \in Approver : w # v => Apart(rtx[w], rtx[v])

AuthorityInv == AuthorityTypeOK /\ DecisionsOK /\ ResolutionsOK

-----------------------------------------------------------------------------
LEMMA NoResolutionOK ==
  /\ NoResolution \in Resolution /\ NoResolution.superseded = {} /\ ~Numbered(NoResolution)
  /\ ResolutionOK(NoResolution) /\ ResolutionOK(NoResolution)'
BY MaxDecisionsAssumption DEF NoResolution, Resolution, Numbered, ResolutionOK, Looked, Replaced

LEMMA AuthorityBegins == AuthorityInit => AuthorityInv
<1> SUFFICES ASSUME AuthorityInit PROVE AuthorityInv
  OBVIOUS
<1>1. AuthorityTypeOK
  BY NoResolutionOK, MaxDecisionsAssumption DEF AuthorityInit, AuthorityTypeOK, Resolution, GatedEffect
<1>2. DecisionsOK
  <2>1. \A a \in Approval : Cardinality(Numbers(a)) = 0
    <3>1. \A a \in Approval : Numbers(a) = {}
      BY DEF AuthorityInit, Numbers
    <3> QED
      BY <3>1, FS_EmptySet
  <2> QED
    BY <2>1 DEF AuthorityInit, DecisionsOK
<1>3. ResolutionsOK
  BY NoResolutionOK DEF AuthorityInit, ResolutionsOK, Apart
<1> QED
  BY <1>1, <1>2, <1>3 DEF AuthorityInv

(* A statement that changes the row of its own transaction, and at most the last number. *)
LEMMA ResolutionMoves ==
  ASSUME AuthorityInv, NEW w \in Approver, NEW t \in Resolution, rtx' = [rtx EXCEPT ![w] = t],
         UNCHANGED <<approvals, decisions, provisioned>>,
         lastDecision' \in lastDecision..MaxDecisions,
         ResolutionOK(t)', \A v \in Approver \ {w} : Apart(t, rtx[v])
  PROVE  AuthorityInv'
<1>1. rtx \in [Approver -> Resolution] /\ lastDecision \in 0..MaxDecisions
  BY DEF AuthorityInv, AuthorityTypeOK, Resolution
<1>2. rtx'[w] = t /\ \A v \in Approver \ {w} : rtx'[v] = rtx[v]
  BY <1>1
<1>3. AuthorityTypeOK'
  <2>1. rtx' \in [Approver -> Resolution]
    BY <1>1
  <2>2. lastDecision' \in 0..MaxDecisions
    BY <1>1, MaxDecisionsAssumption
  <2> QED
    BY <2>1, <2>2 DEF AuthorityInv, AuthorityTypeOK, Resolution
<1>4. DecisionsOK'
  <2>1. \A d \in decisions : d.n \in Nat /\ d.n <= lastDecision
    BY MaxDecisionsAssumption DEF AuthorityInv, AuthorityTypeOK, DecisionsOK, Decisions
  <2>2. \A d \in decisions : d.n <= lastDecision'
    BY <1>1, <2>1, MaxDecisionsAssumption
  <2>3. \A a : Numbers(a)' = Numbers(a)
    BY DEF Numbers
  <2> QED
    BY <2>2, <2>3 DEF AuthorityInv, DecisionsOK
<1>5. ASSUME NEW v \in Approver PROVE ResolutionOK(rtx[v])'
  <2>1. CASE v = w
    <3>1. rtx'[v] = t
      BY <1>2, <2>1
    <3> QED
      BY <3>1 DEF ResolutionOK, Numbered
  <2>2. CASE v # w
    <3>1. PICK u : u = rtx[v]
      OBVIOUS
    <3>2. ResolutionOK(u) /\ u \in Resolution /\ rtx'[v] = u
      BY <1>1, <1>2, <2>2, <3>1 DEF AuthorityInv, ResolutionsOK
    <3>3. Numbered(u) /\ u.decision \in 1..lastDecision => u.decision \in 1..lastDecision'
      BY <1>1, MaxDecisionsAssumption
    <3>4. ResolutionOK(u)'
      BY <3>2, <3>3 DEF ResolutionOK, Looked, Replaced, Numbered
    <3> QED
      BY <3>2, <3>4 DEF ResolutionOK, Numbered
  <2> QED
    BY <2>1, <2>2
<1>6. ASSUME NEW v \in Approver, NEW u \in Approver, v # u PROVE Apart(rtx[v], rtx[u])'
  BY <1>2, <1>6 DEF AuthorityInv, ResolutionsOK, Apart, Numbered
<1>7. ResolutionsOK'
  BY <1>5, <1>6 DEF ResolutionsOK
<1> QED
  BY <1>3, <1>4, <1>7 DEF AuthorityInv

(* A transaction that rolls back, or ends otherwise without a trace. *)
LEMMA ResolutionEnds ==
  ASSUME AuthorityInv, NEW w \in Approver, Resolving(w, NoResolution)
  PROVE  AuthorityInv'
<1>1. /\ rtx' = [rtx EXCEPT ![w] = NoResolution] /\ UNCHANGED <<approvals, decisions, provisioned>>
      /\ lastDecision' = lastDecision
  BY DEF Resolving
<1>2. lastDecision' \in lastDecision..MaxDecisions
  BY <1>1, MaxDecisionsAssumption DEF AuthorityInv, AuthorityTypeOK
<1>3. \A v \in Approver \ {w} : Apart(NoResolution, rtx[v])
  BY NoResolutionOK DEF Apart
<1> QED
  BY <1>1, <1>2, <1>3, NoResolutionOK, ResolutionMoves

(* A statement after which the transaction has superseded and numbered what it had. *)
LEMMA ResolutionGoesOn ==
  ASSUME AuthorityInv, NEW w \in Approver, NEW t \in Resolution, Resolving(w, t),
         ResolutionOK(t), t.superseded = rtx[w].superseded \/ t.superseded = {},
         Numbered(t) => Numbered(rtx[w]) /\ t.decision = rtx[w].decision
  PROVE  AuthorityInv'
<1>1. /\ rtx' = [rtx EXCEPT ![w] = t] /\ UNCHANGED <<approvals, decisions, provisioned>>
      /\ lastDecision' = lastDecision
  BY DEF Resolving
<1>2. lastDecision' \in lastDecision..MaxDecisions
  BY <1>1, MaxDecisionsAssumption DEF AuthorityInv, AuthorityTypeOK
<1>3. \A v \in Approver \ {w} : Apart(t, rtx[v])
  BY DEF Apart, AuthorityInv, ResolutionsOK
<1>4. ResolutionOK(t)'
  BY <1>1 DEF ResolutionOK, Looked, Replaced, Numbered
<1> QED
  BY <1>1, <1>2, <1>3, <1>4, ResolutionMoves

LEMMA ResolutionShape ==
  ASSUME AuthorityInv, NEW w \in Approver
  PROVE  rtx[w] \in Resolution /\ ResolutionOK(rtx[w])
BY DEF AuthorityInv, AuthorityTypeOK, Resolution, ResolutionsOK

(* The statements of a resolution and of a vote before its commit. *)
LEMMA StatementsKeep ==
  ASSUME AuthorityInv, NEW w \in Approver,
         \/ \E a \in Approval, approved \in BOOLEAN : ReadRequest(w, a, approved)
         \/ UpdateRequest(w) \/ FindActive(w) \/ Supersede(w) \/ CreateDecision(w) \/ ExecuteEffect(w)
         \/ CastVote(w) \/ RefuseVote(w) \/ RollbackResolution(w)
  PROVE  AuthorityInv'
<1>0. rtx[w] \in Resolution /\ ResolutionOK(rtx[w])
  BY ResolutionShape
<1>1. ASSUME NEW a \in Approval, NEW approved \in BOOLEAN, ReadRequest(w, a, approved) PROVE AuthorityInv'
  <2>1. PICK t : t = [NoResolution EXCEPT !.pc = "update", !.approval = a, !.approved = approved]
    OBVIOUS
  <2>2. t = [pc |-> "update", approval |-> a, approved |-> approved, active |-> {}, superseded |-> {}, decision |-> 0]
    BY <2>1 DEF NoResolution
  <2>3. t \in Resolution /\ ResolutionOK(t) /\ ~Numbered(t) /\ t.superseded = {}
    BY <2>2, MaxDecisionsAssumption DEF Resolution, ResolutionOK, Looked, Replaced, Numbered
  <2> QED
    BY <1>1, <2>1, <2>3, ResolutionGoesOn DEF ReadRequest
<1>2. CASE UpdateRequest(w)
  <2>1. PICK t : t = [rtx[w] EXCEPT !.pc = IF rtx[w].approved THEN "findActive" ELSE "commit"]
    OBVIOUS
  <2>2. t \in Resolution
    BY <1>0, <2>1 DEF Resolution
  <2>3. /\ t.approval = rtx[w].approval /\ t.active = rtx[w].active /\ t.superseded = rtx[w].superseded
        /\ t.approved = rtx[w].approved /\ t.pc = (IF rtx[w].approved THEN "findActive" ELSE "commit")
    BY <1>0, <2>1 DEF Resolution
  <2>4. rtx[w].pc = "update"
    BY <1>2 DEF UpdateRequest
  <2>5. ResolutionOK(t) /\ ~Numbered(t)
    BY <1>0, <2>3, <2>4 DEF ResolutionOK, Looked, Replaced, Numbered
  <2> QED
    BY <1>2, <2>1, <2>2, <2>3, <2>5, ResolutionGoesOn DEF UpdateRequest
<1>3. CASE FindActive(w)
  <2>1. PICK t : t = [rtx[w] EXCEPT !.pc = "supersede", !.active = { d \in decisions : d.active }]
    OBVIOUS
  <2>2. { d \in decisions : d.active } \in SUBSET Decisions
    BY DEF AuthorityInv, AuthorityTypeOK
  <2>3. t \in Resolution
    BY <1>0, <2>1, <2>2 DEF Resolution
  <2>4. /\ t.approval = rtx[w].approval /\ t.active = { d \in decisions : d.active }
        /\ t.superseded = rtx[w].superseded /\ t.approved = rtx[w].approved /\ t.pc = "supersede"
    BY <1>0, <2>1 DEF Resolution
  <2>5. rtx[w].pc = "findActive"
    BY <1>3 DEF FindActive
  <2>7. Looked(t) /\ Replaced(t)
    <3>1. \A d, e \in decisions : d.n = e.n => d = e
      BY DEF AuthorityInv, DecisionsOK
    <3> QED
      BY <2>4, <3>1 DEF Looked, Replaced
  <2>6. ResolutionOK(t) /\ ~Numbered(t)
    BY <1>0, <2>4, <2>5, <2>7 DEF ResolutionOK, Numbered
  <2> QED
    BY <1>3, <2>1, <2>3, <2>4, <2>6, ResolutionGoesOn DEF FindActive
<1>4. CASE Supersede(w)
  <2>1. PICK t : t = [rtx[w] EXCEPT !.pc = "create", !.superseded = rtx[w].active \cap decisions]
    OBVIOUS
  <2>2. rtx[w].active \cap decisions \in SUBSET Decisions
    BY DEF AuthorityInv, AuthorityTypeOK
  <2>3. t \in Resolution
    BY <1>0, <2>1, <2>2 DEF Resolution
  <2>4. /\ t.approval = rtx[w].approval /\ t.active = rtx[w].active /\ t.superseded = rtx[w].active \cap decisions
        /\ t.approved = rtx[w].approved /\ t.pc = "create"
    BY <1>0, <2>1 DEF Resolution
  <2>5. rtx[w].pc = "supersede" /\ \A v \in Approver \ {w} : rtx[v].superseded \cap rtx[w].active = {}
    BY <1>4 DEF Supersede
  <2>6. ResolutionOK(t) /\ ~Numbered(t)
    BY <1>0, <2>4, <2>5 DEF ResolutionOK, Looked, Replaced, Numbered
  <2>7. \A v \in Approver \ {w} : Apart(t, rtx[v])
    BY <2>4, <2>5, <2>6 DEF Apart
  <2>8. /\ rtx' = [rtx EXCEPT ![w] = t] /\ UNCHANGED <<approvals, decisions, provisioned>>
        /\ lastDecision' = lastDecision
    BY <1>4, <2>1 DEF Supersede, Resolving
  <2>9. lastDecision' \in lastDecision..MaxDecisions /\ ResolutionOK(t)'
    BY <2>6, <2>8, MaxDecisionsAssumption DEF AuthorityInv, AuthorityTypeOK, ResolutionOK, Looked, Replaced, Numbered
  <2> QED
    BY <2>3, <2>7, <2>8, <2>9, ResolutionMoves
<1>5. CASE CreateDecision(w)
  <2>0. lastDecision \in 0..MaxDecisions /\ lastDecision < MaxDecisions /\ rtx[w].pc = "create"
    BY <1>5 DEF CreateDecision, AuthorityInv, AuthorityTypeOK
  <2>1. PICK t : t = [rtx[w] EXCEPT !.pc = "effect", !.decision = lastDecision + 1]
    OBVIOUS
  <2>9. lastDecision + 1 \in 0..MaxDecisions
    BY <2>0, MaxDecisionsAssumption
  <2>2. t \in Resolution
    BY <1>0, <2>1, <2>9 DEF Resolution
  <2>3. /\ t.approval = rtx[w].approval /\ t.active = rtx[w].active /\ t.superseded = rtx[w].superseded
        /\ t.approved = rtx[w].approved /\ t.pc = "effect" /\ t.decision = lastDecision + 1
    BY <1>0, <2>1 DEF Resolution
  <2>4. /\ rtx' = [rtx EXCEPT ![w] = t] /\ UNCHANGED <<approvals, decisions, provisioned>>
        /\ lastDecision' = lastDecision + 1
    <3>1. rtx' = [rtx EXCEPT ![w] = [rtx[w] EXCEPT !.pc = "effect", !.decision = lastDecision + 1]]
      BY <1>5 DEF CreateDecision, AuthorityInv, AuthorityTypeOK
    <3> QED
      BY <1>5, <2>1, <3>1 DEF CreateDecision
  <2>5. lastDecision' \in lastDecision..MaxDecisions
    BY <2>0, <2>4, MaxDecisionsAssumption
  <2>6. \A d \in decisions : d.n # lastDecision + 1
    BY <2>0 DEF AuthorityInv, DecisionsOK
  <2>7. ResolutionOK(t)'
    BY <1>0, <2>0, <2>3, <2>4, <2>6 DEF ResolutionOK, Looked, Replaced, Numbered
  <2>8. ASSUME NEW v \in Approver \ {w} PROVE Apart(t, rtx[v])
    <3>1. Numbered(rtx[v]) => rtx[v].decision \in 1..lastDecision
      BY ResolutionShape DEF ResolutionOK
    <3>2. Numbered(rtx[v]) => rtx[v].decision # lastDecision + 1
      BY <2>0, <3>1
    <3> QED
      BY <2>3, <3>2 DEF Apart, AuthorityInv, ResolutionsOK
  <2> QED
    BY <2>2, <2>4, <2>5, <2>7, <2>8, ResolutionMoves
<1>6. CASE ExecuteEffect(w)
  <2>1. CASE Resolving(w, NoResolution)
    BY <2>1, ResolutionEnds
  <2>2. CASE Resolving(w, [rtx[w] EXCEPT !.pc = "commit"])
    <3>1. PICK t : t = [rtx[w] EXCEPT !.pc = "commit"]
      OBVIOUS
    <3>2. t \in Resolution
      BY <1>0, <3>1 DEF Resolution
    <3>3. /\ t.approval = rtx[w].approval /\ t.active = rtx[w].active /\ t.superseded = rtx[w].superseded
          /\ t.approved = rtx[w].approved /\ t.pc = "commit" /\ t.decision = rtx[w].decision
      BY <1>0, <3>1 DEF Resolution
    <3>4. rtx[w].pc = "effect"
      BY <1>6 DEF ExecuteEffect
    <3>5. ResolutionOK(t) /\ (Numbered(t) => Numbered(rtx[w]))
      BY <1>0, <3>3, <3>4 DEF ResolutionOK, Looked, Replaced, Numbered
    <3> QED
      BY <2>2, <3>1, <3>2, <3>3, <3>5, ResolutionGoesOn
  <2> QED
    BY <1>6, <2>1, <2>2 DEF ExecuteEffect
<1>7. CASE CastVote(w)
  <2>1. PICK t : t = [NoResolution EXCEPT !.pc = "appendVote"]
    OBVIOUS
  <2>2. t = [pc |-> "appendVote", approval |-> "none", approved |-> FALSE, active |-> {}, superseded |-> {}, decision |-> 0]
    BY <2>1 DEF NoResolution
  <2>3. t \in Resolution /\ ResolutionOK(t) /\ ~Numbered(t) /\ t.superseded = {}
    BY <2>2, MaxDecisionsAssumption DEF Resolution, ResolutionOK, Looked, Replaced, Numbered
  <2> QED
    BY <1>7, <2>1, <2>3, ResolutionGoesOn DEF CastVote
<1>8. CASE RefuseVote(w) \/ RollbackResolution(w)
  BY <1>8, ResolutionEnds DEF RefuseVote, RollbackResolution
<1> QED
  BY <1>1, <1>2, <1>3, <1>4, <1>5, <1>6, <1>7, <1>8

(* The update by id, of a proposal or at the gate: the status leaves "none" for good. *)
LEMMA StatusKeeps ==
  ASSUME AuthorityInv, NEW a \in Approval,
         \/ \E effect \in GatedEffect : Propose(a, effect)
         \/ \E status \in {"APPROVED", "REJECTED"} : GateUpdate(a, status)
  PROVE  AuthorityInv'
<1>1. PICK row : row \in [status: {"PENDING", "APPROVED", "REJECTED"}, effect: GatedEffect \cup {"none"}]
                 /\ approvals' = [approvals EXCEPT ![a] = row]
                 /\ (row.status \in {"APPROVED", "REJECTED"} \/ approvals[a].status = "none")
  <2>1. ASSUME NEW effect \in GatedEffect, Propose(a, effect)
        PROVE  \E row : row \in [status: {"PENDING", "APPROVED", "REJECTED"}, effect: GatedEffect \cup {"none"}]
                 /\ approvals' = [approvals EXCEPT ![a] = row]
                 /\ (row.status \in {"APPROVED", "REJECTED"} \/ approvals[a].status = "none")
    BY <2>1 DEF Propose
  <2>2. ASSUME NEW status \in {"APPROVED", "REJECTED"}, GateUpdate(a, status)
        PROVE  \E row : row \in [status: {"PENDING", "APPROVED", "REJECTED"}, effect: GatedEffect \cup {"none"}]
                 /\ approvals' = [approvals EXCEPT ![a] = row]
                 /\ (row.status \in {"APPROVED", "REJECTED"} \/ approvals[a].status = "none")
    <3>1. PICK row : row = [approvals[a] EXCEPT !.status = status]
      OBVIOUS
    <3>2. /\ approvals[a] \in [status: {"none", "PENDING", "APPROVED", "REJECTED"}, effect: GatedEffect \cup {"none"}]
          /\ approvals' = [approvals EXCEPT ![a] = row]
      BY <2>2, <3>1 DEF GateUpdate, AuthorityInv, AuthorityTypeOK
    <3>3. /\ row \in [status: {"PENDING", "APPROVED", "REJECTED"}, effect: GatedEffect \cup {"none"}]
          /\ row.status = status
      BY <3>1, <3>2
    <3> QED
      BY <3>2, <3>3
  <2> QED
    BY <2>1, <2>2
<1>2. UNCHANGED <<decisions, provisioned, lastDecision, rtx>>
  BY DEF Propose, GateUpdate
<1>3. approvals \in [Approval -> [status: {"none", "PENDING", "APPROVED", "REJECTED"}, effect: GatedEffect \cup {"none"}]]
  BY DEF AuthorityInv, AuthorityTypeOK
<1>4. /\ approvals' \in [Approval -> [status: {"none", "PENDING", "APPROVED", "REJECTED"}, effect: GatedEffect \cup {"none"}]]
      /\ approvals'[a] = row /\ \A b \in Approval \ {a} : approvals'[b] = approvals[b]
  BY <1>1, <1>3
<1>5. AuthorityTypeOK'
  BY <1>2, <1>4 DEF AuthorityInv, AuthorityTypeOK
<1>6. \A b \in Approval : provisioned[b] > 0 => approvals'[b].status \in {"APPROVED", "REJECTED"}
  BY <1>1, <1>4 DEF AuthorityInv, DecisionsOK
<1>7. DecisionsOK'
  BY <1>2, <1>6 DEF AuthorityInv, DecisionsOK, Numbers
<1>8. ResolutionsOK'
  BY <1>2 DEF AuthorityInv, ResolutionsOK, ResolutionOK, Looked, Replaced, Apart, Numbered
<1> QED
  BY <1>5, <1>7, <1>8 DEF AuthorityInv

Deactivated(d) == [d EXCEPT !.active = FALSE]

LEMMA DeactivatedShape ==
  ASSUME NEW d \in Decisions
  PROVE  /\ Deactivated(d) \in Decisions
         /\ Deactivated(d).n = d.n /\ Deactivated(d).approval = d.approval /\ ~Deactivated(d).active
BY DEF Deactivated, Decisions

(* What a commit makes of the decisions: each stays, superseded or not, and there is one more. *)
LEMMA CommitCounts ==
  ASSUME AuthorityInv, NEW w \in Approver, CommitResolution(w), rtx[w].approved,
         NEW t, t = rtx[w], NEW new, new = [n |-> t.decision, approval |-> t.approval, active |-> TRUE]
  PROVE  /\ new \in decisions' /\ new \in Decisions /\ new.active /\ decisions' \subseteq Decisions
         /\ \A d \in decisions \ t.superseded : d \in decisions'
         /\ \A e \in decisions' \ {new} : \E d \in decisions :
              e.n = d.n /\ e.approval = d.approval /\ e = IF d \in t.superseded THEN Deactivated(d) ELSE d
         /\ \A d \in decisions : \E e \in decisions' : e.n = d.n /\ e.approval = d.approval
<1>1. t \in Resolution /\ ResolutionOK(t) /\ t.pc = "commit" /\ t.approved /\ Numbered(t)
  BY ResolutionShape DEF CommitResolution, Numbered
<1>2. /\ t.superseded \subseteq decisions /\ decisions \subseteq Decisions /\ t.approval \in Approval
      /\ t.decision \in 1..MaxDecisions
  <2>1. t.decision \in 1..lastDecision /\ lastDecision \in 0..MaxDecisions
    BY <1>1 DEF ResolutionOK, AuthorityInv, AuthorityTypeOK
  <2>2. t.decision \in 1..MaxDecisions
    BY <2>1, MaxDecisionsAssumption
  <2> QED
    BY <1>1, <2>2 DEF ResolutionOK, AuthorityInv, AuthorityTypeOK
<1>3. new \in Decisions /\ new.active
  BY <1>2 DEF Decisions
<1>4. decisions' = (decisions \ t.superseded) \cup { Deactivated(d) : d \in t.superseded } \cup {new}
  BY <1>1 DEF CommitResolution, Deactivated
<1>6. ASSUME NEW e \in decisions' \ {new}
      PROVE  \E d \in decisions :
               e.n = d.n /\ e.approval = d.approval /\ e = IF d \in t.superseded THEN Deactivated(d) ELSE d
  <2>1. CASE e \in decisions \ t.superseded
    BY <2>1
  <2>2. CASE e \in { Deactivated(d) : d \in t.superseded }
    <3>1. PICK d \in t.superseded : e = Deactivated(d)
      BY <2>2
    <3>2. d \in decisions /\ d \in Decisions
      BY <1>2
    <3> QED
      BY <3>1, <3>2, DeactivatedShape
  <2> QED
    BY <1>4, <2>1, <2>2
<1>5. ASSUME NEW e \in decisions' PROVE e \in Decisions
  <2>1. CASE e = new
    BY <1>3, <2>1
  <2>2. CASE e # new
    <3>1. PICK d \in decisions : e = IF d \in t.superseded THEN Deactivated(d) ELSE d
      BY <1>6, <2>2
    <3> QED
      BY <1>2, <3>1, DeactivatedShape
  <2> QED
    BY <2>1, <2>2
<1>7. ASSUME NEW d \in decisions PROVE \E e \in decisions' : e.n = d.n /\ e.approval = d.approval
  <2>1. CASE d \in t.superseded
    BY <1>2, <1>4, <2>1, DeactivatedShape
  <2>2. CASE d \notin t.superseded
    BY <1>4, <2>2
  <2> QED
    BY <2>1, <2>2
<1> QED
  BY <1>3, <1>4, <1>5, <1>6, <1>7

LEMMA CommitKeeps ==
  ASSUME AuthorityInv, NEW w \in Approver, CommitResolution(w)
  PROVE  AuthorityInv'
<1>0. PICK t : t = rtx[w]
  OBVIOUS
<1>1. t \in Resolution /\ ResolutionOK(t) /\ t.pc = "commit" /\ t.approval \in Approval
  BY <1>0, ResolutionShape DEF CommitResolution, ResolutionOK
<1>2. /\ rtx' = [rtx EXCEPT ![w] = NoResolution] /\ lastDecision' = lastDecision
      /\ approvals' = [approvals EXCEPT ![t.approval].status = IF t.approved THEN "APPROVED" ELSE "REJECTED"]
  BY <1>0 DEF CommitResolution
<1>3. rtx \in [Approver -> Resolution] /\ lastDecision \in 0..MaxDecisions
  BY DEF AuthorityInv, AuthorityTypeOK, Resolution
<1>4. rtx' \in [Approver -> Resolution] /\ rtx'[w] = NoResolution /\ \A v \in Approver \ {w} : rtx'[v] = rtx[v]
  BY <1>2, <1>3, NoResolutionOK
<1>5. /\ approvals' \in [Approval -> [status: {"none", "PENDING", "APPROVED", "REJECTED"},
                                      effect: GatedEffect \cup {"none"}]]
      /\ approvals'[t.approval].status \in {"APPROVED", "REJECTED"}
      /\ \A a \in Approval \ {t.approval} : approvals'[a] = approvals[a]
  <2>1. approvals \in [Approval -> [status: {"none", "PENDING", "APPROVED", "REJECTED"},
                                    effect: GatedEffect \cup {"none"}]]
    BY DEF AuthorityInv, AuthorityTypeOK
  <2>2. PICK row : row = [approvals[t.approval] EXCEPT !.status = IF t.approved THEN "APPROVED" ELSE "REJECTED"]
    OBVIOUS
  <2>3. /\ row \in [status: {"none", "PENDING", "APPROVED", "REJECTED"}, effect: GatedEffect \cup {"none"}]
        /\ row.status \in {"APPROVED", "REJECTED"}
    BY <1>1, <2>1, <2>2
  <2>4. approvals' = [approvals EXCEPT ![t.approval] = row]
    BY <1>2, <2>2
  <2> QED
    BY <1>1, <2>1, <2>3, <2>4
<1>6. CASE ~t.approved
  <2>1. UNCHANGED <<decisions, provisioned>>
    <3>1. t.superseded = {}
      BY <1>1, <1>6 DEF ResolutionOK
    <3>2. decisions' = (decisions \ {}) \cup { [d EXCEPT !.active = FALSE] : d \in {} } \cup {}
      BY <1>0, <1>6, <3>1, Zenon DEF CommitResolution
    <3> QED
      BY <1>0, <1>6, <3>2 DEF CommitResolution
  <2>2. AuthorityTypeOK'
    BY <1>2, <1>4, <1>5, <2>1 DEF AuthorityInv, AuthorityTypeOK, Resolution
  <2>3. DecisionsOK'
    <3>1. \A a \in Approval : provisioned[a] > 0 => approvals'[a].status \in {"APPROVED", "REJECTED"}
      BY <1>5 DEF AuthorityInv, DecisionsOK
    <3> QED
      BY <1>2, <2>1, <3>1 DEF AuthorityInv, DecisionsOK, Numbers
  <2>4. ASSUME NEW v \in Approver PROVE ResolutionOK(rtx[v])'
    <3>1. CASE v = w
      BY <1>4, <3>1, NoResolutionOK DEF ResolutionOK, Numbered
    <3>2. CASE v # w
      BY <1>2, <1>4, <2>1, <3>2 DEF AuthorityInv, ResolutionsOK, ResolutionOK, Looked, Replaced, Numbered
    <3> QED
      BY <3>1, <3>2
  <2>5. ASSUME NEW v \in Approver, NEW u \in Approver, v # u PROVE Apart(rtx[v], rtx[u])'
    BY <1>4, <2>5, NoResolutionOK DEF AuthorityInv, ResolutionsOK, Apart, Numbered
  <2> QED
    BY <2>2, <2>3, <2>4, <2>5 DEF AuthorityInv, ResolutionsOK
<1>7. CASE t.approved
  <2>0. PICK new : new = [n |-> t.decision, approval |-> t.approval, active |-> TRUE]
    OBVIOUS
  <2>1. /\ new \in decisions' /\ new \in Decisions /\ new.active /\ decisions' \subseteq Decisions
        /\ \A d \in decisions \ t.superseded : d \in decisions'
        /\ \A e \in decisions' \ {new} : \E d \in decisions :
             e.n = d.n /\ e.approval = d.approval /\ e = IF d \in t.superseded THEN Deactivated(d) ELSE d
        /\ \A d \in decisions : \E e \in decisions' : e.n = d.n /\ e.approval = d.approval
    BY <1>0, <1>7, <2>0, CommitCounts
  <2>2. new.n = t.decision /\ new.approval = t.approval
    BY <2>0
  <2>3. Numbered(t) /\ t.decision \in 1..lastDecision /\ t.decision \in 1..MaxDecisions
        /\ \A d \in decisions : d.n # t.decision
    <3>1. Numbered(t) /\ t.decision \in 1..lastDecision /\ \A d \in decisions : d.n # t.decision
      BY <1>1, <1>7 DEF ResolutionOK, Numbered
    <3> QED
      BY <1>3, <3>1, MaxDecisionsAssumption
  <2>4. provisioned' = [provisioned EXCEPT ![t.approval] = @ + 1]
    BY <1>0, <1>7 DEF CommitResolution
  <2>5. \A a \in Approval : Numbers(a)' = IF a = t.approval THEN Numbers(a) \cup {t.decision} ELSE Numbers(a)
    BY <2>1, <2>2, <2>3 DEF Numbers
  <2>6. ASSUME NEW a \in Approval
        PROVE  /\ IsFiniteSet(Numbers(a)) /\ Cardinality(Numbers(a)) = provisioned[a] /\ provisioned[a] \in 0..MaxDecisions
               /\ IsFiniteSet(Numbers(a)') /\ Cardinality(Numbers(a)') <= MaxDecisions
               /\ Cardinality(Numbers(a)') \in Nat
    <3>1. IsFiniteSet(1..MaxDecisions) /\ Cardinality(1..MaxDecisions) = MaxDecisions
      BY MaxDecisionsAssumption, FS_Interval
    <3>2. Numbers(a) \subseteq 1..MaxDecisions /\ Numbers(a)' \subseteq 1..MaxDecisions
      BY DEF Numbers
    <3>3. Cardinality(Numbers(a)) = provisioned[a] /\ provisioned[a] \in 0..MaxDecisions
      BY DEF AuthorityInv, DecisionsOK, AuthorityTypeOK
    <3>4. IsFiniteSet(Numbers(a))
      BY <3>1, <3>2, FS_Subset
    <3>5. PICK next : next = Numbers(a)'
      OBVIOUS
    <3>6. IsFiniteSet(next) /\ Cardinality(next) <= MaxDecisions /\ Cardinality(next) \in Nat
      BY <3>1, <3>2, <3>5, FS_Subset, FS_CardinalityType
    <3> QED
      BY <3>3, <3>4, <3>5, <3>6
  <2>7. ASSUME NEW a \in Approval
        PROVE  Cardinality(Numbers(a)') = provisioned'[a] /\ provisioned'[a] \in 0..MaxDecisions
    <3>1. CASE a = t.approval
      <4>1. PICK old : old = Numbers(a)
        OBVIOUS
      <4>2. PICK next : next = Numbers(a)'
        OBVIOUS
      <4>3. t.decision \notin old /\ IsFiniteSet(old) /\ next = old \cup {t.decision}
        BY <2>3, <2>5, <2>6, <3>1, <4>1, <4>2 DEF Numbers
      <4>4. Cardinality(next) = Cardinality(old) + 1
        BY <4>3, FS_AddElement
      <4>5. provisioned'[a] = provisioned[a] + 1
        BY <2>4, <3>1 DEF AuthorityInv, AuthorityTypeOK
      <4>6. /\ Cardinality(next) = Cardinality(old) + 1 /\ Cardinality(old) = provisioned[a]
            /\ provisioned[a] \in 0..MaxDecisions /\ Cardinality(next) <= MaxDecisions
        BY <2>6, <4>1, <4>2, <4>4
      <4>7. Cardinality(next) = provisioned'[a] /\ provisioned'[a] \in 0..MaxDecisions
        BY <4>5, <4>6, MaxDecisionsAssumption
      <4> QED
        BY <4>2, <4>7
    <3>2. CASE a # t.approval
      <4>1. provisioned'[a] = provisioned[a] /\ Numbers(a)' = Numbers(a)
        BY <2>4, <2>5, <3>2 DEF AuthorityInv, AuthorityTypeOK
      <4> QED
        BY <2>6, <4>1
    <3> QED
      BY <3>1, <3>2
  <2>8. AuthorityTypeOK'
    <3>1. provisioned' \in [Approval -> 0..MaxDecisions]
      BY <2>4, <2>7 DEF AuthorityInv, AuthorityTypeOK
    <3> QED
      BY <1>2, <1>3, <1>4, <1>5, <2>1, <3>1 DEF AuthorityTypeOK, Resolution
  <2>9. DecisionsOK'
    <3>1. ASSUME NEW e \in decisions', NEW f \in decisions', e.n = f.n PROVE e = f
      BY <2>1, <2>2, <2>3, <3>1 DEF AuthorityInv, DecisionsOK
    <3>2. ASSUME NEW e \in decisions' PROVE e.n <= lastDecision'
      <4>1. CASE e = new
        BY <1>2, <1>3, <2>2, <2>3, <4>1
      <4>2. CASE e # new
        BY <1>2, <2>1, <4>2 DEF AuthorityInv, DecisionsOK
      <4> QED
        BY <4>1, <4>2
    <3>3. \A a \in Approval : provisioned'[a] > 0 => approvals'[a].status \in {"APPROVED", "REJECTED"}
      BY <1>5, <2>4 DEF AuthorityInv, DecisionsOK, AuthorityTypeOK
    <3>4. \E e \in decisions' : e.active
      BY <2>1
    <3> QED
      BY <2>7, <3>1, <3>2, <3>3, <3>4 DEF DecisionsOK
  <2>10. ASSUME NEW v \in Approver PROVE ResolutionOK(rtx[v])'
    <3>1. CASE v = w
      BY <1>4, <3>1, NoResolutionOK DEF ResolutionOK, Numbered
    <3>2. CASE v # w
      <4>1. PICK u : u = rtx[v]
        OBVIOUS
      <4>2. u \in Resolution /\ ResolutionOK(u) /\ Apart(t, u) /\ rtx'[v] = u
        BY <1>0, <1>4, <3>2, <4>1, ResolutionShape DEF AuthorityInv, ResolutionsOK
      <4>3. u.superseded \subseteq decisions'
        BY <2>1, <4>2 DEF ResolutionOK, Apart
      <4>4. Numbered(u) => \A e \in decisions' : e.n # u.decision
        BY <2>1, <2>2, <2>3, <4>2 DEF ResolutionOK, Apart
      <4>6. ASSUME NEW d \in u.active PROVE d.active /\ d.n # new.n
        BY <2>2, <2>3, <4>2 DEF ResolutionOK, Looked
      <4>7. ASSUME NEW d \in u.active, NEW e \in decisions', e.n = d.n, e.active PROVE e \in decisions /\ e = d
        <5>1. PICK f \in decisions : e.n = f.n /\ e = IF f \in t.superseded THEN Deactivated(f) ELSE f
          BY <2>1, <4>6, <4>7
        <5>2. f \in Decisions
          BY DEF AuthorityInv, AuthorityTypeOK
        <5>3. e = f
          BY <4>7, <5>1, <5>2, DeactivatedShape
        <5> QED
          BY <4>2, <4>7, <5>3 DEF ResolutionOK, Looked
      <4>8. Looked(u)'
        BY <2>1, <4>2, <4>7 DEF ResolutionOK, Looked
      <4>9. Replaced(u)'
        BY <4>2, <4>6, <4>7 DEF ResolutionOK, Replaced
      <4>5. ResolutionOK(u)'
        BY <1>2, <4>2, <4>3, <4>4, <4>8, <4>9 DEF ResolutionOK, Numbered
      <4> QED
        BY <4>2, <4>5 DEF ResolutionOK, Looked, Replaced, Numbered
    <3> QED
      BY <3>1, <3>2
  <2>11. ASSUME NEW v \in Approver, NEW u \in Approver, v # u PROVE Apart(rtx[v], rtx[u])'
    BY <1>4, <2>11, NoResolutionOK DEF AuthorityInv, ResolutionsOK, Apart, Numbered
  <2> QED
    BY <2>8, <2>9, <2>10, <2>11 DEF AuthorityInv, ResolutionsOK
<1> QED
  BY <1>6, <1>7

\* The invariant of the authority holds of every run.
THEOREM AuthorityInvariance == AuthoritySpec => []AuthorityInv
<1>1. AuthorityInv /\ [AuthorityNext]_authorityVars => AuthorityInv'
  <2> SUFFICES ASSUME AuthorityInv, [AuthorityNext]_authorityVars PROVE AuthorityInv'
    OBVIOUS
  <2>1. CASE UNCHANGED authorityVars
    <3>1. AuthorityTypeOK' /\ DecisionsOK'
      BY <2>1 DEF authorityVars, AuthorityInv, AuthorityTypeOK, DecisionsOK, Numbers
    <3>2. ASSUME NEW w \in Approver PROVE ResolutionOK(rtx[w])'
      <4>1. ResolutionOK(rtx[w])
        BY DEF AuthorityInv, ResolutionsOK
      <4> QED
        BY <2>1, <4>1 DEF authorityVars, ResolutionOK, Looked, Replaced, Numbered
    <3>3. ASSUME NEW v \in Approver, NEW w \in Approver, v # w PROVE Apart(rtx[v], rtx[w])'
      <4>1. Apart(rtx[v], rtx[w])
        BY <3>3 DEF AuthorityInv, ResolutionsOK
      <4> QED
        BY <2>1, <4>1 DEF authorityVars, Apart, Numbered
    <3> QED
      BY <3>1, <3>2, <3>3 DEF AuthorityInv, ResolutionsOK
  <2>2. ASSUME NEW a \in Approval, \/ \E effect \in GatedEffect : Propose(a, effect)
                                   \/ \E status \in {"APPROVED", "REJECTED"} : GateUpdate(a, status)
        PROVE  AuthorityInv'
    BY <2>2, StatusKeeps
  <2>3. ASSUME NEW w \in Approver,
               \/ \E a \in Approval, approved \in BOOLEAN : ReadRequest(w, a, approved)
               \/ UpdateRequest(w) \/ FindActive(w) \/ Supersede(w) \/ CreateDecision(w) \/ ExecuteEffect(w)
               \/ CastVote(w) \/ RefuseVote(w) \/ RollbackResolution(w)
        PROVE  AuthorityInv'
    BY <2>3, StatementsKeep
  <2>4. ASSUME NEW w \in Approver, CommitResolution(w) PROVE AuthorityInv'
    BY <2>4, CommitKeeps
  <2> QED
    BY <2>1, <2>2, <2>3, <2>4 DEF AuthorityNext
<1> QED
  BY <1>1, AuthorityBegins, PTL DEF AuthoritySpec

(***************************************************************************)
(* For any number of approvals under way: a resolution that commits its    *)
(* decision leaves none active of those it found, and none comes back.     *)
(***************************************************************************)
THEOREM ResolutionsReplace == AuthoritySpec => ResolutionsReplaceWhatTheySaw
<1> DEFINE Replaces ==
      /\ \A w \in Approver :
           /\ rtx[w].pc = "commit" /\ rtx[w].approved
           /\ \E new \in decisions' : new.n = rtx[w].decision
           => \A d \in rtx[w].active, e \in decisions' : e.n = d.n => ~e.active
      /\ \A d \in decisions, e \in decisions' : e.n = d.n /\ e.active => d.active
<1>1. ASSUME AuthorityInv, decisions' = decisions PROVE Replaces
  <2>1. ASSUME NEW w \in Approver, rtx[w].pc = "commit", rtx[w].approved,
               NEW new \in decisions', new.n = rtx[w].decision
        PROVE  FALSE
    BY <1>1, <2>1, ResolutionShape DEF ResolutionOK, Numbered
  <2>2. \A d, e \in decisions : e.n = d.n => e = d
    BY <1>1 DEF AuthorityInv, DecisionsOK
  <2> QED
    BY <1>1, <2>1, <2>2
<1>2. ASSUME AuthorityInv, NEW v \in Approver, CommitResolution(v), rtx[v].approved PROVE Replaces
  <2>1. PICK t : t = rtx[v]
    OBVIOUS
  <2>2. PICK made : made = [n |-> t.decision, approval |-> t.approval, active |-> TRUE]
    OBVIOUS
  <2>3. /\ \A e \in decisions' \ {made} : \E d \in decisions :
             e.n = d.n /\ e.approval = d.approval /\ e = IF d \in t.superseded THEN Deactivated(d) ELSE d
        /\ t.superseded \subseteq decisions /\ decisions \subseteq Decisions
    BY <1>2, <2>1, <2>2, CommitCounts, ResolutionShape DEF AuthorityInv, AuthorityTypeOK, ResolutionOK
  <2>4. /\ ResolutionOK(t) /\ Numbered(t) /\ made.n = t.decision /\ t.pc = "commit"
        /\ \A d \in decisions : d.n # made.n
    BY <1>2, <2>1, <2>2, ResolutionShape DEF CommitResolution, ResolutionOK, Numbered
  <2>5. ASSUME NEW d \in decisions, NEW e \in decisions', e.n = d.n, e.active
        PROVE  e = d /\ d \notin t.superseded
    <3>1. e # made
      BY <2>4, <2>5
    <3>2. PICK f \in decisions : e.n = f.n /\ e = IF f \in t.superseded THEN Deactivated(f) ELSE f
      BY <2>3, <3>1
    <3>3. f = d
      BY <1>2, <2>5, <3>2 DEF AuthorityInv, DecisionsOK
    <3>4. d \in Decisions
      BY <2>3
    <3> QED
      BY <2>5, <3>2, <3>3, <3>4, DeactivatedShape
  <2>6. ASSUME NEW w \in Approver, rtx[w].pc = "commit", rtx[w].approved,
               NEW new \in decisions', new.n = rtx[w].decision,
               NEW d \in rtx[w].active, NEW e \in decisions', e.n = d.n, e.active
        PROVE  FALSE
    <3>1. ResolutionOK(rtx[w]) /\ Numbered(rtx[w])
      BY <1>2, <2>6, ResolutionShape DEF Numbered
    <3>2. w = v
      <4>1. new = made
        <5>1. ASSUME new # made PROVE FALSE
          <6>1. \E f \in decisions : new.n = f.n
            BY <2>3, <5>1
          <6> QED
            BY <2>6, <3>1, <6>1 DEF ResolutionOK
        <5> QED
          BY <5>1
      <4>2. ASSUME w # v PROVE FALSE
        BY <1>2, <2>1, <2>4, <2>6, <3>1, <4>1, <4>2 DEF AuthorityInv, ResolutionsOK, Apart
      <4> QED
        BY <4>2
    <3>3. PICK f \in decisions : f.n = d.n
      BY <3>1 DEF ResolutionOK, Looked
    <3>4. e = f /\ f \notin t.superseded
      BY <2>5, <2>6, <3>3
    <3>5. f = d
      BY <2>6, <3>1, <3>3, <3>4 DEF ResolutionOK, Looked
    <3>6. d \in t.superseded
      BY <2>1, <2>6, <3>1, <3>2, <3>5 DEF ResolutionOK, Replaced
    <3> QED
      BY <3>4, <3>5, <3>6
  <2> QED
    BY <2>5, <2>6
<1>3. ASSUME AuthorityInv, [AuthorityNext]_authorityVars PROVE Replaces
  <2>1. CASE decisions' = decisions
    BY <1>1, <1>3, <2>1
  <2>2. CASE decisions' # decisions
    <3>1. PICK v \in Approver : CommitResolution(v)
      <4>1. AuthorityNext
        BY <1>3, <2>2 DEF authorityVars
      <4>2. ASSUME NEW a \in Approval, \/ \E effect \in GatedEffect : Propose(a, effect)
                                       \/ \E status \in {"APPROVED", "REJECTED"} : GateUpdate(a, status)
            PROVE  FALSE
        BY <2>2, <4>2 DEF Propose, GateUpdate
      <4>3. ASSUME NEW w \in Approver,
                   \/ \E a \in Approval, approved \in BOOLEAN : ReadRequest(w, a, approved)
                   \/ UpdateRequest(w) \/ FindActive(w) \/ Supersede(w) \/ CreateDecision(w) \/ ExecuteEffect(w)
                   \/ CastVote(w) \/ RefuseVote(w) \/ RollbackResolution(w)
            PROVE  FALSE
        BY <2>2, <4>3, Zenon DEF ReadRequest, UpdateRequest, FindActive, Supersede, CreateDecision, ExecuteEffect,
                                 CastVote, RefuseVote, RollbackResolution, Resolving
      <4> QED
        BY <4>1, <4>2, <4>3 DEF AuthorityNext
    <3>2. rtx[v].approved
      <4>1. ASSUME ~rtx[v].approved PROVE FALSE
        <5>1. rtx[v].superseded = {}
          BY <1>3, <4>1, ResolutionShape DEF ResolutionOK
        <5>2. decisions' = (decisions \ {}) \cup { [d EXCEPT !.active = FALSE] : d \in {} } \cup {}
          BY <3>1, <4>1, <5>1, Zenon DEF CommitResolution
        <5> QED
          BY <2>2, <5>2
      <4> QED
        BY <4>1
    <3> QED
      BY <1>2, <1>3, <3>1, <3>2
  <2> QED
    BY <2>1, <2>2
<1> QED
  BY <1>3, AuthorityInvariance, PTL DEF AuthoritySpec, ResolutionsReplaceWhatTheySaw
=============================================================================
