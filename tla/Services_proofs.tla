--------------------------- MODULE Services_proofs ---------------------------
(***************************************************************************)
(* The readers of the system, for every value of the constants: the two    *)
(* cursors, the explanations, the views.  Then all the services together:  *)
(* what was proved of each one holds of the module that composes them.     *)
(***************************************************************************)
EXTENDS MCServices, OnceOnly_proofs, Processes_proofs, Replay_proofs, SequenceTheorems, TLAPS

-----------------------------------------------------------------------------
(* Scrolling back through the messages of a case. *)

\* A page of a set of messages: each one is on it or older than its cursor.
LEMMA PageOrCursor ==
  ASSUME NEW S, S \subseteq 1..MaxMessages, NEW id \in S
  PROVE  id \in Newest(S, PageSize) \/ id < NextCursor(S)
<1>0. S \subseteq Nat /\ \A x \in S : x \in Nat /\ x <= MaxMessages
  BY MaxMessagesAssumption
<1>1. IsFiniteSet(S) /\ Cardinality(S) \in Nat
  <2>1. IsFiniteSet(1..MaxMessages)
    BY MaxMessagesAssumption, FS_Interval
  <2> QED
    BY <2>1, FS_Subset, FS_CardinalityType
<1>2. PICK above : above = [x \in S |-> { y \in S : y > x }]
  OBVIOUS
<1>3. \A x \in S : IsFiniteSet(above[x]) /\ Cardinality(above[x]) \in Nat /\ above[x] \subseteq S
  BY <1>1, <1>2, FS_Subset, FS_CardinalityType
<1>4. PICK page : page = Newest(S, PageSize)
  OBVIOUS
<1>5. page = { x \in S : Cardinality(above[x]) < PageSize }
  BY <1>2, <1>4 DEF Newest
<1>6. CASE Cardinality(S) <= PageSize
  <2>1. id \notin above[id]
    BY <1>2
  <2>2. Cardinality(above[id]) <= Cardinality(S) /\ Cardinality(above[id]) # Cardinality(S)
    BY <1>1, <1>3, <2>1, FS_Subset
  <2>3. Cardinality(above[id]) < PageSize
    BY <1>1, <1>3, <1>6, <2>2, PageSizeAssumption
  <2> QED
    BY <1>4, <1>5, <2>3
<1>7. CASE Cardinality(S) > PageSize
  <2>0. page \subseteq S
    BY <1>5
  <2>1. page \subseteq Nat /\ \A x \in page : x \in S /\ x \in Nat
    BY <1>0, <2>0
  <2>2. page # {}
    <3>1. PICK top \in S : \A x \in S : x <= top
      BY <1>0, MaxMessagesAssumption, GreatestNumber
    <3>2. \A x \in S : ~(x > top)
      BY <1>0, <3>1
    <3>3. above[top] = {}
      BY <1>2, <3>2
    <3>4. Cardinality(above[top]) = 0
      BY <3>3, FS_EmptySet
    <3> QED
      BY <1>5, <3>1, <3>4, PageSizeAssumption
  <2>3. \E n \in page : \A x \in page : n <= x
    BY <2>1, <2>2, LeastNumber
  <2>4. PICK next : next = NextCursor(S)
    OBVIOUS
  <2>5. next \in page /\ \A x \in page : next <= x
    <3>1. next = CHOOSE n \in page : \A x \in page : n <= x
      BY <1>1, <1>4, <1>7, <2>4, PageSizeAssumption DEF NextCursor
    <3> QED
      BY <2>3, <3>1
  <2>6. CASE id >= next
    <3>1. next \in S /\ Cardinality(above[next]) < PageSize
      BY <1>5, <2>5
    <3>2. above[id] \subseteq above[next]
      <4>1. \A y \in S : y > id => y > next
        BY <1>0, <2>6, <3>1
      <4> QED
        BY <1>2, <3>1, <4>1
    <3>3. Cardinality(above[id]) <= Cardinality(above[next])
      BY <1>3, <3>1, <3>2, FS_Subset
    <3>4. Cardinality(above[id]) < PageSize
      <4>1. Cardinality(above[id]) \in Nat /\ Cardinality(above[next]) \in Nat
        BY <1>3, <3>1
      <4> QED
        BY <3>1, <3>3, <4>1, PageSizeAssumption
    <3> QED
      BY <1>4, <1>5, <3>4
  <2>7. CASE id < next
    BY <2>4, <2>7
  <2> QED
    BY <2>1, <2>5, <2>6, <2>7
<1> QED
  BY <1>1, <1>6, <1>7, PageSizeAssumption

\* A cursor is 0 or a message of the set, a page is part of it.
LEMMA PageShape ==
  ASSUME NEW S, S \subseteq 1..MaxMessages
  PROVE  Newest(S, PageSize) \subseteq S /\ NextCursor(S) \in 0..MaxMessages
<1>0. S \subseteq Nat /\ \A x \in S : x \in Nat /\ x <= MaxMessages
  BY MaxMessagesAssumption
<1>1. Newest(S, PageSize) \subseteq S
  BY DEF Newest
<1>2. CASE S = {}
  <2>1. Cardinality(S) = 0
    BY <1>2, FS_EmptySet
  <2> QED
    BY <1>1, <2>1, PageSizeAssumption, MaxMessagesAssumption DEF NextCursor
<1>3. CASE S # {}
  <2>1. CASE NextCursor(S) = 0
    BY <1>1, <2>1, MaxMessagesAssumption
  <2>2. CASE NextCursor(S) # 0
    <3>1. PICK page : page = Newest(S, PageSize)
      OBVIOUS
    <3>2. NextCursor(S) = CHOOSE n \in page : \A x \in page : n <= x
      BY <2>2, <3>1 DEF NextCursor
    <3>3. page # {}
      <4>1. PICK top \in S : \A x \in S : x <= top
        BY <1>0, <1>3, MaxMessagesAssumption, GreatestNumber
      <4>2. { x \in S : x > top } = {}
        <5>1. \A x \in S : ~(x > top)
          BY <1>0, <4>1
        <5> QED
          BY <5>1
      <4>3. Cardinality({ x \in S : x > top }) = 0
        BY <4>2, FS_EmptySet
      <4> QED
        BY <3>1, <4>1, <4>3, PageSizeAssumption DEF Newest
    <3>4. \E n \in page : \A x \in page : n <= x
      <4>1. page \subseteq Nat
        BY <1>0, <1>1, <3>1
      <4> QED
        BY <3>3, <4>1, LeastNumber
    <3>5. NextCursor(S) \in page
      BY <3>2, <3>4
    <3> QED
      <4>1. NextCursor(S) \in S
        BY <1>1, <3>1, <3>5
      <4>2. \A n \in S : n \in 0..MaxMessages
        BY <1>0, MaxMessagesAssumption
      <4> QED
        BY <1>1, <4>1, <4>2
  <2> QED
    BY <2>1, <2>2
<1> QED
  BY <1>2, <1>3

MessageIds == { m.id : m \in messages }

\* A call of updatePosition; what is under way is for a reader of the case.
ReadRow ==
  { r \in [pc: {"none", "existing", "compare"}, user: Reader \cup {"nobody"},
           id: 0..MaxMessages, existing: 0..MaxMessages] : r.pc # "none" => r.user \in Reader }

\* A client that scrolls back through the messages.
ScrollRow == [cursor: 0..MaxMessages, wanted: SUBSET (1..MaxMessages), seen: SUBSET (1..MaxMessages)]

\* What a client wanted to see when it opened the case is there for good.
ScrollInv ==
  /\ acks \subseteq (Mutation \cup {NoMutation}) \X (1..MaxMessages)
  /\ reads \in [ReadCall -> ReadRow]
  /\ position \in [Reader -> 0..MaxMessages]
  /\ scroll \in ScrollRow
  /\ scroll.wanted \subseteq MessageIds
  /\ CursorSkipsNothing

LEMMA ReadShapes ==
  /\ NoRead \in ReadRow
  /\ \A u \in Reader, id \in 1..MaxMessages :
       [pc |-> "existing", user |-> u, id |-> id, existing |-> 0] \in ReadRow
BY MaxMessagesAssumption DEF NoRead, ReadRow

LEMMA ScrollBegins == MessagingInit => ScrollInv
<1> USE DEF ScrollRow
<1> SUFFICES ASSUME MessagingInit PROVE ScrollInv
  OBVIOUS
<1>1. reads \in [ReadCall -> ReadRow]
  BY ReadShapes DEF MessagingInit
<1>2. 0 \in 0..MaxMessages
  BY MaxMessagesAssumption
<1> QED
  BY <1>1, <1>2 DEF MessagingInit, NoScroll, ScrollInv, CursorSkipsNothing

\* Messages are only added: what the client has and is to see stays.
LEMMA ScrollStays ==
  ASSUME ScrollInv, messages \subseteq messages', scroll' = scroll
  PROVE  /\ scroll' \in ScrollRow
         /\ scroll'.wanted \subseteq MessageIds' /\ CursorSkipsNothing'
BY DEF ScrollInv, CursorSkipsNothing, MessageIds

LEMMA ScrollStep ==
  ASSUME MessagesInv, ScrollInv, [MessagingNext]_messagingVars
  PROVE  ScrollInv'
<1> USE DEF ScrollRow
<1> DEFINE Quiet == UNCHANGED <<acks, reads, position>>
<1>1. ASSUME messages \subseteq messages', scroll' = scroll, Quiet PROVE ScrollInv'
  BY <1>1, ScrollStays DEF ScrollInv
<1>2. CASE UNCHANGED messagingVars
  BY <1>1, <1>2 DEF messagingVars
<1>3. ASSUME NEW p \in Post,
             \/ \E mutation \in Mutation \cup {NoMutation} : SendMessage(p, mutation)
             \/ FindMessage(p) \/ RefuseMessage(p) \/ CreateRow(p) \/ DuplicateRow(p) \/ CommitMessage(p)
      PROVE  ScrollInv'
  <2>1. messages \subseteq messages' /\ scroll' = scroll /\ Quiet
    BY <1>3 DEF SendMessage, FindMessage, RefuseMessage, CreateRow, DuplicateRow, CommitMessage, PostsOnly
  <2> QED
    BY <1>1, <2>1
<1>4. ASSUME NEW p \in Post, AnswerMessage(p) PROVE ScrollInv'
  <2>1. RowOf(posts[p]) \in MessageRow
    BY <1>4 DEF AnswerMessage, MessagesInv, MessagesOK, PostsOK, PostOK
  <2>2. <<posts[p].mutation, posts[p].id>> \in (Mutation \cup {NoMutation}) \X (1..MaxMessages)
    BY <2>1 DEF RowOf, MessageRow
  <2>3. /\ acks' = acks \cup {<<posts[p].mutation, posts[p].id>>}
        /\ UNCHANGED <<messages, reads, position, scroll>>
    BY <1>4 DEF AnswerMessage
  <2>4. acks' \subseteq (Mutation \cup {NoMutation}) \X (1..MaxMessages)
    BY <2>2, <2>3 DEF ScrollInv
  <2> QED
    BY <2>3, <2>4, ScrollStays DEF ScrollInv
<1>5. ASSUME NEW c \in ReadCall, NEW row \in ReadRow, reads' = [reads EXCEPT ![c] = row],
             position' \in [Reader -> 0..MaxMessages], UNCHANGED <<messages, acks, scroll>>
      PROVE  ScrollInv'
  <2>1. reads' \in [ReadCall -> ReadRow]
    BY <1>5 DEF ScrollInv
  <2> QED
    BY <1>5, <2>1, ScrollStays DEF ScrollInv
<1>6. ASSUME NEW c \in ReadCall, NEW u \in Reader, NEW id \in 1..MaxMessages, ReadUpTo(c, u, id)
      PROVE  ScrollInv'
  BY <1>5, <1>6, ReadShapes DEF ReadUpTo, ReadsOnly, ScrollInv
<1>7. ASSUME NEW c \in ReadCall, FetchPosition(c) PROVE ScrollInv'
  <2>1. PICK r : r = reads[c]
    OBVIOUS
  <2>2. r \in ReadRow /\ r.pc = "existing"
    BY <1>7, <2>1 DEF ScrollInv, FetchPosition
  <2>3. PICK n : n = position[r.user]
    OBVIOUS
  <2>4. n \in 0..MaxMessages
    BY <2>2, <2>3 DEF ReadRow, ScrollInv
  <2>5. PICK row : row = [r EXCEPT !.pc = "compare", !.existing = n]
    OBVIOUS
  <2>6. row \in ReadRow
    <3>1. row.user = r.user /\ r.user \in Reader
      BY <2>2, <2>5 DEF ReadRow
    <3> QED
      BY <2>2, <2>4, <2>5, <3>1 DEF ReadRow
  <2>7. reads' = [reads EXCEPT ![c] = row]
    BY <1>7, <2>1, <2>3, <2>5 DEF FetchPosition
  <2> QED
    BY <1>5, <1>7, <2>6, <2>7 DEF FetchPosition, ReadsOnly, ScrollInv
<1>8. ASSUME NEW c \in ReadCall, IgnoreBackward(c) PROVE ScrollInv'
  BY <1>5, <1>8, ReadShapes DEF IgnoreBackward, ReadsOnly, ScrollInv
<1>9. ASSUME NEW c \in ReadCall, UpsertPosition(c) PROVE ScrollInv'
  <2>1. reads[c] \in ReadRow /\ position \in [Reader -> 0..MaxMessages]
    BY DEF ScrollInv
  <2>2. position' \in [Reader -> 0..MaxMessages]
    <3>1. reads[c].id \in 0..MaxMessages
      BY <2>1 DEF ReadRow
    <3> QED
      BY <1>9, <2>1, <3>1 DEF UpsertPosition
  <2> QED
    BY <1>5, <1>9, <2>2, ReadShapes DEF UpsertPosition, ReadsOnly, ScrollInv
<1>10. MessageIds \subseteq 1..MaxMessages
  BY DEF MessageIds, MessagesInv, MessagesOK, MessageRow
<1>11. CASE OpenCase
  <2>1. PICK first : first = FetchPage(MaxMessages + 1)
    OBVIOUS
  <2>2. { m.id : m \in { x \in messages : x.id < MaxMessages + 1 } } = MessageIds
    <3>1. \A x \in messages : x.id < MaxMessages + 1
      BY MaxMessagesAssumption DEF MessagesInv, MessagesOK, MessageRow
    <3> QED
      BY <3>1 DEF MessageIds
  <2>3. first = [page |-> Newest(MessageIds, PageSize), next |-> NextCursor(MessageIds)]
    BY <2>1, <2>2 DEF FetchPage
  <2>4. /\ scroll' = [cursor |-> first.next, wanted |-> MessageIds, seen |-> first.page]
        /\ UNCHANGED <<messages, acks, reads, position>>
    BY <1>11, <2>1 DEF OpenCase, MessageIds
  <2>5. first.page \subseteq MessageIds /\ first.next \in 0..MaxMessages
    BY <1>10, <2>3, PageShape
  <2>6. \A id \in MessageIds : id \in first.page \/ id < first.next
    BY <1>10, <2>3, PageOrCursor
  <2>7. MessageIds' = MessageIds
    BY <2>4 DEF MessageIds
  <2>8. scroll' \in ScrollRow
    BY <1>10, <2>4, <2>5
  <2>9. scroll'.wanted \subseteq MessageIds' /\ CursorSkipsNothing'
    BY <2>4, <2>6, <2>7 DEF CursorSkipsNothing
  <2> QED
    BY <2>4, <2>8, <2>9 DEF ScrollInv
<1>12. CASE ScrollBack
  <2>1. PICK following : following = FetchPage(scroll.cursor)
    OBVIOUS
  <2>2. PICK older : older = { m.id : m \in { x \in messages : x.id < scroll.cursor } }
    OBVIOUS
  <2>3. following = [page |-> Newest(older, PageSize), next |-> NextCursor(older)]
    BY <2>1, <2>2 DEF FetchPage
  <2>4. older = { id \in MessageIds : id < scroll.cursor }
    BY <2>2 DEF MessageIds
  <2>5. older \subseteq 1..MaxMessages
    BY <1>10, <2>4
  <2>6. /\ following.page \subseteq older /\ following.next \in 0..MaxMessages
        /\ \A id \in older : id \in following.page \/ id < following.next
    BY <2>3, <2>5, PageShape, PageOrCursor
  <2>7. /\ scroll' = IF scroll.cursor = 0 THEN NoScroll
                      ELSE [scroll EXCEPT !.cursor = following.next, !.seen = @ \cup following.page]
        /\ UNCHANGED <<messages, acks, reads, position>>
    BY <1>12, <2>1 DEF ScrollBack
  <2>8. MessageIds' = MessageIds
    BY <2>7 DEF MessageIds
  <2>9. CASE scroll.cursor = 0
    BY <2>7, <2>9, MaxMessagesAssumption DEF NoScroll, ScrollInv, CursorSkipsNothing
  <2>10. CASE scroll.cursor # 0
    <3>1. scroll' = [cursor |-> following.next, wanted |-> scroll.wanted,
                     seen |-> scroll.seen \cup following.page]
      BY <2>7, <2>10 DEF ScrollInv
    <3>2. scroll' \in ScrollRow
      BY <2>5, <2>6, <3>1 DEF ScrollInv
    <3>3. \A id \in scroll.wanted : id \in scroll.seen \cup following.page \/ id < following.next
      BY <2>4, <2>6 DEF ScrollInv, CursorSkipsNothing
    <3>4. scroll'.wanted \subseteq MessageIds' /\ CursorSkipsNothing'
      BY <2>8, <3>1, <3>3 DEF ScrollInv, CursorSkipsNothing
    <3> QED
      BY <2>7, <3>2, <3>4 DEF ScrollInv
  <2> QED
    BY <2>9, <2>10
<1>13. CASE MessagingCrash
  <2>1. reads' \in [ReadCall -> ReadRow] /\ UNCHANGED <<messages, acks, position, scroll>>
    BY <1>13, ReadShapes DEF MessagingCrash
  <2> QED
    BY <2>1, ScrollStays DEF ScrollInv
<1> QED
  BY <1>2, <1>3, <1>4, <1>6, <1>7, <1>8, <1>9, <1>11, <1>12, <1>13 DEF MessagingNext

\* The invariant of the messages holds of every run, with the page a client is at.
THEOREM ScrollInvariance == MessagingSpec => [](MessagingTypeOK /\ CursorSkipsNothing)
<1>1. MessagesInv /\ ScrollInv => MessagingTypeOK /\ CursorSkipsNothing
  BY DEF MessagesInv, MessagesOK, PostsOK, PostRow, MessageRow, ScrollInv, ScrollRow, ReadRow,
         MessagingTypeOK
<1>2. MessagesInv /\ ScrollInv /\ [MessagingNext]_messagingVars => ScrollInv'
  BY ScrollStep
<1> QED
  BY <1>1, <1>2, ScrollBegins, MessagesInvariance, PTL DEF MessagingSpec

-----------------------------------------------------------------------------
(* Paging through the cases of a tenant. *)

\* The cases a SELECT may return after a cursor.
After(cursor) == { r \in committed : cursor = NoCursor \/ r < cursor }

\* The place of a case among them, the newest first.
Place(cursor, r) == Cardinality({ x \in After(cursor) : x >= r })

\* Each of the first cases after the cursor has a place of its own.
LEMMA PlacesDiffer ==
  ASSUME committed \subseteq 1..MaxRank, NEW cursor
  PROVE  /\ IsFiniteSet(After(cursor)) /\ Cardinality(After(cursor)) \in Nat
         /\ \A r \in After(cursor) : Place(cursor, r) \in 1..Cardinality(After(cursor))
         /\ \A i \in 1..Cardinality(After(cursor)) : \E r \in After(cursor) : Place(cursor, r) = i
         /\ \A r, q \in After(cursor) : r > q <=> Place(cursor, r) < Place(cursor, q)
<1>1. PICK S : S = After(cursor)
  OBVIOUS
<1>2. S \subseteq committed /\ \A r \in S : r \in 1..MaxRank /\ r \in Int
  BY <1>1 DEF After
<1>3. IsFiniteSet(S)
  <2>1. IsFiniteSet(1..MaxRank) /\ S \subseteq 1..MaxRank
    BY <1>2, LimitAssumption, FS_Interval
  <2> QED
    BY <2>1, FS_Subset
<1>4. PICK key : key = [r \in S |-> -r]
  OBVIOUS
<1>5. KeysDiffer(S, key)
  BY <1>2, <1>4 DEF KeysDiffer
<1>6. PICK rank : rank = RankBy(S, key)
  OBVIOUS
<1>7. Numbering(S, key, rank, Cardinality(S))
  BY <1>3, <1>5, <1>6, Ranking
<1>8. ASSUME NEW r \in S PROVE rank[r] = Place(cursor, r)
  <2>1. \A x \in S : key[x] <= key[r] <=> x >= r
    BY <1>2, <1>4
  <2>2. { x \in S : key[x] <= key[r] } = { x \in S : x >= r }
    BY <2>1
  <2> QED
    BY <1>1, <1>6, <2>2 DEF RankBy, Place
<1>9. ASSUME NEW r \in S, NEW q \in S PROVE r > q <=> rank[r] < rank[q]
  <2>1. rank[r] \in Int /\ rank[q] \in Int
    BY <1>7 DEF Numbering
  <2>2. r > q => rank[r] < rank[q]
    BY <1>2, <1>4, <1>7 DEF Numbering
  <2>3. q > r => rank[q] < rank[r]
    BY <1>2, <1>4, <1>7 DEF Numbering
  <2> QED
    BY <1>2, <2>1, <2>2, <2>3
<1>10. Cardinality(S) \in Nat
  BY <1>3, FS_CardinalityType
<1>11. /\ \A r \in S : rank[r] \in 1..Cardinality(S)
       /\ \A i \in 1..Cardinality(S) : \E r \in S : rank[r] = i
  BY <1>7 DEF Numbering
<1> QED
  BY <1>1, <1>3, <1>8, <1>9, <1>10, <1>11

\* What SelectCases returns: the first n of the cases after the cursor, in order.
FirstOf(rows, cursor, n) ==
  /\ Len(rows) \in 0..n /\ DOMAIN rows = 1..Len(rows)
  /\ \A i \in 1..Len(rows) : rows[i] \in After(cursor)
  /\ \A i, j \in 1..Len(rows) : i < j => rows[i] > rows[j]
  /\ \A r \in After(cursor) : \/ \E i \in 1..Len(rows) : rows[i] = r
                              \/ Len(rows) = n /\ \A i \in 1..Len(rows) : r < rows[i]

LEMMA SelectIsFirst ==
  ASSUME committed \subseteq 1..MaxRank, NEW cursor, NEW n \in Nat
  PROVE  FirstOf(SelectCases(cursor, n), cursor, n)
<1>1. PICK S : S = After(cursor)
  OBVIOUS
<1>2. PICK N : N = Cardinality(S)
  OBVIOUS
<1>3. PICK place : place = [r \in S |-> Place(cursor, r)]
  OBVIOUS
<1>4. /\ IsFiniteSet(S) /\ N \in Nat
      /\ \A r \in S : place[r] \in 1..N
      /\ \A i \in 1..N : \E r \in S : place[r] = i
      /\ \A r, q \in S : r > q <=> place[r] < place[q]
  BY <1>1, <1>2, <1>3, PlacesDiffer
<1>5. \A r \in S : r \in Int
  BY <1>1 DEF After
<1>6. PICK taken : taken = { r \in S : place[r] <= n }
  OBVIOUS
<1>7. PICK m : m = IF n <= N THEN n ELSE N
  OBVIOUS
<1>8. m \in Nat /\ m <= n /\ m <= N /\ (m = n \/ m = N)
  BY <1>4, <1>7
<1>9. PICK pos : pos = [i \in 1..m |-> CHOOSE r \in taken : place[r] = i]
  OBVIOUS
<1>10. \A i \in 1..m : pos[i] \in taken /\ place[pos[i]] = i
  <2>1. \A i \in 1..m : \E r \in taken : place[r] = i
    BY <1>4, <1>6, <1>8
  <2> QED
    BY <1>9, <2>1
<1>11. \A r \in taken : place[r] \in 1..m /\ pos[place[r]] = r
  <2> SUFFICES ASSUME NEW r \in taken PROVE place[r] \in 1..m /\ pos[place[r]] = r
    OBVIOUS
  <2>1. r \in S /\ place[r] \in 1..N /\ place[r] <= n
    BY <1>4, <1>6
  <2>2. place[r] \in 1..m
    BY <1>4, <1>7, <2>1
  <2>3. pos[place[r]] \in S /\ place[pos[place[r]]] = place[r]
    BY <1>6, <1>10, <2>2
  <2>4. ~(pos[place[r]] > r) /\ ~(r > pos[place[r]])
    BY <1>4, <2>1, <2>2, <2>3
  <2> QED
    BY <1>5, <2>1, <2>2, <2>3, <2>4
<1>12. Cardinality(taken) = m
  <2>1. pos \in [1..m -> taken] /\ DOMAIN pos = 1..m
    BY <1>9, <1>10
  <2>2. \A i, j \in 1..m : pos[i] = pos[j] => i = j
    BY <1>10
  <2>3. \A r \in taken : \E i \in 1..m : pos[i] = r
    BY <1>11
  <2>4. pos \in Bijection(1..m, taken)
    BY <2>1, <2>2, <2>3 DEF Bijection, Injection, IsInjective, Surjection
  <2>5. IsFiniteSet(1..m) /\ Cardinality(1..m) = m
    BY <1>8, FS_Interval
  <2> QED
    BY <2>4, <2>5, FS_Bijection DEF ExistsBijection
<1>13. PICK rows : rows = SelectCases(cursor, n)
  OBVIOUS
<1>14. rows \in [1..m -> taken] /\ \A i \in 1..m : rows[i] = pos[i]
  <2>1. \A r \in S : place[r] = Cardinality({ x \in S : x >= r })
    BY <1>1, <1>3 DEF Place
  <2>2. { r \in S : Cardinality({ x \in S : x >= r }) <= n } = taken
    BY <1>6, <2>1
  <2>3. rows = [i \in 1..Cardinality(taken) |-> CHOOSE r \in taken : Cardinality({ x \in S : x >= r }) = i]
    <3>1. SelectCases(cursor, n) =
            [i \in 1..Cardinality({ r \in After(cursor) : Cardinality({ x \in After(cursor) : x >= r }) <= n }) |->
               CHOOSE r \in { r \in After(cursor) : Cardinality({ x \in After(cursor) : x >= r }) <= n } :
                 Cardinality({ x \in After(cursor) : x >= r }) = i]
      BY DEF SelectCases, After
    <3> QED
      BY <1>1, <1>13, <2>2, <3>1
  <2>4. ASSUME NEW i \in 1..m PROVE rows[i] = pos[i]
    <3>1. pos[i] \in taken /\ pos[i] \in S /\ Cardinality({ x \in S : x >= pos[i] }) = i
      BY <1>6, <1>10, <2>1
    <3>2. rows[i] \in taken /\ Cardinality({ x \in S : x >= rows[i] }) = i
      BY <1>12, <2>3, <3>1
    <3>3. rows[i] \in taken /\ place[rows[i]] = i
      BY <1>6, <2>1, <3>2
    <3> QED
      BY <1>11, <3>3
  <2> QED
    BY <1>10, <1>12, <2>3, <2>4
<1>15. Len(rows) = m
  <2>1. rows \in Seq(taken)
    BY <1>8, <1>14
  <2> QED
    BY <1>8, <1>14, <2>1, LenProperties
<1>16. \A i \in 1..m : rows[i] \in S /\ place[rows[i]] = i
  BY <1>6, <1>10, <1>14
<1>17. ASSUME NEW r \in S PROVE (\E i \in 1..m : rows[i] = r) \/ (m = n /\ \A i \in 1..m : r < rows[i])
  <2>1. CASE r \in taken
    BY <1>11, <1>14, <2>1
  <2>2. CASE r \notin taken
    <3>1. place[r] > n /\ place[r] \in 1..N
      BY <1>4, <1>6, <2>2
    <3>2. m = n
      BY <1>4, <1>7, <3>1
    <3>3. \A i \in 1..m : place[rows[i]] < place[r]
      BY <1>4, <1>8, <1>16, <3>1
    <3>4. \A i \in 1..m : rows[i] > r
      BY <1>4, <1>16, <3>3
    <3> QED
      BY <1>5, <1>16, <3>2, <3>4
  <2> QED
    BY <2>1, <2>2
<1>18. \A i, j \in 1..m : i < j => rows[i] > rows[j]
  BY <1>4, <1>16
<1> QED
  BY <1>1, <1>8, <1>13, <1>14, <1>15, <1>16, <1>17, <1>18 DEF FirstOf

ListItem == [id: 1..MaxRank, routingOutcome: {"DECIDED", "UNASSIGNED"}]

\* A page of GET /api/cases: cases after the cursor in their order, and each case after it is on
\* the page or after the next cursor.
IsPage(cases, next, cursor) ==
  /\ cases \in Seq(ListItem) /\ next \in (1..MaxRank) \cup {NoCursor}
  /\ \A i \in DOMAIN cases : cases[i].id \in After(cursor)
  /\ \A i, j \in DOMAIN cases : i < j => cases[i].id > cases[j].id
  /\ next # NoCursor => next \in After(cursor) /\ \A i \in DOMAIN cases : cases[i].id >= next
  /\ \A r \in After(cursor) : \/ \E i \in DOMAIN cases : cases[i].id = r
                              \/ next # NoCursor /\ r < next

LEMMA PageOfList ==
  ASSUME committed \subseteq 1..MaxRank, NEW cursor, NEW asked \in 0..(MAX_LIMIT + 1)
  PROVE  IsPage(ListCases(cursor, asked).cases, ListCases(cursor, asked).next, cursor)
<1>1. PICK limit : limit = Limit(asked)
  OBVIOUS
<1>2. limit \in Nat /\ limit >= 1
  BY <1>1, LimitAssumption DEF Limit
<1>3. PICK rows : rows = SelectCases(cursor, limit + 1)
  OBVIOUS
<1>4. FirstOf(rows, cursor, limit + 1)
  BY <1>2, <1>3, SelectIsFirst
<1>5. PICK n : n = IF Len(rows) > limit THEN limit ELSE Len(rows)
  OBVIOUS
<1>6. n \in Nat /\ n <= Len(rows) /\ Len(rows) \in Nat /\ Len(rows) <= limit + 1
  <2>1. Len(rows) \in 0..(limit + 1)
    BY <1>4 DEF FirstOf
  <2> QED
    BY <1>2, <1>5, <2>1
<1>7. \A r \in After(cursor) : r \in 1..MaxRank /\ r \in Int
  BY DEF After
<1>8. \A i \in 1..Len(rows) : rows[i] \in After(cursor) /\ rows[i] \in 1..MaxRank
  BY <1>4, <1>7 DEF FirstOf
<1>9. PICK cases : cases = ListCases(cursor, asked).cases
  OBVIOUS
<1>10. PICK next : next = ListCases(cursor, asked).next
  OBVIOUS
<1>11. PICK trimmed : trimmed = IF Len(rows) > limit THEN SubSeq(rows, 1, limit) ELSE rows
  OBVIOUS
<1>12. DOMAIN trimmed = 1..n /\ \A i \in 1..n : trimmed[i] = rows[i]
  <2>1. CASE Len(rows) > limit
    <3>1. trimmed = [i \in 1..limit |-> rows[i]]
      BY <1>2, <1>11, <2>1
    <3> QED
      BY <1>5, <2>1, <3>1
  <2>2. CASE ~(Len(rows) > limit)
    BY <1>4, <1>5, <1>11, <2>2 DEF FirstOf
  <2> QED
    BY <2>1, <2>2
<1>13. cases = [i \in 1..n |-> Item(rows[i])] /\ next = NextOfPage(rows, limit)
  <2>1. cases = [i \in DOMAIN trimmed |-> Item(trimmed[i])] /\ next = NextOfPage(rows, limit)
    BY <1>1, <1>3, <1>9, <1>10, <1>11 DEF ListCases
  <2> QED
    BY <1>12, <2>1
<1>14. \A i \in 1..n : Item(rows[i]) \in ListItem /\ Item(rows[i]).id = rows[i]
  BY <1>6, <1>8 DEF Item, ListItem
<1>15. DOMAIN cases = 1..n /\ cases \in Seq(ListItem) /\ \A i \in 1..n : cases[i].id = rows[i]
  <2>1. cases \in [1..n -> ListItem]
    BY <1>13, <1>14
  <2> QED
    BY <1>6, <1>13, <1>14, <2>1
<1>16. next = IF Len(rows) > limit THEN rows[limit] ELSE NoCursor
  BY <1>13 DEF NextOfPage
<1>17. /\ next \in (1..MaxRank) \cup {NoCursor}
       /\ next # NoCursor => Len(rows) = limit + 1 /\ next = rows[limit] /\ n = limit
  BY <1>2, <1>5, <1>6, <1>8, <1>16
<1>18. \A i, j \in 1..n : i < j => cases[i].id > cases[j].id
  BY <1>4, <1>6, <1>15 DEF FirstOf
<1>19. next # NoCursor => \A i \in 1..n : cases[i].id >= next
  <2> SUFFICES ASSUME next # NoCursor, NEW i \in 1..n PROVE cases[i].id >= next
    OBVIOUS
  <2>1. n = limit /\ next = rows[limit] /\ limit \in 1..Len(rows) /\ i \in 1..Len(rows)
    BY <1>2, <1>6, <1>17
  <2>2. i < limit => rows[i] > rows[limit]
    BY <1>4, <2>1 DEF FirstOf
  <2>3. rows[i] \in Int /\ rows[limit] \in Int
    BY <1>8, <2>1
  <2> QED
    BY <1>2, <1>15, <2>1, <2>2, <2>3
<1>20. ASSUME NEW r \in After(cursor)
       PROVE  (\E i \in 1..n : cases[i].id = r) \/ (next # NoCursor /\ r < next)
  <2>1. \/ \E i \in 1..Len(rows) : rows[i] = r
        \/ Len(rows) = limit + 1 /\ \A i \in 1..Len(rows) : r < rows[i]
    BY <1>4 DEF FirstOf
  <2>2. CASE Len(rows) > limit
    <3>1. Len(rows) = limit + 1 /\ n = limit /\ next = rows[limit] /\ limit \in 1..Len(rows)
      BY <1>2, <1>5, <1>6, <1>16, <2>2
    <3>2. next # NoCursor
      BY <1>8, <3>1, NoCursorAssumption
    <3>3. ASSUME NEW i \in 1..Len(rows), rows[i] = r, i \notin 1..n PROVE r < next
      <4>1. i = limit + 1 /\ limit < i
        BY <1>2, <3>1, <3>3
      <4>2. rows[limit] > rows[i]
        BY <1>4, <3>1, <4>1 DEF FirstOf
      <4>3. rows[limit] \in Int /\ r \in Int
        BY <1>7, <1>8, <3>1
      <4> QED
        BY <3>1, <3>3, <4>2, <4>3
    <3> QED
      BY <1>15, <2>1, <3>1, <3>2, <3>3
  <2>3. CASE ~(Len(rows) > limit)
    <3>1. n = Len(rows) /\ Len(rows) # limit + 1
      BY <1>2, <1>5, <1>6, <2>3
    <3> QED
      BY <1>15, <2>1, <3>1
  <2> QED
    BY <2>2, <2>3
<1>21. next # NoCursor => next \in After(cursor)
  BY <1>2, <1>8, <1>17
<1>22. \A i \in 1..n : cases[i].id \in After(cursor)
  BY <1>6, <1>8, <1>15
<1> QED
  BY <1>9, <1>10, <1>15, <1>17, <1>18, <1>19, <1>20, <1>21, <1>22 DEF IsPage

\* A client that pages through the list.
BrowseRow ==
  [open: BOOLEAN, cursor: (1..MaxRank) \cup {NoCursor}, wanted: SUBSET (1..MaxRank), shown: Seq(ListItem)]

\* What the client has seen is at or above its cursor, and all it wanted is still there.
CaseListInv ==
  /\ begun \in 0..MaxRank /\ routed \subseteq committed /\ committed \subseteq 1..begun
  /\ browse \in BrowseRow
  /\ browse.wanted \subseteq committed
  /\ browse.cursor # NoCursor => \A i \in DOMAIN browse.shown : browse.shown[i].id >= browse.cursor
  /\ CaseListSkipsNothing

LEMMA CaseListBegins == CaseListInit => CaseListInv
<1> USE DEF BrowseRow
<1> SUFFICES ASSUME CaseListInit PROVE CaseListInv
  OBVIOUS
<1>1. browse = [open |-> FALSE, cursor |-> NoCursor, wanted |-> {}, shown |-> <<>>]
  BY DEF CaseListInit, NotOpen
<1>2. <<>> \in Seq(ListItem) /\ DOMAIN <<>> = {}
  OBVIOUS
<1>3. browse \in BrowseRow
  BY <1>1, <1>2
<1> QED
  BY <1>1, <1>2, <1>3, LimitAssumption DEF CaseListInit, CaseListInv, CaseListSkipsNothing

\* The invariant only reads the list, and what is committed only grows.
LEMMA CaseListGrows ==
  ASSUME CaseListInv, browse' = browse, committed \subseteq committed', routed' \subseteq committed',
         begun' \in 0..MaxRank, committed' \subseteq 1..begun'
  PROVE  CaseListInv'
BY DEF CaseListInv, CaseListSkipsNothing

\* What is shown so far, down to the cursor and in order.
ShownDownTo(shown, cursor) ==
  /\ shown \in Seq(ListItem)
  /\ \A i \in DOMAIN shown : shown[i].id >= cursor
  /\ \A i, j \in DOMAIN shown : i < j => shown[i].id > shown[j].id

\* The pages shown are what was shown and one page more.
ShownOn(all, shown, cases, next) ==
  /\ all \in Seq(ListItem)
  /\ \A i, j \in DOMAIN all : i < j => all[i].id > all[j].id
  /\ next # NoCursor => \A i \in DOMAIN all : all[i].id >= next
  /\ \A r : ((\E i \in DOMAIN shown : shown[i].id = r) \/ (\E i \in DOMAIN cases : cases[i].id = r))
             => \E i \in DOMAIN all : all[i].id = r

\* One page more: what was shown is above the cursor, what follows below it.
LEMMA PageAppended ==
  ASSUME committed \subseteq 1..MaxRank, NEW cursor \in 1..MaxRank, NEW shown, NEW cases, NEW next,
         IsPage(cases, next, cursor), ShownDownTo(shown, cursor)
  PROVE  ShownOn(shown \o cases, shown, cases, next)
<1>0. /\ shown \in Seq(ListItem) /\ \A i \in DOMAIN shown : shown[i].id >= cursor
      /\ \A i, j \in DOMAIN shown : i < j => shown[i].id > shown[j].id
  BY DEF ShownDownTo
<1>1. cases \in Seq(ListItem) /\ next \in (1..MaxRank) \cup {NoCursor}
  BY DEF IsPage
<1>2. PICK all : all = shown \o cases
  OBVIOUS
<1>3. PICK n : n = Len(shown)
  OBVIOUS
<1>4. PICK k : k = Len(cases)
  OBVIOUS
<1>5. n \in Nat /\ k \in Nat /\ DOMAIN shown = 1..n /\ DOMAIN cases = 1..k
  BY <1>0, <1>1, <1>3, <1>4, LenProperties
<1>6. /\ all \in Seq(ListItem) /\ DOMAIN all = 1..(n + k)
      /\ \A i \in 1..(n + k) : all[i] = IF i <= n THEN shown[i] ELSE cases[i - n]
  BY <1>0, <1>1, <1>2, <1>3, <1>4, <1>5, ConcatProperties, LenProperties
<1>7. \A i \in 1..n : shown[i].id \in Int /\ shown[i].id >= cursor
  <2>1. \A i \in 1..n : shown[i] \in ListItem
    BY <1>0, <1>5, ElementOfSeq
  <2>2. \A i \in 1..n : shown[i].id \in 1..MaxRank /\ shown[i].id >= cursor
    BY <1>0, <1>5, <2>1 DEF ListItem
  <2> QED
    BY <2>2
<1>8. \A i \in 1..k : cases[i].id \in Int /\ cases[i].id < cursor
  <2>1. \A i \in 1..k : cases[i].id \in After(cursor)
    BY <1>5 DEF IsPage
  <2>2. cursor # NoCursor
    BY LimitAssumption, NoCursorAssumption
  <2>3. \A i \in 1..k : cases[i].id \in 1..MaxRank /\ cases[i].id < cursor
    BY <2>1, <2>2 DEF After
  <2> QED
    BY <2>3
<1>9. ASSUME NEW i \in DOMAIN all, NEW j \in DOMAIN all, i < j PROVE all[i].id > all[j].id
  <2>1. i \in 1..(n + k) /\ j \in 1..(n + k)
    BY <1>6
  <2>2. CASE j <= n
    <3>1. i \in 1..n /\ j \in 1..n /\ all[i] = shown[i] /\ all[j] = shown[j]
      BY <1>5, <1>6, <1>9, <2>1, <2>2
    <3> QED
      BY <1>0, <1>5, <1>9, <3>1
  <2>3. CASE i <= n /\ j > n
    <3>1. i \in 1..n /\ j - n \in 1..k /\ all[i] = shown[i] /\ all[j] = cases[j - n]
      BY <1>5, <1>6, <2>1, <2>3
    <3> QED
      BY <1>7, <1>8, <3>1
  <2>4. CASE i > n
    <3>1. i - n \in 1..k /\ j - n \in 1..k /\ all[i] = cases[i - n] /\ all[j] = cases[j - n] /\ i - n < j - n
      BY <1>5, <1>6, <1>9, <2>1, <2>4
    <3> QED
      BY <1>5, <3>1 DEF IsPage
  <2> QED
    BY <1>5, <1>9, <2>1, <2>2, <2>3, <2>4
<1>10. ASSUME next # NoCursor, NEW i \in DOMAIN all PROVE all[i].id >= next
  <2>1. i \in 1..(n + k)
    BY <1>6
  <2>2. \A j \in 1..k : cases[j].id >= next
    BY <1>5, <1>10 DEF IsPage
  <2>3. CASE i > n
    <3>1. i - n \in 1..k /\ all[i] = cases[i - n]
      BY <1>5, <1>6, <2>1, <2>3
    <3> QED
      BY <2>2, <3>1
  <2>4. CASE i <= n
    <3>1. i \in 1..n /\ all[i] = shown[i] /\ shown[i].id >= cursor
      BY <1>5, <1>6, <1>7, <2>1, <2>4
    <3>2. next < cursor /\ next \in Int
      BY <1>1, <1>10, NoCursorAssumption DEF IsPage, After
    <3> QED
      BY <1>7, <2>4, <3>1, <3>2
  <2> QED
    BY <1>5, <2>1, <2>3, <2>4
<1>11. ASSUME NEW r, (\E i \in DOMAIN shown : shown[i].id = r) \/ (\E i \in DOMAIN cases : cases[i].id = r)
       PROVE  \E i \in DOMAIN all : all[i].id = r
  <2>1. ASSUME NEW i \in 1..n, shown[i].id = r PROVE \E j \in DOMAIN all : all[j].id = r
    BY <1>5, <1>6, <2>1
  <2>2. ASSUME NEW i \in 1..k, cases[i].id = r PROVE \E j \in DOMAIN all : all[j].id = r
    <3>1. n + i \in 1..(n + k) /\ all[n + i] = cases[i]
      BY <1>5, <1>6
    <3> QED
      BY <1>6, <2>2, <3>1
  <2> QED
    BY <1>5, <1>11, <2>1, <2>2
<1> QED
  BY <1>2, <1>6, <1>9, <1>10, <1>11 DEF ShownOn

LEMMA CaseListStep ==
  ASSUME CaseListInv, [CaseListNext]_caseListVars
  PROVE  CaseListInv'
<1> USE LimitAssumption DEF BrowseRow
<1>1. CASE UNCHANGED caseListVars
  BY <1>1, CaseListGrows DEF caseListVars, CaseListInv
<1>2. CASE BeginCase
  <2>1. begun' \in 0..MaxRank /\ committed' \subseteq 1..begun'
    BY <1>2 DEF BeginCase, CaseListInv
  <2> QED
    BY <1>2, <2>1, CaseListGrows DEF BeginCase, CaseListInv
<1>3. ASSUME NEW r \in 1..MaxRank, CommitCase(r) PROVE CaseListInv'
  BY <1>3, CaseListGrows DEF CommitCase, CaseListInv
<1>4. ASSUME NEW r \in 1..MaxRank, RouteListed(r) PROVE CaseListInv'
  BY <1>4, CaseListGrows DEF RouteListed, CaseListInv
<1>5. committed \subseteq 1..MaxRank
  <2>1. \A r \in committed : r \in 1..begun /\ begun \in 0..MaxRank
    BY DEF CaseListInv
  <2> QED
    BY <2>1
<1>6. ASSUME NEW asked \in 0..(MAX_LIMIT + 1), OpenList(asked) PROVE CaseListInv'
  <2>1. PICK cases : cases = ListCases(NoCursor, asked).cases
    OBVIOUS
  <2>2. PICK next : next = ListCases(NoCursor, asked).next
    OBVIOUS
  <2>3. IsPage(cases, next, NoCursor)
    BY <1>5, <2>1, <2>2, PageOfList
  <2>4. /\ browse' = [open |-> TRUE, cursor |-> next, wanted |-> committed, shown |-> cases]
        /\ UNCHANGED <<begun, committed, routed>>
    BY <1>6, <2>1, <2>2 DEF OpenList
  <2>5. browse' \in BrowseRow
    BY <1>5, <2>3, <2>4 DEF IsPage
  <2>6. CaseListSkipsNothing'
    BY <2>3, <2>4 DEF IsPage, After, CaseListSkipsNothing
  <2> QED
    BY <2>3, <2>4, <2>5, <2>6 DEF IsPage, CaseListInv
<1>7. ASSUME NEW asked \in 0..(MAX_LIMIT + 1), FollowCursor(asked) PROVE CaseListInv'
  <2>1. CASE browse.cursor = NoCursor
    <3>1. browse' = NotOpen /\ UNCHANGED <<begun, committed, routed>>
      BY <1>7, <2>1 DEF FollowCursor
    <3>2. <<>> \in Seq(ListItem) /\ DOMAIN <<>> = {}
      OBVIOUS
    <3>3. browse' \in BrowseRow
      BY <3>1, <3>2 DEF NotOpen
    <3> QED
      BY <3>1, <3>2, <3>3 DEF NotOpen, CaseListInv, CaseListSkipsNothing
  <2>2. CASE browse.cursor # NoCursor
    <3>1. PICK cursor : cursor = browse.cursor
      OBVIOUS
    <3>2. PICK shown : shown = browse.shown
      OBVIOUS
    <3>3. PICK cases : cases = ListCases(cursor, asked).cases
      OBVIOUS
    <3>4. PICK next : next = ListCases(cursor, asked).next
      OBVIOUS
    <3>5. IsPage(cases, next, cursor)
      BY <1>5, <3>3, <3>4, PageOfList
    <3>6. cursor \in 1..MaxRank /\ ShownDownTo(shown, cursor)
      BY <2>2, <3>1, <3>2 DEF CaseListInv, CaseListSkipsNothing, ShownDownTo
    <3>7. PICK all : all = shown \o cases
      OBVIOUS
    <3>8. ShownOn(all, shown, cases, next)
      BY <1>5, <3>5, <3>6, <3>7, PageAppended
    <3>9. browse' = [browse EXCEPT !.cursor = next, !.shown = all] /\ UNCHANGED <<begun, committed, routed>>
      BY <1>7, <2>2, <3>1, <3>2, <3>3, <3>4, <3>7 DEF FollowCursor
    <3>10. browse'.cursor = next /\ browse'.shown = all /\ browse'.wanted = browse.wanted
      BY <3>9 DEF CaseListInv
    <3>11. browse' \in BrowseRow
      BY <3>5, <3>8, <3>9 DEF IsPage, CaseListInv, ShownOn
    <3>12. ASSUME NEW r \in browse.wanted
           PROVE  (\E i \in DOMAIN all : all[i].id = r) \/ (next # NoCursor /\ r < next)
      <4>1. r \in committed
        BY DEF CaseListInv
      <4>2. (\E i \in DOMAIN shown : shown[i].id = r) \/ r < cursor
        BY <3>1, <3>2 DEF CaseListInv, CaseListSkipsNothing
      <4>3. CASE r < cursor
        <5>1. r \in After(cursor)
          BY <4>1, <4>3 DEF After
        <5> QED
          BY <3>5, <3>8, <5>1 DEF IsPage, ShownOn
      <4> QED
        BY <3>8, <4>2, <4>3 DEF ShownOn
    <3>13. CaseListSkipsNothing'
      BY <3>8, <3>10, <3>12 DEF CaseListSkipsNothing, ShownOn
    <3> QED
      BY <3>8, <3>9, <3>10, <3>11, <3>13 DEF CaseListInv, ShownOn
  <2> QED
    BY <2>1, <2>2
<1> QED
  BY <1>1, <1>2, <1>3, <1>4, <1>6, <1>7 DEF CaseListNext

\* The list a client pages through leaves out no case of the moment it was opened.
THEOREM CaseListInvariance == CaseListSpec => [](CaseListTypeOK /\ CaseListSkipsNothing)
<1>1. CaseListInv => CaseListTypeOK /\ CaseListSkipsNothing
  BY DEF CaseListInv, CaseListTypeOK, ListItem, BrowseRow
<1> QED
  BY <1>1, CaseListBegins, CaseListStep, PTL DEF CaseListSpec

-----------------------------------------------------------------------------
(* Explanations, read in pieces. *)

TrailEntry == {Move(s) : s \in Lifecycle} \cup {Fact(event) : event \in FactEvent}

\* How far the transition law has carried a case that is in a state.
StageRank ==
  [INTAKE |-> 0, ROUTED |-> 1, ACCEPTED |-> 2, EXECUTING |-> 3, FLAGGED |-> 4, HUMAN_REVIEW |-> 5,
   VERIFIED |-> 6, REJECTED |-> 6, COMPLETED |-> 7, ARCHIVED |-> 8, CANCELLED |-> 9]

\* The move into this state is on the ledger.
Announced(ledger, s) == \E i \in DOMAIN ledger : ledger[i] = Move(s)

\* Its moves go no further than this state.
UpTo(ledger, s) ==
  \A i \in DOMAIN ledger, t \in Lifecycle : ledger[i] = Move(t) => StageRank[t] <= StageRank[s]

\* Each of its moves goes further than those before it.
Rising(ledger) ==
  \A i, j \in DOMAIN ledger, s, t \in Lifecycle :
    i < j /\ ledger[i] = Move(s) /\ ledger[j] = Move(t) => StageRank[s] < StageRank[t]

ExplainRow ==
  [pc: {"none", "resolve", "case", "decisions", "ledger", "answer"}, of: {"case", "lifecycle"},
   viewer: Viewer \cup {{}}, ref: 0..MaxDecided, lifecycle: Lifecycle \cup {Unread},
   ledger: Seq(TrailEntry), decisions: Seq(BOOLEAN)]

CaseIsRead(e) == e.pc \in {"decisions", "ledger", "answer"}

LedgerIsRead(e) == e.pc = "answer" \/ (e.pc = "decisions" /\ e.of = "lifecycle")

\* The move into the lifecycle a call has read is on every ledger it can still read, and on the one
\* it has read, whose moves go no further than the case has gone.
ReadsAgree(e) ==
  /\ CaseIsRead(e) => e.lifecycle \in Lifecycle /\ Announced(trail, e.lifecycle)
  /\ LedgerIsRead(e) => Announced(e.ledger, e.lifecycle) /\ Rising(e.ledger) /\ UpTo(e.ledger, stored)

TrailOK ==
  /\ stored \in Lifecycle
  /\ trail \in Seq(TrailEntry)
  /\ Announced(trail, stored) /\ UpTo(trail, stored) /\ Rising(trail)
  /\ decided \in Seq(BOOLEAN) /\ Len(decided) <= MaxDecided

ExplainInv ==
  /\ TrailOK
  /\ explained \in [ExplainCall -> ExplainRow]
  /\ \A x \in ExplainCall : ReadsAgree(explained[x])

\* Each state has a move of its own, which no other writer's commit looks like.
LEMMA MovesDiffer ==
  /\ "INTAKE" \in Lifecycle
  /\ \A s, t \in Lifecycle : Move(s) = Move(t) => s = t
  /\ \A s, event : Move(s) # Fact(event)
  /\ \A s : Move(s).move /\ Move(s).event = LedgerEvent[s]
  /\ \A event : ~Fact(event).move /\ Fact(event).event = event
<1>1. \A s, t \in Lifecycle : LedgerEvent[s] = LedgerEvent[t] => s = t
  BY DEF Lifecycle, LedgerEvent
<1>2. \A s : Move(s).move /\ Move(s).event = LedgerEvent[s]
  BY DEF Move
<1>3. \A event : ~Fact(event).move /\ Fact(event).event = event
  BY DEF Fact
<1>4. \A s, event : Move(s) # Fact(event)
  BY <1>2, <1>3
<1>5. \A s, t \in Lifecycle : Move(s) = Move(t) => s = t
  BY <1>1, <1>2
<1>6. "INTAKE" \in Lifecycle
  BY DEF Lifecycle
<1> QED
  BY <1>2, <1>3, <1>4, <1>5, <1>6

\* A transition carries the case further.
LEMMA MovesCarryOn ==
  /\ \A s \in Lifecycle : StageRank[s] \in Nat
  /\ \A s, t \in Lifecycle : CanMove(s, t) => StageRank[s] < StageRank[t]
<1>1. \A s \in Lifecycle : StageRank[s] \in Nat
  BY DEF Lifecycle, StageRank
<1>2. ASSUME NEW s \in Lifecycle, NEW t \in Lifecycle, CanMove(s, t) PROVE StageRank[s] < StageRank[t]
  BY <1>2 DEF CanMove, Transitions, Lifecycle, StageRank
<1> QED
  BY <1>1, <1>2

\* The order of the reads: the case comes first.
LEMMA ReadsInOrder ==
  /\ ReadOrder("case")[1] = "case" /\ ReadOrder("lifecycle")[1] = "case"
  /\ ReadAfter("case", "case") = "decisions" /\ ReadAfter("case", "decisions") = "ledger"
  /\ ReadAfter("case", "ledger") = "answer"
  /\ ReadAfter("lifecycle", "case") = "ledger" /\ ReadAfter("lifecycle", "ledger") = "decisions"
  /\ ReadAfter("lifecycle", "decisions") = "answer"
<1>1. ReadOrder("case") = <<"case", "decisions", "ledger">>
  BY DEF ReadOrder
<1>2. ReadOrder("lifecycle") = <<"case", "ledger", "decisions">>
  BY DEF ReadOrder
<1>3. 1..3 = {1, 2, 3}
  OBVIOUS
<1>4. ASSUME NEW of, NEW i \in 1..3, NEW what, \A j \in 1..3 : ReadOrder(of)[j] = what <=> j = i
      PROVE  ReadAfter(of, what) = IF i = 3 THEN "answer" ELSE ReadOrder(of)[i + 1]
  <2>1. PICK place : place = CHOOSE j \in 1..3 : ReadOrder(of)[j] = what
    OBVIOUS
  <2>2. place = i
    BY <1>4, <2>1
  <2>3. ReadAfter(of, what) = IF place = 3 THEN "answer" ELSE ReadOrder(of)[place + 1]
    <3>1. ReadAfter(of, what) =
            IF (CHOOSE j \in 1..3 : ReadOrder(of)[j] = what) = 3 THEN "answer"
            ELSE ReadOrder(of)[(CHOOSE j \in 1..3 : ReadOrder(of)[j] = what) + 1]
      BY DEF ReadAfter
    <3> QED
      BY <2>1, <3>1
  <2> QED
    BY <2>2, <2>3
<1>5. \A i \in 1..3 : i = 1 \/ i = 2 \/ i = 3
  OBVIOUS
<1>6. ReadAfter("case", "case") = ReadOrder("case")[2]
  BY <1>1, <1>4, <1>5
<1>7. ReadAfter("case", "decisions") = ReadOrder("case")[3]
  BY <1>1, <1>4, <1>5
<1>8. ReadAfter("case", "ledger") = "answer"
  BY <1>1, <1>4, <1>5
<1>9. ReadAfter("lifecycle", "case") = ReadOrder("lifecycle")[2]
  BY <1>2, <1>4, <1>5
<1>10. ReadAfter("lifecycle", "ledger") = ReadOrder("lifecycle")[3]
  BY <1>2, <1>4, <1>5
<1>11. ReadAfter("lifecycle", "decisions") = "answer"
  BY <1>2, <1>4, <1>5
<1> QED
  BY <1>1, <1>2, <1>6, <1>7, <1>8, <1>9, <1>10, <1>11

LEMMA NoExplanationShape ==
  NoExplanation \in ExplainRow /\ ~CaseIsRead(NoExplanation) /\ ~LedgerIsRead(NoExplanation)
<1>1. <<>> \in Seq(TrailEntry) /\ <<>> \in Seq(BOOLEAN)
  OBVIOUS
<1> QED
  BY <1>1, ExplainAssumption DEF NoExplanation, ExplainRow, CaseIsRead, LedgerIsRead

LEMMA ExplainBegins == ExplainInit => ExplainInv
<1> SUFFICES ASSUME ExplainInit PROVE ExplainInv
  OBVIOUS
<1>1. trail \in Seq(TrailEntry) /\ Len(trail) = 1 /\ trail[1] = Move("INTAKE") /\ DOMAIN trail = {1}
  <2>1. Move("INTAKE") \in TrailEntry
    BY MovesDiffer DEF TrailEntry
  <2> QED
    BY <2>1 DEF ExplainInit
<1>2. Announced(trail, "INTAKE") /\ UpTo(trail, "INTAKE") /\ Rising(trail)
  <2>1. \A t \in Lifecycle : Move("INTAKE") = Move(t) => t = "INTAKE"
    BY MovesDiffer
  <2>2. StageRank["INTAKE"] \in Nat
    BY MovesDiffer, MovesCarryOn
  <2>3. UpTo(trail, "INTAKE")
    BY <1>1, <2>1, <2>2 DEF UpTo
  <2> QED
    BY <1>1, <2>3 DEF Announced, Rising
<1>3. <<>> \in Seq(BOOLEAN) /\ Len(<<>>) = 0
  OBVIOUS
<1>4. TrailOK
  BY <1>1, <1>2, <1>3, MovesDiffer, ExplainAssumption DEF ExplainInit, TrailOK
<1>5. explained \in [ExplainCall -> ExplainRow] /\ \A x \in ExplainCall : explained[x] = NoExplanation
  BY NoExplanationShape DEF ExplainInit
<1>6. \A x \in ExplainCall : ReadsAgree(explained[x])
  BY <1>5, NoExplanationShape DEF ReadsAgree
<1> QED
  BY <1>4, <1>5, <1>6 DEF ExplainInv

\* A ledger with one entry more.
IsInsertion(longer, entries, place, entry) ==
  /\ longer \in Seq(TrailEntry) /\ DOMAIN longer = 1..(Len(entries) + 1)
  /\ longer[place] = entry
  /\ \A i \in 1..Len(entries) :
       (i < place => longer[i] = entries[i]) /\ (i >= place => longer[i + 1] = entries[i])
  /\ \A i \in 1..(Len(entries) + 1) :
       /\ i < place => i \in 1..Len(entries) /\ longer[i] = entries[i]
       /\ i > place => i - 1 \in 1..Len(entries) /\ longer[i] = entries[i - 1]

LEMMA Insertion ==
  ASSUME NEW entries \in Seq(TrailEntry), NEW entry \in TrailEntry, NEW place \in 1..(Len(entries) + 1)
  PROVE  IsInsertion(InsertAt(entries, place, entry), entries, place, entry)
<1>1. PICK n : n = Len(entries)
  OBVIOUS
<1>2. n \in Nat /\ place \in 1..(n + 1) /\ \A i \in 1..n : entries[i] \in TrailEntry
  BY <1>1, LenProperties, ElementOfSeq
<1>3. PICK left : left = SubSeq(entries, 1, place - 1)
  OBVIOUS
<1>4. PICK right : right = SubSeq(entries, place, n)
  OBVIOUS
<1>5. /\ left \in Seq(TrailEntry) /\ Len(left) = place - 1
      /\ \A i \in 1..(place - 1) : left[i] = entries[i]
  BY <1>1, <1>2, <1>3
<1>6. /\ right \in Seq(TrailEntry) /\ Len(right) = n - place + 1
      /\ \A i \in 1..(n - place + 1) : right[i] = entries[place + i - 1]
  BY <1>1, <1>2, <1>4
<1>7. PICK longer : longer = left \o <<entry>> \o right
  OBVIOUS
<1>8. /\ longer \in Seq(TrailEntry) /\ Len(longer) = n + 1
      /\ \A i \in 1..(n + 1) : longer[i] = IF i < place THEN left[i]
                                            ELSE IF i = place THEN entry ELSE right[i - place]
  BY <1>2, <1>5, <1>6, <1>7
<1>9. longer = InsertAt(entries, place, entry)
  BY <1>1, <1>3, <1>4, <1>7 DEF InsertAt
<1>10. longer \in Seq(TrailEntry) /\ DOMAIN longer = 1..(n + 1) /\ longer[place] = entry
  BY <1>2, <1>8
<1>11. ASSUME NEW i \in 1..(n + 1), i < place PROVE i \in 1..n /\ longer[i] = entries[i]
  BY <1>2, <1>5, <1>8, <1>11
<1>12. ASSUME NEW i \in 1..(n + 1), i > place PROVE i - 1 \in 1..n /\ longer[i] = entries[i - 1]
  <2>1. i - 1 \in 1..n /\ i - place \in 1..(n - place + 1) /\ place + (i - place) - 1 = i - 1
    BY <1>2, <1>12
  <2>2. longer[i] = right[i - place]
    BY <1>2, <1>8, <1>12
  <2> QED
    BY <1>6, <2>1, <2>2
<1>13. ASSUME NEW i \in 1..n, i < place PROVE longer[i] = entries[i]
  <2>1. i \in 1..(n + 1)
    BY <1>2
  <2> QED
    BY <1>11, <1>13, <2>1
<1>14. ASSUME NEW i \in 1..n, i >= place PROVE longer[i + 1] = entries[i]
  <2>1. i + 1 \in 1..(n + 1) /\ i + 1 > place /\ (i + 1) - 1 = i
    BY <1>2, <1>14
  <2> QED
    BY <1>12, <2>1
<1> QED
  BY <1>1, <1>9, <1>10, <1>11, <1>12, <1>13, <1>14 DEF IsInsertion

\* What was announced stays announced.
LEMMA StaysAnnounced ==
  ASSUME NEW ledger \in Seq(TrailEntry), NEW entry \in TrailEntry, NEW place \in 1..(Len(ledger) + 1), NEW s,
         Announced(ledger, s)
  PROVE  Announced(InsertAt(ledger, place, entry), s)
<1>1. PICK longer : longer = InsertAt(ledger, place, entry)
  OBVIOUS
<1>2. PICK n : n = Len(ledger)
  OBVIOUS
<1>3. /\ n \in Nat /\ DOMAIN ledger = 1..n /\ DOMAIN longer = 1..(n + 1) /\ place \in 1..(n + 1)
      /\ \A i \in 1..n : (i < place => longer[i] = ledger[i]) /\ (i >= place => longer[i + 1] = ledger[i])
  <2>1. IsInsertion(longer, ledger, place, entry)
    BY <1>1, Insertion
  <2> QED
    BY <1>2, <2>1, LenProperties DEF IsInsertion
<1>4. PICK i \in 1..n : ledger[i] = Move(s)
  BY <1>3 DEF Announced
<1>5. i \in 1..(n + 1) /\ i + 1 \in 1..(n + 1) /\ (i < place \/ i >= place)
  BY <1>3
<1>6. longer[i] = Move(s) \/ longer[i + 1] = Move(s)
  BY <1>3, <1>4, <1>5
<1> QED
  BY <1>1, <1>3, <1>5, <1>6 DEF Announced

\* Another writer's commit changes nothing about the moves.
LEMMA FactInserted ==
  ASSUME NEW ledger \in Seq(TrailEntry), NEW event \in FactEvent, NEW place \in 1..(Len(ledger) + 1),
         NEW s, UpTo(ledger, s), Rising(ledger)
  PROVE  UpTo(InsertAt(ledger, place, Fact(event)), s) /\ Rising(InsertAt(ledger, place, Fact(event)))
<1>1. PICK longer : longer = InsertAt(ledger, place, Fact(event))
  OBVIOUS
<1>2. PICK n : n = Len(ledger)
  OBVIOUS
<1>3. Fact(event) \in TrailEntry
  BY DEF TrailEntry
<1>4. /\ n \in Nat /\ DOMAIN ledger = 1..n /\ DOMAIN longer = 1..(n + 1) /\ place \in 1..(n + 1)
      /\ longer[place] = Fact(event)
      /\ \A i \in 1..(n + 1) :
           /\ i < place => i \in 1..n /\ longer[i] = ledger[i]
           /\ i > place => i - 1 \in 1..n /\ longer[i] = ledger[i - 1]
  <2>1. n \in Nat /\ DOMAIN ledger = 1..n /\ place \in 1..(n + 1)
    BY <1>2, LenProperties
  <2>2. IsInsertion(longer, ledger, place, Fact(event))
    BY <1>1, <1>3, Insertion
  <2> QED
    BY <1>2, <2>1, <2>2 DEF IsInsertion
<1>5. ASSUME NEW i \in 1..(n + 1), NEW t, longer[i] = Move(t)
      PROVE  /\ i # place
             /\ IF i < place THEN i \in 1..n /\ ledger[i] = Move(t)
                             ELSE i - 1 \in 1..n /\ ledger[i - 1] = Move(t)
  <2>1. i # place
    BY <1>4, <1>5, MovesDiffer
  <2>2. i < place \/ i > place
    BY <1>4, <2>1
  <2> QED
    BY <1>4, <1>5, <2>1, <2>2
<1>6. UpTo(longer, s)
  <2> SUFFICES ASSUME NEW i \in 1..(n + 1), NEW t \in Lifecycle, longer[i] = Move(t)
               PROVE  StageRank[t] <= StageRank[s]
    BY <1>4 DEF UpTo
  <2> QED
    BY <1>4, <1>5 DEF UpTo
<1>7. Rising(longer)
  <2> SUFFICES ASSUME NEW i \in 1..(n + 1), NEW j \in 1..(n + 1), NEW a \in Lifecycle, NEW t \in Lifecycle,
                      i < j, longer[i] = Move(a), longer[j] = Move(t)
               PROVE  StageRank[a] < StageRank[t]
    BY <1>4 DEF Rising
  <2>1. PICK k : k = IF i < place THEN i ELSE i - 1
    OBVIOUS
  <2>2. PICK m : m = IF j < place THEN j ELSE j - 1
    OBVIOUS
  <2>3. /\ k \in 1..n /\ ledger[k] = Move(a) /\ m \in 1..n /\ ledger[m] = Move(t)
        /\ i # place /\ j # place
    BY <1>5, <2>1, <2>2
  <2>4. k < m
    BY <1>4, <2>1, <2>2, <2>3
  <2> QED
    BY <1>4, <2>3, <2>4 DEF Rising
<1> QED
  BY <1>1, <1>6, <1>7

\* A move comes after the others and goes further.
LEMMA MoveInserted ==
  ASSUME NEW ledger \in Seq(TrailEntry), NEW place \in 1..(Len(ledger) + 1),
         NEW s \in Lifecycle, NEW to \in Lifecycle, StageRank[s] < StageRank[to],
         \A i \in DOMAIN ledger : ledger[i].move => i < place, UpTo(ledger, s), Rising(ledger)
  PROVE  /\ Announced(InsertAt(ledger, place, Move(to)), to)
         /\ UpTo(InsertAt(ledger, place, Move(to)), to)
         /\ Rising(InsertAt(ledger, place, Move(to)))
<1>1. PICK longer : longer = InsertAt(ledger, place, Move(to))
  OBVIOUS
<1>2. PICK n : n = Len(ledger)
  OBVIOUS
<1>3. Move(to) \in TrailEntry
  BY DEF TrailEntry
<1>4. /\ n \in Nat /\ DOMAIN ledger = 1..n /\ DOMAIN longer = 1..(n + 1) /\ place \in 1..(n + 1)
      /\ longer[place] = Move(to)
      /\ \A i \in 1..(n + 1) :
           /\ i < place => i \in 1..n /\ longer[i] = ledger[i]
           /\ i > place => i - 1 \in 1..n /\ longer[i] = ledger[i - 1]
  <2>1. n \in Nat /\ DOMAIN ledger = 1..n /\ place \in 1..(n + 1)
    BY <1>2, LenProperties
  <2>2. IsInsertion(longer, ledger, place, Move(to))
    BY <1>1, <1>3, Insertion
  <2> QED
    BY <1>2, <2>1, <2>2 DEF IsInsertion
<1>5. ASSUME NEW i \in 1..(n + 1), NEW t \in Lifecycle, longer[i] = Move(t)
      PROVE  \/ i = place /\ t = to
             \/ i < place /\ i \in 1..n /\ ledger[i] = Move(t)
  <2>1. CASE i = place
    BY <1>4, <1>5, <2>1, MovesDiffer
  <2>2. CASE i < place
    BY <1>4, <1>5, <2>2
  <2>3. CASE i > place
    <3>1. i - 1 \in 1..n /\ ledger[i - 1] = Move(t)
      BY <1>4, <1>5, <2>3
    <3>2. ledger[i - 1].move
      BY <3>1, MovesDiffer
    <3>3. i - 1 < place
      BY <1>4, <3>1, <3>2
    <3> QED
      BY <1>4, <2>3, <3>3
  <2> QED
    BY <1>4, <2>1, <2>2, <2>3
<1>6. \A t \in Lifecycle : StageRank[t] \in Nat
  BY MovesCarryOn
<1>7. UpTo(longer, to)
  <2> SUFFICES ASSUME NEW i \in 1..(n + 1), NEW t \in Lifecycle, longer[i] = Move(t)
               PROVE  StageRank[t] <= StageRank[to]
    BY <1>4 DEF UpTo
  <2>1. CASE t = to
    BY <1>6, <2>1
  <2>2. CASE i \in 1..n /\ ledger[i] = Move(t)
    <3>1. StageRank[t] <= StageRank[s]
      BY <1>4, <2>2 DEF UpTo
    <3> QED
      BY <1>6, <3>1
  <2> QED
    BY <1>5, <2>1, <2>2
<1>8. Rising(longer)
  <2> SUFFICES ASSUME NEW i \in 1..(n + 1), NEW j \in 1..(n + 1), NEW a \in Lifecycle, NEW t \in Lifecycle,
                      i < j, longer[i] = Move(a), longer[j] = Move(t)
               PROVE  StageRank[a] < StageRank[t]
    BY <1>4 DEF Rising
  <2>1. i < place /\ i \in 1..n /\ ledger[i] = Move(a)
    BY <1>4, <1>5
  <2>2. CASE j = place /\ t = to
    <3>1. StageRank[a] <= StageRank[s]
      BY <1>4, <2>1 DEF UpTo
    <3> QED
      BY <1>6, <2>2, <3>1
  <2>3. CASE j \in 1..n /\ ledger[j] = Move(t)
    BY <1>4, <2>1, <2>3 DEF Rising
  <2> QED
    BY <1>5, <2>2, <2>3
<1>9. Announced(longer, to)
  BY <1>4 DEF Announced
<1> QED
  BY <1>1, <1>7, <1>8, <1>9

\* A writer touches no call, and the calls' facts survive its commit.
LEMMA WriterKeeps ==
  ASSUME ExplainInv, TrailOK', UNCHANGED explained, StageRank[stored] <= StageRank[stored'],
         \A s \in Lifecycle : Announced(trail, s) => Announced(trail', s)
  PROVE  ExplainInv'
<1>1. ASSUME NEW x \in ExplainCall PROVE ReadsAgree(explained[x])'
  <2>1. ReadsAgree(explained[x]) /\ explained'[x] = explained[x]
    BY DEF ExplainInv
  <2>2. UpTo(explained[x].ledger, stored) => UpTo(explained[x].ledger, stored')
    <3> SUFFICES ASSUME UpTo(explained[x].ledger, stored), NEW i \in DOMAIN explained[x].ledger,
                        NEW t \in Lifecycle, explained[x].ledger[i] = Move(t)
                 PROVE  StageRank[t] <= StageRank[stored']
      BY DEF UpTo
    <3>1. StageRank[t] \in Nat /\ StageRank[stored] \in Nat /\ StageRank[stored'] \in Nat
      BY MovesCarryOn DEF ExplainInv, TrailOK
    <3>2. StageRank[t] <= StageRank[stored]
      BY DEF UpTo
    <3> QED
      BY <3>1, <3>2
  <2> QED
    BY <2>1, <2>2 DEF ReadsAgree, CaseIsRead, LedgerIsRead, Announced, Rising, UpTo
<1> QED
  BY <1>1 DEF ExplainInv

\* A call is written when its new row agrees.
LEMMA CallKeeps ==
  ASSUME ExplainInv, UNCHANGED <<stored, trail, decided>>, NEW x \in ExplainCall, NEW row \in ExplainRow,
         ReadsAgree(row), explained' = [explained EXCEPT ![x] = row]
  PROVE  ExplainInv'
<1>1. explained' \in [ExplainCall -> ExplainRow]
  BY DEF ExplainInv
<1>2. \A y \in ExplainCall : explained'[y] = IF y = x THEN row ELSE explained[y]
  BY DEF ExplainInv
<1>3. \A y \in ExplainCall : ReadsAgree(explained'[y])
  BY <1>2 DEF ExplainInv
<1>4. \A y \in ExplainCall : ReadsAgree(explained[y])'
  BY <1>3 DEF ReadsAgree, Announced, Rising, UpTo
<1> QED
  BY <1>1, <1>4 DEF ExplainInv, TrailOK, Announced, Rising, UpTo

LEMMA WritersStep ==
  ASSUME ExplainInv,
         \/ \E place \in 2..MaxTrail :
              /\ place <= Len(trail) + 1
              /\ \/ \E to \in Lifecycle : MoveExplained(to, place)
                 \/ \E event \in FactEvent : FactExplained(event, place)
         \/ \E unseen \in 0..1 : DecideExplained(unseen)
  PROVE  ExplainInv'
<1>1. TrailOK /\ Len(trail) \in Nat
  BY LenProperties DEF ExplainInv, TrailOK
<1>2. ASSUME NEW place \in 2..MaxTrail, place <= Len(trail) + 1, NEW to \in Lifecycle, MoveExplained(to, place)
      PROVE  ExplainInv'
  <2>1. /\ stored' = to /\ trail' = InsertAt(trail, place, Move(to)) /\ UNCHANGED <<decided, explained>>
        /\ CanMove(stored, to) /\ \A i \in DOMAIN trail : trail[i].move => i < place
    BY <1>2 DEF MoveExplained, Appears
  <2>2. /\ Move(to) \in TrailEntry /\ place \in 1..(Len(trail) + 1)
        /\ stored \in Lifecycle /\ trail \in Seq(TrailEntry) /\ UpTo(trail, stored) /\ Rising(trail)
    BY <1>1, <1>2, ExplainAssumption DEF TrailEntry, TrailOK
  <2>3. StageRank[stored] < StageRank[to] /\ StageRank[stored] \in Nat /\ StageRank[to] \in Nat
    BY <2>1, <2>2, MovesCarryOn
  <2>4. trail' \in Seq(TrailEntry)
    BY <2>1, <2>2, Insertion DEF IsInsertion
  <2>5. Announced(trail', to) /\ UpTo(trail', to) /\ Rising(trail')
    BY <2>1, <2>2, <2>3, MoveInserted
  <2>6. \A s \in Lifecycle : Announced(trail, s) => Announced(trail', s)
    BY <2>1, <2>2, StaysAnnounced
  <2>7. TrailOK'
    BY <1>1, <2>1, <2>4, <2>5 DEF TrailOK, Announced, UpTo, Rising
  <2>8. StageRank[stored] <= StageRank[stored']
    BY <2>1, <2>3
  <2> QED
    BY <2>1, <2>6, <2>7, <2>8, WriterKeeps
<1>3. ASSUME NEW place \in 2..MaxTrail, place <= Len(trail) + 1, NEW event \in FactEvent,
             FactExplained(event, place)
      PROVE  ExplainInv'
  <2>1. trail' = InsertAt(trail, place, Fact(event)) /\ UNCHANGED <<stored, decided, explained>>
    BY <1>3 DEF FactExplained, Appears
  <2>2. /\ Fact(event) \in TrailEntry /\ place \in 1..(Len(trail) + 1)
        /\ stored \in Lifecycle /\ trail \in Seq(TrailEntry)
        /\ Announced(trail, stored) /\ UpTo(trail, stored) /\ Rising(trail)
    BY <1>1, <1>3, ExplainAssumption DEF TrailEntry, TrailOK
  <2>3. trail' \in Seq(TrailEntry)
    BY <2>1, <2>2, Insertion DEF IsInsertion
  <2>4. UpTo(trail', stored) /\ Rising(trail')
    BY <2>1, <2>2, FactInserted
  <2>5. \A s \in Lifecycle : Announced(trail, s) => Announced(trail', s)
    BY <2>1, <2>2, StaysAnnounced
  <2>6. TrailOK'
    BY <1>1, <2>1, <2>2, <2>3, <2>4, <2>5 DEF TrailOK, Announced, UpTo, Rising
  <2>7. StageRank[stored] <= StageRank[stored']
    BY <2>1, <2>2, MovesCarryOn
  <2> QED
    BY <2>1, <2>5, <2>6, <2>7, WriterKeeps
<1>4. ASSUME NEW unseen \in 0..1, DecideExplained(unseen) PROVE ExplainInv'
  <2>1. PICK kept : kept = [i \in DOMAIN decided |-> decided[i] /\ i > Len(decided) - unseen]
    OBVIOUS
  <2>2. PICK n : n = Len(decided)
    OBVIOUS
  <2>3. n \in Nat /\ n < MaxDecided /\ DOMAIN decided = 1..n
    BY <1>1, <1>4, <2>2, LenProperties DEF TrailOK, DecideExplained
  <2>4. kept \in Seq(BOOLEAN) /\ Len(kept) = n
    <3>1. \A i \in 1..n : (decided[i] /\ i > Len(decided) - unseen) \in BOOLEAN
      OBVIOUS
    <3>2. kept \in [1..n -> BOOLEAN]
      BY <2>1, <2>3, <3>1
    <3> QED
      BY <2>3, <3>2, LenProperties
  <2>5. decided' = Append(kept, TRUE) /\ UNCHANGED <<stored, trail, explained>>
    BY <1>4, <2>1 DEF DecideExplained
  <2>6. decided' \in Seq(BOOLEAN) /\ Len(decided') = n + 1
    <3>1. TRUE \in BOOLEAN
      OBVIOUS
    <3> QED
      BY <2>4, <2>5, <3>1, AppendProperties
  <2>7. TrailOK'
    BY <1>1, <2>3, <2>5, <2>6, ExplainAssumption DEF TrailOK, Announced, UpTo, Rising
  <2>8. StageRank[stored] <= StageRank[stored'] /\ \A s \in Lifecycle : Announced(trail, s) => Announced(trail', s)
    BY <1>1, <2>5, MovesCarryOn DEF TrailOK
  <2> QED
    BY <2>5, <2>7, <2>8, WriterKeeps
<1> QED
  BY <1>2, <1>3, <1>4

LEMMA ReadersStep ==
  ASSUME ExplainInv, NEW x \in ExplainCall,
         \/ \E viewer \in Viewer, ref \in 0..MaxDecided : AskExplanation(x, "case", viewer, ref)
         \/ AskExplanation(x, "lifecycle", {}, 0)
         \/ ResolveRef(x)
         \/ \E what \in {"case", "decisions", "ledger"} : ReadPart(x, what)
         \/ AnswerExplanation(x)
  PROVE  ExplainInv'
<1>1. PICK e : e = explained[x]
  OBVIOUS
<1>2. e \in ExplainRow /\ ReadsAgree(e) /\ TrailOK
  BY <1>1 DEF ExplainInv
<1>3. ReadsAgree(NoExplanation)
  BY NoExplanationShape DEF ReadsAgree
<1>4. ASSUME NEW of \in {"case", "lifecycle"}, NEW viewer \in Viewer \cup {{}}, NEW ref \in 0..MaxDecided,
             AskExplanation(x, of, viewer, ref)
      PROVE  ExplainInv'
  <2>1. PICK row : row = [NoExplanation EXCEPT !.pc = IF of = "case" THEN "resolve" ELSE ReadOrder(of)[1],
                                               !.of = of, !.viewer = viewer, !.ref = ref]
    OBVIOUS
  <2>2. row \in ExplainRow /\ row.pc \in {"resolve", "case"}
    BY <1>4, <2>1, NoExplanationShape, ReadsInOrder DEF ExplainRow
  <2>3. ReadsAgree(row)
    BY <2>2 DEF ReadsAgree, CaseIsRead, LedgerIsRead
  <2>4. explained' = [explained EXCEPT ![x] = row] /\ UNCHANGED <<stored, trail, decided>>
    BY <1>4, <2>1, Zenon DEF AskExplanation
  <2> QED
    BY <2>2, <2>3, <2>4, CallKeeps
<1>5. CASE ResolveRef(x)
  <2>1. PICK row : row = [e EXCEPT !.pc = "case"]
    OBVIOUS
  <2>2. row \in ExplainRow /\ row.pc = "case"
    BY <1>2, <2>1 DEF ExplainRow
  <2>3. ReadsAgree(row)
    BY <2>2 DEF ReadsAgree, CaseIsRead, LedgerIsRead
  <2>4. /\ UNCHANGED <<stored, trail, decided>>
        /\ \/ explained' = [explained EXCEPT ![x] = row]
           \/ explained' = [explained EXCEPT ![x] = NoExplanation]
    BY <1>1, <1>5, <2>1, ReadsInOrder DEF ResolveRef
  <2> QED
    BY <1>3, <2>2, <2>3, <2>4, CallKeeps, NoExplanationShape
<1>6. ASSUME NEW what \in {"case", "decisions", "ledger"}, ReadPart(x, what) PROVE ExplainInv'
  <2>1. PICK row : row = [e EXCEPT !.pc = ReadAfter(e.of, what),
                                   !.lifecycle = IF what = "case" THEN stored ELSE @,
                                   !.ledger = IF what = "ledger" THEN trail ELSE @,
                                   !.decisions = IF what = "decisions" THEN decided ELSE @]
    OBVIOUS
  <2>2. /\ explained' = [explained EXCEPT ![x] = row] /\ UNCHANGED <<stored, trail, decided>>
        /\ e.pc = what
    BY <1>1, <1>6, <2>1 DEF ReadPart
  <2>3. e.of \in {"case", "lifecycle"} /\ e.lifecycle \in Lifecycle \cup {Unread}
        /\ e.ledger \in Seq(TrailEntry) /\ e.decisions \in Seq(BOOLEAN)
    BY <1>2 DEF ExplainRow
  <2>4. /\ row.pc = ReadAfter(e.of, what) /\ row.of = e.of
        /\ row.lifecycle = IF what = "case" THEN stored ELSE e.lifecycle
        /\ row.ledger = IF what = "ledger" THEN trail ELSE e.ledger
        /\ row.decisions = IF what = "decisions" THEN decided ELSE e.decisions
    BY <1>2, <2>1 DEF ExplainRow
  <2>5. row.pc \in {"decisions", "ledger", "answer"}
    BY <2>3, <2>4, ReadsInOrder
  <2>6. row \in ExplainRow
    <3>1. /\ row.lifecycle \in Lifecycle \cup {Unread}
          /\ row.ledger \in Seq(TrailEntry) /\ row.decisions \in Seq(BOOLEAN)
      BY <1>2, <2>3, <2>4 DEF TrailOK
    <3> QED
      BY <1>2, <2>1, <2>5, <3>1 DEF ExplainRow
  <2>7. ReadsAgree(row)
    <3>1. CASE what = "case"
      <4>1. row.lifecycle \in Lifecycle /\ Announced(trail, row.lifecycle)
        BY <1>2, <2>4, <3>1 DEF TrailOK
      <4>2. ~LedgerIsRead(row)
        BY <2>3, <2>4, <3>1, ReadsInOrder DEF LedgerIsRead
      <4> QED
        BY <4>1, <4>2 DEF ReadsAgree
    <3>2. CASE what = "ledger"
      <4>1. e.lifecycle \in Lifecycle /\ Announced(trail, e.lifecycle)
        BY <1>2, <2>2, <3>2 DEF ReadsAgree, CaseIsRead
      <4>2. Rising(trail) /\ UpTo(trail, stored)
        BY <1>2 DEF TrailOK
      <4> QED
        BY <2>4, <3>2, <4>1, <4>2 DEF ReadsAgree
    <3>3. CASE what = "decisions"
      <4>1. e.lifecycle \in Lifecycle /\ Announced(trail, e.lifecycle)
        BY <1>2, <2>2, <3>3 DEF ReadsAgree, CaseIsRead
      <4>2. CASE e.of = "case"
        <5>1. ~LedgerIsRead(row)
          BY <2>4, <3>3, <4>2, ReadsInOrder DEF LedgerIsRead
        <5> QED
          BY <2>4, <3>3, <4>1, <5>1 DEF ReadsAgree
      <4>3. CASE e.of = "lifecycle"
        <5>1. Announced(e.ledger, e.lifecycle) /\ Rising(e.ledger) /\ UpTo(e.ledger, stored)
          BY <1>2, <2>2, <3>3, <4>3 DEF ReadsAgree, LedgerIsRead
        <5> QED
          BY <2>4, <3>3, <4>1, <5>1 DEF ReadsAgree
      <4> QED
        BY <2>3, <4>2, <4>3
    <3> QED
      BY <3>1, <3>2, <3>3
  <2> QED
    BY <2>2, <2>6, <2>7, CallKeeps
<1>7. CASE AnswerExplanation(x)
  BY <1>3, <1>7, CallKeeps, NoExplanationShape DEF AnswerExplanation
<1>8. 0 \in 0..MaxDecided
  BY ExplainAssumption
<1> QED
  BY <1>4, <1>5, <1>6, <1>7, <1>8

LEMMA ExplainStep == ExplainInv /\ [ExplainNext]_explainVars => ExplainInv'
<1> SUFFICES ASSUME ExplainInv, [ExplainNext]_explainVars PROVE ExplainInv'
  OBVIOUS
<1>1. CASE UNCHANGED explainVars
  BY <1>1 DEF explainVars, ExplainInv, TrailOK, ReadsAgree, Announced, Rising, UpTo
<1>2. CASE ExplainNext
  BY <1>2, WritersStep, ReadersStep DEF ExplainNext
<1> QED
  BY <1>1, <1>2

\* Where the moves shown go no further than the lifecycle shown, what replays to another state is
\* another writer's commit after the move.
LEMMA DriftIsOverwritten ==
  ASSUME NEW ledger \in Seq(TrailEntry), NEW s \in Lifecycle, Announced(ledger, s), UpTo(ledger, s),
         Rising(ledger), s \notin NotReplayed,
         deriveLifecycleFromLedger([i \in DOMAIN ledger |-> ledger[i].event]) # s
  PROVE  Overwritten(ledger, s)
<1>1. PICK n : n = Len(ledger)
  OBVIOUS
<1>2. n \in Nat /\ DOMAIN ledger = 1..n /\ \A i \in 1..n : ledger[i] \in TrailEntry
  BY <1>1, LenProperties, ElementOfSeq
<1>3. PICK events : events = [i \in 1..n |-> ledger[i].event]
  OBVIOUS
<1>4. PICK k \in 1..n : ledger[k] = Move(s)
  BY <1>2 DEF Announced
<1>5. events[k] = LedgerEvent[s] /\ LedgerEvent[s] \in DOMAIN ReplayEffect /\ ReplayEffect[LedgerEvent[s]] = s
  BY <1>3, <1>4, MovesDiffer DEF NotReplayed
<1>6. PICK E : E = Effective(events, 1..n)
  OBVIOUS
<1>7. k \in E /\ E \subseteq Nat /\ E # {} /\ \A i \in E : i \in 1..n /\ i <= n /\ events[i] \in DOMAIN ReplayEffect
  BY <1>2, <1>5, <1>6 DEF Effective
<1>8. Max(E) \in E /\ \A i \in E : i <= Max(E)
  BY <1>2, <1>7, GreatestNumber
<1>9. PICK m : m = Max(E)
  OBVIOUS
<1>10. ReplayEffect[events[m]] # s
  <2>1. deriveLifecycleFromLedger(events) = ByLast(events, 1..n)
    <3>1. DOMAIN events = 1..n
      BY <1>3
    <3> QED
      BY <3>1, ReplayByLastEffect
  <2>2. deriveLifecycleFromLedger(events) # s
    BY <1>2, <1>3
  <2> QED
    BY <1>6, <1>7, <1>9, <2>1, <2>2 DEF ByLast
<1>11. m \in 1..n /\ k < m
  <2>1. m \in 1..n /\ k <= m /\ k \in 1..n
    BY <1>7, <1>8, <1>9
  <2>2. m # k
    BY <1>5, <1>10
  <2> QED
    BY <2>1, <2>2
<1>12. \A t \in Lifecycle : ledger[m] # Move(t)
  <2> SUFFICES ASSUME NEW t \in Lifecycle, ledger[m] = Move(t) PROVE FALSE
    OBVIOUS
  <2>1. StageRank[s] < StageRank[t] /\ StageRank[t] <= StageRank[s]
    BY <1>2, <1>4, <1>11 DEF Rising, UpTo
  <2> QED
    BY <2>1, MovesCarryOn
<1>13. ~ledger[m].move
  BY <1>2, <1>11, <1>12, MovesDiffer DEF TrailEntry
<1>14. ledger[m].event \in DOMAIN ReplayEffect /\ ReplayEffect[ledger[m].event] # s
  BY <1>3, <1>7, <1>8, <1>9, <1>10, <1>11
<1> QED
  BY <1>2, <1>4, <1>11, <1>13, <1>14 DEF Overwritten

\* The cause that is named is a decision that stands.
LEMMA CauseStands ==
  ASSUME NEW rows \in Seq(BOOLEAN), CausedBy(rows) # 0
  PROVE  CausedBy(rows) \in Active(rows) /\ rows[CausedBy(rows)]
<1>1. PICK A : A = Active(rows)
  OBVIOUS
<1>2. PICK n : n = Len(rows)
  OBVIOUS
<1>3. n \in Nat /\ DOMAIN rows = 1..n
  BY <1>2, LenProperties
<1>4. A # {}
  BY <1>1 DEF CausedBy
<1>5. \A i \in A : i \in 1..n
  BY <1>1, <1>3 DEF Active
<1>6. \E i \in A : \A j \in A : j <= i
  <2>1. A \subseteq Nat /\ \A i \in A : i <= n
    BY <1>3, <1>5
  <2> QED
    BY <1>3, <1>4, <2>1, GreatestNumber
<1>7. CausedBy(rows) = CHOOSE i \in A : \A j \in A : j <= i
  BY <1>1, <1>4 DEF CausedBy
<1>8. CausedBy(rows) \in A
  BY <1>6, <1>7
<1> QED
  BY <1>1, <1>8 DEF Active

LEMMA ExplanationsFollow == ExplainInv => ExplanationHoldsTogether
<1> SUFFICES ASSUME ExplainInv PROVE ExplanationHoldsTogether
  OBVIOUS
<1>1. ASSUME NEW of, NEW x \in Answered(of)
      PROVE  /\ x \in ExplainCall /\ explained[x] \in ExplainRow
             /\ explained[x].lifecycle \in Lifecycle
             /\ Announced(explained[x].ledger, explained[x].lifecycle)
             /\ Rising(explained[x].ledger) /\ UpTo(explained[x].ledger, stored)
  <2>1. x \in ExplainCall /\ explained[x].pc = "answer"
    BY <1>1 DEF Answered
  <2> QED
    BY <2>1 DEF ExplainInv, ReadsAgree, CaseIsRead, LedgerIsRead
<1>2. ASSUME NEW x \in Answered("case") \cup Answered("lifecycle")
      PROVE  \E i \in DOMAIN explained[x].ledger : explained[x].ledger[i] = Move(explained[x].lifecycle)
  BY <1>1 DEF Announced
<1>3. ASSUME NEW x \in Answered("lifecycle"), LifecycleAnswer(explained[x]).drift
      PROVE  \/ explained[x].lifecycle \in NotReplayed
             \/ explained[x].lifecycle # stored
             \/ Overwritten(explained[x].ledger, explained[x].lifecycle)
  <2> SUFFICES ASSUME explained[x].lifecycle \notin NotReplayed, explained[x].lifecycle = stored
               PROVE  Overwritten(explained[x].ledger, explained[x].lifecycle)
    OBVIOUS
  <2>1. /\ explained[x].ledger \in Seq(TrailEntry) /\ explained[x].lifecycle \in Lifecycle
        /\ Announced(explained[x].ledger, explained[x].lifecycle)
        /\ Rising(explained[x].ledger) /\ UpTo(explained[x].ledger, explained[x].lifecycle)
    BY <1>1 DEF ExplainRow
  <2>2. deriveLifecycleFromLedger([i \in DOMAIN explained[x].ledger |-> explained[x].ledger[i].event])
          # explained[x].lifecycle
    BY <1>3 DEF LifecycleAnswer
  <2> QED
    BY <2>1, <2>2, DriftIsOverwritten
<1>4. ASSUME NEW x \in Answered("case"), NEW restricted \in BOOLEAN,
             ~CaseAnswer(explained[x], restricted).error, CaseAnswer(explained[x], restricted).causedBy # 0
      PROVE  /\ CaseAnswer(explained[x], restricted).causedBy \in CaseAnswer(explained[x], restricted).history
             /\ explained[x].decisions[CaseAnswer(explained[x], restricted).causedBy]
  <2>1. PICK e : e = explained[x]
    OBVIOUS
  <2>2. e.decisions \in Seq(BOOLEAN)
    BY <1>1, <2>1 DEF ExplainRow
  <2>3. ~Redacted(e, restricted).cut
    BY <1>4, <2>1 DEF CaseAnswer
  <2>4. /\ CaseAnswer(e, restricted).causedBy = CausedBy(e.decisions)
        /\ CaseAnswer(e, restricted).history = Redacted(e, restricted).history
    BY <2>3 DEF CaseAnswer
  <2>5. CausedBy(e.decisions) \in Active(e.decisions) /\ e.decisions[CausedBy(e.decisions)]
    BY <1>4, <2>1, <2>2, <2>4, CauseStands
  <2>6. Active(e.decisions) \subseteq Redacted(e, restricted).history
    BY DEF Redacted, Active
  <2> QED
    BY <2>1, <2>4, <2>5, <2>6
<1> QED
  BY <1>2, <1>3, <1>4 DEF ExplanationHoldsTogether

\* An explanation read in pieces holds together.
THEOREM ExplainInvariance == ExplainSpec => [](ExplainTypeOK /\ ExplanationHoldsTogether)
<1>1. ExplainInv => ExplainTypeOK
  BY DEF ExplainInv, TrailOK, ExplainRow, ExplainTypeOK, TrailEntry
<1> QED
  BY <1>1, ExplainBegins, ExplainStep, ExplanationsFollow, PTL DEF ExplainSpec

-----------------------------------------------------------------------------
(* Views, on every input. *)

\* A listing of a finite set lists each element; there always is one.
LEMMA ListingsOfSet ==
  ASSUME NEW S, IsFiniteSet(S)
  PROVE  SetToSeqs(S) # {} /\ \A listed \in SetToSeqs(S) : ToSet(listed) = S
<1>1. PICK n : n = Cardinality(S)
  OBVIOUS
<1>2. n \in Nat
  BY <1>1, FS_CardinalityType
<1>3. IsFiniteSet(1..n) /\ Cardinality(1..n) = n
  BY <1>2, FS_Interval
<1>4. SetToSeqs(S) = { f \in [1..n -> S] : \A i, j \in 1..n : i # j => f[i] # f[j] }
  BY <1>1 DEF SetToSeqs
<1>5. ASSUME NEW f \in SetToSeqs(S) PROVE ToSet(f) = S
  <2>1. f \in [1..n -> S] /\ \A i, j \in 1..n : i # j => f[i] # f[j]
    BY <1>4
  <2>2. f \in Injection(1..n, S)
    BY <2>1 DEF Injection, IsInjective
  <2>3. f \in Surjection(1..n, S)
    BY <1>1, <1>3, <2>2, FS_Injection
  <2> QED
    BY <2>1, <2>3 DEF Surjection, ToSet
<1>6. SetToSeqs(S) # {}
  <2>0. PICK m \in Nat : ExistsBijection(1..m, S)
    BY FS_NatBijection
  <2>1. PICK f : f \in Bijection(1..n, S)
    BY <1>1, <2>0, FS_CountingElements DEF ExistsBijection
  <2>2. f \in [1..n -> S] /\ \A i, j \in 1..n : i # j => f[i] # f[j]
    BY <2>1 DEF Bijection, Injection, IsInjective
  <2> QED
    BY <1>4, <2>2
<1> QED
  BY <1>5, <1>6

\* A case goes to a body that can serve it, whichever way they are listed.
LEMMA RoutingAgrees == ViewsTypeOK => RoutingIgnoresOrder
<1> SUFFICES ASSUME probe \in Probe, probe.kind = "routing"
             PROVE  LET results == { computeRouting(listed, probe.capable, probe.origin, probe.fallback)
                                       : listed \in SetToSeqs(probe.bodies) }
                    IN  /\ Cardinality(results) = 1
                        /\ \A r \in results : probe.bodies \cap probe.capable # {} =>
                             r[1] = "MATCHED" /\ r[2] \in probe.bodies \cap probe.capable
  BY DEF ViewsTypeOK, RoutingIgnoresOrder
<1>1. PICK bodies : bodies = probe.bodies
  OBVIOUS
<1>2. PICK capable : capable = probe.capable
  OBVIOUS
<1>3. bodies \subseteq ExecutionBody
  BY <1>1 DEF Probe
<1>4. IsFiniteSet(bodies)
  BY <1>3, ViewsAssumption, FS_Subset
<1>5. SetToSeqs(bodies) # {} /\ \A listed \in SetToSeqs(bodies) : ToSet(listed) = bodies
  BY <1>4, ListingsOfSet
<1>6. PICK matched : matched = IF bodies \cap capable = {} THEN Nobody ELSE LeastId(bodies \cap capable)
  OBVIOUS
<1>7. PICK route : route = IF probe.origin \in bodies \cap capable THEN <<"MATCHED", probe.origin>>
                           ELSE IF matched # Nobody THEN <<"MATCHED", matched>>
                           ELSE IF probe.fallback # Nobody THEN <<"FALLBACK", probe.fallback>>
                           ELSE <<"ERROR", Nobody>>
  OBVIOUS
<1>8. ASSUME NEW listed \in SetToSeqs(bodies)
      PROVE  computeRouting(listed, capable, probe.origin, probe.fallback) = route
  <2>1. ToSet(listed) = bodies
    BY <1>5
  <2>2. { b \in ToSet(listed) : b \in capable } = bodies \cap capable
    BY <2>1
  <2>3. FirstCapable(listed, capable) = matched
    BY <1>6, <2>2 DEF FirstCapable
  <2> QED
    BY <1>7, <2>1, <2>3 DEF computeRouting
<1>9. PICK results : results = { computeRouting(listed, capable, probe.origin, probe.fallback)
                                   : listed \in SetToSeqs(bodies) }
  OBVIOUS
<1>10. results = {route}
  BY <1>5, <1>8, <1>9
<1>11. Cardinality(results) = 1
  BY <1>10, FS_Singleton
<1>12. ASSUME bodies \cap capable # {} PROVE route[1] = "MATCHED" /\ route[2] \in bodies \cap capable
  <2>1. PICK able : able = bodies \cap capable
    OBVIOUS
  <2>2. able \subseteq Nat /\ able # {}
    BY <1>3, <1>12, <2>1, ViewsAssumption
  <2>3. \E b \in able : \A c \in able : b <= c
    BY <2>2, LeastNumber
  <2>4. matched = CHOOSE b \in able : \A c \in able : b <= c
    BY <1>6, <1>12, <2>1 DEF LeastId
  <2>5. matched \in able
    BY <2>3, <2>4
  <2>6. matched # Nobody
    BY <1>3, <2>1, <2>5, ViewsAssumption
  <2> QED
    BY <1>7, <2>1, <2>5, <2>6
<1> QED
  BY <1>1, <1>2, <1>9, <1>10, <1>11, <1>12

\* The larger of 0 and a positive number is positive.
LEMMA PositiveMax == ASSUME NEW k \in Nat, k > 0 PROVE Max({0, k}) > 0
<1>1. PICK S : S = {0, k}
  OBVIOUS
<1>2. S \subseteq Nat /\ S # {} /\ k \in S /\ \A n \in S : n <= k
  BY <1>1
<1>3. Max(S) \in S /\ k <= Max(S)
  BY <1>2, GreatestNumber
<1> QED
  BY <1>1, <1>3

LEMMA ForecastAgrees == ViewsTypeOK => ForecastIsRight
<1> SUFFICES ASSUME probe \in Probe, probe.kind = "votes",
                    VerificationStatus(Consensus(probe.required, probe.approvals, probe.rejections)) = "PENDING"
             PROVE  LET forecast == VerificationForecast(probe.required, probe.approvals, probe.rejections)
                    IN  /\ forecast.ifNextVoteApproved
                             <=> Consensus(probe.required, probe.approvals + 1, probe.rejections) = "APPROVED"
                        /\ forecast.ifNextVoteRejected
                             <=> Consensus(probe.required, probe.approvals, probe.rejections + 1) = "REJECTED"
                        /\ forecast.remainingApprovalsNeeded > 0 /\ forecast.remainingRejectionsNeeded > 0
  BY DEF ViewsTypeOK, ForecastIsRight
<1>1. PICK q : q = probe.required
  OBVIOUS
<1>2. PICK a : a = probe.approvals
  OBVIOUS
<1>3. PICK r : r = probe.rejections
  OBVIOUS
<1>4. q \in 1..MaxVotes /\ a \in 0..MaxVotes /\ r \in 0..MaxVotes
  BY <1>1, <1>2, <1>3 DEF Probe
<1>5. q \in Nat /\ a \in Nat /\ r \in Nat
  BY <1>4, ViewsAssumption
<1>6. VerificationStatus(Consensus(q, a, r)) = "PENDING"
  BY <1>1, <1>2, <1>3
<1>7. a < q /\ r < q
  BY <1>5, <1>6 DEF VerificationStatus, Consensus
<1>8. Consensus(q, a + 1, r) = "APPROVED" <=> a + 1 >= q
  BY <1>5, <1>7 DEF Consensus
<1>9. Consensus(q, a, r + 1) = "REJECTED" <=> r + 1 >= q
  BY <1>5, <1>7 DEF Consensus
<1>10. Max({0, q - a}) > 0 /\ Max({0, q - r}) > 0
  BY <1>5, <1>7, PositiveMax
<1>11. PICK forecast : forecast = VerificationForecast(q, a, r)
  OBVIOUS
<1>12. /\ forecast.remainingApprovalsNeeded = Max({0, q - a})
       /\ forecast.remainingRejectionsNeeded = Max({0, q - r})
  BY <1>11 DEF VerificationForecast
<1>13. /\ forecast.ifNextVoteApproved <=> a + 1 >= q
       /\ forecast.ifNextVoteRejected <=> r + 1 >= q
  BY <1>11 DEF VerificationForecast
<1> QED
  BY <1>1, <1>2, <1>3, <1>8, <1>9, <1>10, <1>11, <1>12, <1>13

\* The sum of the weights of a set of milestones.
SumOf(M) ==
  (IF "initial" \in M THEN 2 ELSE 0) + (IF "followUp" \in M THEN 1 ELSE 0) + (IF "impact" \in M THEN 2 ELSE 0)

Milestones == {"initial", "followUp", "impact"}

AnyOf(S) == CHOOSE x \in S : TRUE

\* The fold that MapThenSumSet() is, as an equation.
Sums(M, iter) ==
  iter = [s \in SUBSET M |-> IF s = {} THEN 0 ELSE Weight[AnyOf(s)] + iter[s \ {AnyOf(s)}]]

LEMMA SumUnfolds ==
  ASSUME NEW M
  PROVE  WeightOf(M) = (CHOOSE iter : Sums(M, iter))[M]
BY DEF WeightOf, MapThenSumSet, MapThenFoldSet, Sums, AnyOf

LEMMA WeightIsSum ==
  ASSUME NEW M, M \subseteq Milestones
  PROVE  WeightOf(M) = SumOf(M)
<1>1. /\ Weight["initial"] = 2 /\ Weight["followUp"] = 1 /\ Weight["impact"] = 2
  BY DEF Weight
<1>2. \A s \in SUBSET M : s # {} => AnyOf(s) \in s
  BY DEF AnyOf
<1>3. ASSUME NEW s \in SUBSET M, s # {} PROVE SumOf(s) = Weight[AnyOf(s)] + SumOf(s \ {AnyOf(s)})
  <2>1. PICK x : x = AnyOf(s)
    OBVIOUS
  <2>2. x \in s /\ x \in Milestones
    BY <1>2, <1>3, <2>1
  <2>3. CASE x = "initial"
    BY <1>1, <2>1, <2>2, <2>3 DEF SumOf
  <2>4. CASE x = "followUp"
    BY <1>1, <2>1, <2>2, <2>4 DEF SumOf
  <2>5. CASE x = "impact"
    BY <1>1, <2>1, <2>2, <2>5 DEF SumOf
  <2> QED
    BY <2>2, <2>3, <2>4, <2>5 DEF Milestones
<1>4. SumOf({}) = 0
  BY DEF SumOf
<1>5. PICK closed : closed = [s \in SUBSET M |-> SumOf(s)]
  OBVIOUS
<1>6. Sums(M, closed)
  <2>1. ASSUME NEW s \in SUBSET M
        PROVE  closed[s] = IF s = {} THEN 0 ELSE Weight[AnyOf(s)] + closed[s \ {AnyOf(s)}]
    <3>1. s \ {AnyOf(s)} \in SUBSET M
      OBVIOUS
    <3> QED
      BY <1>3, <1>4, <1>5, <3>1
  <2>2. closed = [s \in SUBSET M |-> IF s = {} THEN 0 ELSE Weight[AnyOf(s)] + closed[s \ {AnyOf(s)}]]
    BY <1>5, <2>1
  <2> QED
    BY <2>2 DEF Sums
<1>7. PICK iter : iter = CHOOSE f : Sums(M, f)
  OBVIOUS
<1>8. Sums(M, iter)
  BY <1>6, <1>7
<1>9. \A s \in SUBSET M : iter[s] = IF s = {} THEN 0 ELSE Weight[AnyOf(s)] + iter[s \ {AnyOf(s)}]
  BY <1>8 DEF Sums
<1>10. ASSUME NEW s \in SUBSET M, \A x \in s : iter[s \ {x}] = SumOf(s \ {x}) PROVE iter[s] = SumOf(s)
  BY <1>2, <1>3, <1>4, <1>9, <1>10
<1>11. iter[{}] = SumOf({})
  BY <1>4, <1>9
<1>12. ASSUME NEW a \in M PROVE iter[{a}] = SumOf({a})
  <2>1. \A x \in {a} : {a} \ {x} = {}
    OBVIOUS
  <2> QED
    BY <1>10, <1>11, <2>1
<1>13. ASSUME NEW a \in M, NEW b \in M PROVE iter[{a, b}] = SumOf({a, b})
  <2>1. \A x \in {a, b} : {a, b} \ {x} = {} \/ \E y \in M : {a, b} \ {x} = {y}
    OBVIOUS
  <2> QED
    BY <1>10, <1>11, <1>12, <2>1
<1>14. ASSUME NEW a \in M, NEW b \in M, NEW c \in M PROVE iter[{a, b, c}] = SumOf({a, b, c})
  <2>1. \A x \in {a, b, c} : \/ {a, b, c} \ {x} = {}
                             \/ \E y, z \in M : {a, b, c} \ {x} = {y, z}
    <3>1. \A x \in {a, b, c} : \/ {a, b, c} \ {x} = {}
                               \/ {a, b, c} \ {x} = {a, b}
                               \/ {a, b, c} \ {x} = {a, c}
                               \/ {a, b, c} \ {x} = {b, c}
                               \/ {a, b, c} \ {x} = {a, a}
                               \/ {a, b, c} \ {x} = {b, b}
                               \/ {a, b, c} \ {x} = {c, c}
      OBVIOUS
    <3> QED
      BY <3>1
  <2>2. PICK T : T = {a, b, c}
    OBVIOUS
  <2>3. ASSUME NEW x \in T PROVE iter[T \ {x}] = SumOf(T \ {x})
    <3>1. T \ {x} = {} \/ \E y, z \in M : T \ {x} = {y, z}
      BY <2>1, <2>2
    <3> QED
      BY <1>11, <1>13, <3>1
  <2>4. T \in SUBSET M
    BY <2>2
  <2> QED
    BY <1>10, <2>2, <2>3, <2>4
<1>15. M = {} \/ \E a, b, c \in M : M = {a, b, c}
  <2>1. CASE M = {}
    BY <2>1
  <2>2. CASE M # {}
    <3>1. PICK a \in M : TRUE
      BY <2>2
    <3>2. M = { x \in {"initial", "followUp", "impact"} : x \in M }
      BY DEF Milestones
    <3>3. M = {IF "initial" \in M THEN "initial" ELSE a, IF "followUp" \in M THEN "followUp" ELSE a,
               IF "impact" \in M THEN "impact" ELSE a}
      BY <3>1 DEF Milestones
    <3> QED
      BY <3>1, <3>3
  <2> QED
    BY <2>1, <2>2
<1>16. iter[M] = SumOf(M)
  BY <1>11, <1>14, <1>15
<1> QED
  BY <1>7, <1>16, SumUnfolds

LEMMA ProgressAgrees == ViewsTypeOK => ProgressIsCompletion
<1> SUFFICES ASSUME probe \in Probe, probe.kind = "progress"
             PROVE  DerivedStatus(probe.done) = "COMPLETED" <=> probe.done = DOMAIN Weight
  BY DEF ViewsTypeOK, ProgressIsCompletion
<1>1. PICK done : done = probe.done
  OBVIOUS
<1>2. DOMAIN Weight = Milestones
  BY DEF Weight, Milestones
<1>3. done \subseteq Milestones
  BY <1>1, <1>2 DEF Probe
<1>4. WeightOf(done) = SumOf(done) /\ WeightOf(Milestones) = 5
  <2>1. SumOf(Milestones) = 5
    BY DEF SumOf, Milestones
  <2> QED
    BY <1>3, <2>1, WeightIsSum
<1>5. SumOf(done) \in 0..5 /\ (SumOf(done) = 5 <=> done = Milestones)
  <2>1. SumOf(done) \in 0..5
    BY DEF SumOf
  <2>2. SumOf(done) = 5 => "initial" \in done /\ "followUp" \in done /\ "impact" \in done
    BY DEF SumOf
  <2>3. done = Milestones => SumOf(done) = 5
    BY DEF SumOf, Milestones
  <2> QED
    BY <1>3, <2>1, <2>2, <2>3 DEF Milestones
<1>6. \A w \in 0..5 : PercentOf(w, 5) = 100 <=> w = 5
  <2>1. \A w \in 0..5 : PercentOf(w, 5) = (200 * w + 5) \div 10
    BY DEF PercentOf
  <2>2. \A w \in 0..5 : (200 * w + 5) \div 10 = 20 * w
    OBVIOUS
  <2> QED
    BY <2>1, <2>2
<1> QED
  BY <1>1, <1>2, <1>4, <1>5, <1>6 DEF DerivedStatus

LEMMA OffersAgree == ViewsTypeOK => OffersAreAccepted
<1> SUFFICES ASSUME probe \in Probe, probe.kind = "case"
             PROVE  /\ CaseCapabilities(probe.lifecycle, probe.execution, probe.consensus).verify = "ACTIVE"
                         => VoteIsAccepted(probe.execution, probe.consensus)
                    /\ \A s \in Lifecycle : CaseStatusOf(s) = CaseStatusOf(probe.lifecycle) => s = probe.lifecycle
  BY DEF ViewsTypeOK, OffersAreAccepted
<1>1. PICK l : l = probe.lifecycle
  OBVIOUS
<1>2. l \in Lifecycle
  BY <1>1 DEF Probe
<1>3. CaseCapabilities(l, probe.execution, probe.consensus).verify = "ACTIVE"
        => VoteIsAccepted(probe.execution, probe.consensus)
  BY DEF CaseCapabilities, VoteIsAccepted
<1>4. \A s \in Lifecycle : s # "INTAKED" /\ s # "IN_REVIEW"
  BY DEF Lifecycle
<1>5. \A s : CaseStatusOf(s) = IF s = "INTAKE" THEN "INTAKED" ELSE IF s = "HUMAN_REVIEW" THEN "IN_REVIEW" ELSE s
  BY DEF CaseStatusOf
<1>6. \A s \in Lifecycle : CaseStatusOf(s) = CaseStatusOf(l) => s = l
  BY <1>2, <1>4, <1>5
<1> QED
  BY <1>1, <1>3, <1>6

LEMMA AdviceAgrees == ViewsTypeOK => AdviceFollowsTable
<1> SUFFICES ASSUME probe.kind = "case" PROVE AdviceFollowsTable
  BY DEF AdviceFollowsTable
<1>1. PICK advice : advice = autoTaskAdvance(probe.lifecycle, probe.task, probe.routed, probe.delivered)
  OBVIOUS
<1>2. PICK outcome : outcome = IF probe.routed THEN "MATCHED" ELSE "UNASSIGNED"
  OBVIOUS
<1>3. outcome = "MATCHED" <=> probe.routed
  BY <1>2
<1>4. advice = Simulated(probe.lifecycle, probe.task, outcome, probe.delivered)
  BY <1>1, <1>3 DEF Simulated, autoTaskAdvance
<1>5. ASSUME advice # "NO_ACTION"
      PROVE  <<probe.task, advice>> \in TaskTransitions /\ probe.lifecycle = "ROUTED"
  BY <1>1, <1>5 DEF autoTaskAdvance, TaskTransitions
<1>6. probe.lifecycle = "ROUTED" => ~autoRouteBasic(probe.lifecycle, probe.routed, 1)
  BY DEF autoRouteBasic
<1> QED
  BY <1>1, <1>2, <1>4, <1>5, <1>6 DEF AdviceFollowsTable

\* What each role sees is ordered.
LEMMA RolesSeeInOrder ==
  /\ Visible("PUBLIC") = Visible("PARTNER")
  /\ Visible("PARTNER") \subseteq Visible("AUDITOR")
  /\ Visible("AUDITOR") \subseteq Visible("INTERNAL")
<1>1. PICK policy : policy = EXPLAINABILITY_POLICY
  OBVIOUS
<1>2. /\ policy["PUBLIC"] = policy["PARTNER"] /\ policy["PARTNER"] \subseteq policy["AUDITOR"]
      /\ policy["AUDITOR"] \subseteq policy["INTERNAL"]
  BY <1>1 DEF EXPLAINABILITY_POLICY
<1>3. /\ DisbursementParts("PUBLIC") = DisbursementParts("PARTNER")
      /\ DisbursementParts("PARTNER") \subseteq DisbursementParts("AUDITOR")
      /\ DisbursementParts("AUDITOR") = DisbursementParts("INTERNAL")
  BY DEF DisbursementParts
<1> QED
  BY <1>1, <1>2, <1>3 DEF Visible

LEMMA ReadersAgree == MoreRolesSeeNoLess
<1> SUFFICES ASSUME NEW roles, NEW more
             PROVE  Visible(resolveExplainabilityRole(roles))
                      \subseteq Visible(resolveExplainabilityRole(roles \cup more))
  BY DEF MoreRolesSeeNoLess
<1>1. PICK all : all = roles \cup more
  OBVIOUS
<1>2. \A K : roles \cap K # {} => all \cap K # {}
  BY <1>1
<1>3. CASE all \cap {"ADMIN", "STAFF"} # {}
  BY <1>1, <1>3, RolesSeeInOrder DEF resolveExplainabilityRole
<1>4. CASE all \cap {"ADMIN", "STAFF"} = {} /\ all \cap {"REGULATOR", "AUDITOR"} # {}
  BY <1>1, <1>2, <1>4, RolesSeeInOrder DEF resolveExplainabilityRole
<1>5. CASE all \cap {"ADMIN", "STAFF"} = {} /\ all \cap {"REGULATOR", "AUDITOR"} = {}
  BY <1>1, <1>2, <1>5, RolesSeeInOrder DEF resolveExplainabilityRole
<1> QED
  BY <1>3, <1>4, <1>5

\* The views agree on whatever they are computed from.
THEOREM ViewsInvariance == ViewsSpec => [](ViewsTypeOK /\ ViewsAgree)
<1>1. ViewsInit => ViewsTypeOK
  BY DEF ViewsInit, ViewsTypeOK
<1>2. ViewsTypeOK /\ [ViewsNext]_probe => ViewsTypeOK'
  BY DEF ViewsNext, ViewsTypeOK
<1>3. ViewsTypeOK => ViewsAgree
  BY RoutingAgrees, ForecastAgrees, ProgressAgrees, OffersAgree, AdviceAgrees, ReadersAgree DEF ViewsAgree
<1> QED
  BY <1>1, <1>2, <1>3, PTL DEF ViewsSpec

-----------------------------------------------------------------------------
(* The services together. *)

\* Every service at its beginning.
AllBegin ==
  /\ GuardInit /\ AuditInit /\ QueueInit /\ MessagingInit /\ SocketInit /\ SessionsInit
  /\ InviteInit /\ SchedulerInit /\ AuthorityInit /\ CaseListInit /\ ExplainInit /\ ViewsInit

LEMMA ServicesBegin == ServicesInit => AllBegin /\ service \in Service
<1> SUFFICES ASSUME ServicesInit PROVE ViewsInit
  BY DEF ServicesInit, AllBegin
<1>1. CASE service = "views"
  BY <1>1 DEF ServicesInit
<1>2. CASE service # "views"
  <2>1. probe = [kind |-> "progress", done |-> {}]
    BY <1>2 DEF ServicesInit
  <2> QED
    BY <2>1 DEF ViewsInit, Probe
<1> QED
  BY <1>1, <1>2

\* A step of the composition is for each service a step of its own or none.
LEMMA ServicesStep ==
  ASSUME [ServicesNext]_servicesVars
  PROVE  /\ [GuardNext]_guardVars /\ [AuditNext]_auditVars /\ [QueueNext]_queueVars
         /\ [MessagingNext]_messagingVars /\ [SocketNext]_socketVars /\ [SessionsNext]_sessionVars
         /\ [InviteNext]_inviteVars /\ [SchedulerNext]_schedulerVars /\ [AuthorityNext]_authorityVars
         /\ [CaseListNext]_caseListVars /\ [ExplainNext]_explainVars /\ [ViewsNext]_probe
         /\ UNCHANGED service
<1>1. CASE UNCHANGED servicesVars
  BY <1>1 DEF servicesVars
<1>2. ASSUME NEW own \in Service, Others(own)
      PROVE  /\ UNCHANGED service
             /\ own # "guard" => UNCHANGED guardVars
             /\ own # "audit" => UNCHANGED auditVars
             /\ own # "queue" => UNCHANGED queueVars
             /\ own # "messaging" => UNCHANGED messagingVars
             /\ own # "sockets" => UNCHANGED socketVars
             /\ own # "sessions" => UNCHANGED sessionVars
             /\ own # "invitations" => UNCHANGED inviteVars
             /\ own # "scheduler" => UNCHANGED schedulerVars
             /\ own # "authority" => UNCHANGED authorityVars
             /\ own # "list" => UNCHANGED caseListVars
             /\ own # "explain" => UNCHANGED explainVars
             /\ own # "views" => UNCHANGED probe
  BY <1>2 DEF Others
<1>3. CASE ServicesNext
  BY <1>2, <1>3 DEF ServicesNext, Service
<1> QED
  BY <1>1, <1>3

\* The safety part of each service's specification.
LEMMA EachService ==
  ServicesSpec =>
    /\ GuardSpec /\ AuditSpec /\ (QueueInit /\ [][QueueNext]_queueVars) /\ MessagingSpec
    /\ (SocketInit /\ [][SocketNext]_socketVars) /\ SessionsSpec /\ InviteSpec /\ SchedulerSpec
    /\ AuthoritySpec /\ CaseListSpec /\ ExplainSpec /\ ViewsSpec
<1>1. ServicesInit => AllBegin
  BY ServicesBegin
<1>2. ServicesSpec => GuardSpec
  <2>1. ServicesInit => GuardInit
    BY <1>1 DEF AllBegin
  <2>2. [ServicesNext]_servicesVars => [GuardNext]_guardVars
    BY ServicesStep
  <2> QED
    BY <2>1, <2>2, PTL DEF ServicesSpec, GuardSpec
<1>3. ServicesSpec => AuditSpec
  <2>1. ServicesInit => AuditInit
    BY <1>1 DEF AllBegin
  <2>2. [ServicesNext]_servicesVars => [AuditNext]_auditVars
    BY ServicesStep
  <2> QED
    BY <2>1, <2>2, PTL DEF ServicesSpec, AuditSpec
<1>4. ServicesSpec => QueueInit /\ [][QueueNext]_queueVars
  <2>1. ServicesInit => QueueInit
    BY <1>1 DEF AllBegin
  <2>2. [ServicesNext]_servicesVars => [QueueNext]_queueVars
    BY ServicesStep
  <2> QED
    BY <2>1, <2>2, PTL DEF ServicesSpec
<1>5. ServicesSpec => MessagingSpec
  <2>1. ServicesInit => MessagingInit
    BY <1>1 DEF AllBegin
  <2>2. [ServicesNext]_servicesVars => [MessagingNext]_messagingVars
    BY ServicesStep
  <2> QED
    BY <2>1, <2>2, PTL DEF ServicesSpec, MessagingSpec
<1>6. ServicesSpec => SocketInit /\ [][SocketNext]_socketVars
  <2>1. ServicesInit => SocketInit
    BY <1>1 DEF AllBegin
  <2>2. [ServicesNext]_servicesVars => [SocketNext]_socketVars
    BY ServicesStep
  <2> QED
    BY <2>1, <2>2, PTL DEF ServicesSpec
<1>7. ServicesSpec => SessionsSpec
  <2>1. ServicesInit => SessionsInit
    BY <1>1 DEF AllBegin
  <2>2. [ServicesNext]_servicesVars => [SessionsNext]_sessionVars
    BY ServicesStep
  <2> QED
    BY <2>1, <2>2, PTL DEF ServicesSpec, SessionsSpec
<1>8. ServicesSpec => InviteSpec
  <2>1. ServicesInit => InviteInit
    BY <1>1 DEF AllBegin
  <2>2. [ServicesNext]_servicesVars => [InviteNext]_inviteVars
    BY ServicesStep
  <2> QED
    BY <2>1, <2>2, PTL DEF ServicesSpec, InviteSpec
<1>9. ServicesSpec => SchedulerSpec
  <2>1. ServicesInit => SchedulerInit
    BY <1>1 DEF AllBegin
  <2>2. [ServicesNext]_servicesVars => [SchedulerNext]_schedulerVars
    BY ServicesStep
  <2> QED
    BY <2>1, <2>2, PTL DEF ServicesSpec, SchedulerSpec
<1>10. ServicesSpec => AuthoritySpec
  <2>1. ServicesInit => AuthorityInit
    BY <1>1 DEF AllBegin
  <2>2. [ServicesNext]_servicesVars => [AuthorityNext]_authorityVars
    BY ServicesStep
  <2> QED
    BY <2>1, <2>2, PTL DEF ServicesSpec, AuthoritySpec
<1>11. ServicesSpec => CaseListSpec
  <2>1. ServicesInit => CaseListInit
    BY <1>1 DEF AllBegin
  <2>2. [ServicesNext]_servicesVars => [CaseListNext]_caseListVars
    BY ServicesStep
  <2> QED
    BY <2>1, <2>2, PTL DEF ServicesSpec, CaseListSpec
<1>12. ServicesSpec => ExplainSpec
  <2>1. ServicesInit => ExplainInit
    BY <1>1 DEF AllBegin
  <2>2. [ServicesNext]_servicesVars => [ExplainNext]_explainVars
    BY ServicesStep
  <2> QED
    BY <2>1, <2>2, PTL DEF ServicesSpec, ExplainSpec
<1>13. ServicesSpec => ViewsSpec
  <2>1. ServicesInit => ViewsInit
    BY <1>1 DEF AllBegin
  <2>2. [ServicesNext]_servicesVars => [ViewsNext]_probe
    BY ServicesStep
  <2> QED
    BY <2>1, <2>2, PTL DEF ServicesSpec, ViewsSpec
<1> QED
  BY <1>2, <1>3, <1>4, <1>5, <1>6, <1>7, <1>8, <1>9, <1>10, <1>11, <1>12, <1>13

\* The two cursors, of the messages of a case and of the cases of a tenant, lose and repeat
\* nothing while rows are added around them, for any number of rows and any size of page.
THEOREM PagesLoseNothing == ServicesSpec => []PagesSkipNothing
<1>1. CursorSkipsNothing /\ CaseListSkipsNothing => PagesSkipNothing
  BY DEF PagesSkipNothing
<1> QED
  BY <1>1, EachService, ScrollInvariance, CaseListInvariance, PTL

\* What each variable of each service holds, for every value of the constants.
THEOREM ServicesTypes == ServicesSpec => []ServicesTypeOK
<1>1. ServicesSpec => []GuardTypeOK
  BY EachService, AnsweredOnce, PTL
<1>2. ServicesSpec => []AuditTypeOK
  <2>1. AuditInv => AuditTypeOK
    BY DEF AuditInv
  <2> QED
    BY <2>1, EachService, AuditInvariance, PTL
<1>3. ServicesSpec => []QueueTypeOK
  <2>1. QueueInv => QueueTypeOK
    BY DEF QueueInv
  <2> QED
    BY <2>1, EachService, QueueInvariance, PTL
<1>4. ServicesSpec => []MessagingTypeOK
  BY EachService, ScrollInvariance, PTL
<1>5. ServicesSpec => []SocketTypeOK
  <2>1. SocketInv => SocketTypeOK
    BY DEF SocketInv
  <2> QED
    BY <2>1, EachService, SocketInvariance, PTL
<1>6. ServicesSpec => []SessionsTypeOK
  <2>1. SessionsInv => SessionsTypeOK
    BY DEF SessionsInv
  <2> QED
    BY <2>1, EachService, SessionsInvariance, PTL
<1>7. ServicesSpec => []InviteTypeOK
  BY EachService, InviteTypes, PTL
<1>8. ServicesSpec => []SchedulerTypeOK
  <2>1. SchedulerInv => SchedulerTypeOK
    BY DEF SchedulerInv
  <2> QED
    BY <2>1, EachService, SchedulerInvariance, PTL
<1>9. ServicesSpec => []AuthorityTypeOK
  <2>1. AuthorityInv => AuthorityTypeOK
    BY DEF AuthorityInv
  <2> QED
    BY <2>1, EachService, AuthorityInvariance, PTL
<1>10. ServicesSpec => []CaseListTypeOK
  BY EachService, CaseListInvariance, PTL
<1>11. ServicesSpec => []ExplainTypeOK
  BY EachService, ExplainInvariance, PTL
<1>12. ServicesSpec => []ViewsTypeOK
  BY EachService, ViewsInvariance, PTL
<1>13. ServicesSpec => [](service \in Service)
  <2>1. ServicesInit => service \in Service
    BY ServicesBegin
  <2>2. service \in Service /\ [ServicesNext]_servicesVars => (service \in Service)'
    BY ServicesStep
  <2> QED
    BY <2>1, <2>2, PTL DEF ServicesSpec
<1>14. /\ service \in Service
       /\ GuardTypeOK /\ AuditTypeOK /\ QueueTypeOK /\ MessagingTypeOK /\ SocketTypeOK
       /\ SessionsTypeOK /\ InviteTypeOK /\ SchedulerTypeOK /\ AuthorityTypeOK
       /\ CaseListTypeOK /\ ExplainTypeOK /\ ViewsTypeOK
       => ServicesTypeOK
  BY DEF ServicesTypeOK
<1> QED
  BY <1>1, <1>2, <1>3, <1>4, <1>5, <1>6, <1>7, <1>8, <1>9, <1>10, <1>11, <1>12, <1>13, <1>14, PTL

(***************************************************************************)
(* What was proved of each service, of the services together.              *)
(***************************************************************************)
THEOREM ServicesKeepPromises ==
  ServicesSpec =>
    /\ AnsweredIsNotRepeated /\ []NoIntakeIsLost /\ []OneMessagePerMutation
    /\ []SubscriptionFollowsSockets /\ []DeliveredAtMostOnce
    /\ []OneSessionPerLogin /\ []InviteIsSingleUse /\ []OneRunUnderLock
    /\ ResolutionsReplaceWhatTheySaw /\ []ExplanationHoldsTogether /\ []ViewsAgree
    /\ BlacklistIsPermanent /\ RevokedStaysRevoked
<1>1. ServicesSpec => AnsweredIsNotRepeated
  BY EachService, AnsweredOnce, PTL
<1>2. ServicesSpec => []NoIntakeIsLost
  BY EachService, QueueInvariance, InOnePlace, PTL
<1>3. ServicesSpec => []OneMessagePerMutation
  BY EachService, PostedOnce, PTL
<1>4. ServicesSpec => []SubscriptionFollowsSockets /\ []DeliveredAtMostOnce
  <2>1. SocketInv => SubscriptionFollowsSockets /\ DeliveredAtMostOnce
    BY DEF SocketInv, SubscriptionInv, FlagsFollowSockets, CommandsFollowFlags, Agree,
           SubscriptionFollowsSockets, SentOnce, DeliveredAtMostOnce
  <2> QED
    BY <2>1, EachService, SocketInvariance, PTL
<1>5. ServicesSpec => []OneSessionPerLogin /\ RevokedStaysRevoked
  BY EachService, OneSessionEach, RevocationIsFinal, PTL
<1>6. ServicesSpec => []InviteIsSingleUse
  BY EachService, InvitedOnce, PTL
<1>7. ServicesSpec => []OneRunUnderLock
  BY EachService, LockedScansExclude, PTL
<1>8. ServicesSpec => ResolutionsReplaceWhatTheySaw
  BY EachService, ResolutionsReplace, PTL
<1>9. ServicesSpec => []ExplanationHoldsTogether
  BY EachService, ExplainInvariance, PTL
<1>10. ServicesSpec => []ViewsAgree
  BY EachService, ViewsInvariance, PTL
<1>11. ServicesSpec => BlacklistIsPermanent
  BY EachService, BlacklistLasts, PTL
<1> QED
  BY <1>1, <1>2, <1>3, <1>4, <1>5, <1>6, <1>7, <1>8, <1>9, <1>10, <1>11
=============================================================================
