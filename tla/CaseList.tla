------------------------------ MODULE CaseList ------------------------------
(***************************************************************************)
(* GET /api/cases: the cases of a tenant, newest first, a page at a time.  *)
(* A case's rank is its place in the order (createdAt, id): createdAt is   *)
(* the time its transaction began, so that a case may appear later than    *)
(* one of a higher rank.                                                   *)
(***************************************************************************)
EXTENDS Integers, Sequences, FiniteSets

CONSTANTS
  DEFAULT_LIMIT, MAX_LIMIT,  \* the limit without a usable ?limit, and the largest
  MaxRank,                   \* bound on the cases created
  NoCursor                   \* null

ASSUME LimitAssumption == DEFAULT_LIMIT \in 1..MAX_LIMIT /\ MAX_LIMIT \in Nat /\ MaxRank \in Nat
ASSUME NoCursorAssumption == NoCursor \notin Nat

VARIABLES
  begun,      \* the last rank given
  committed,  \* ranks of the cases a SELECT sees
  routed,     \* of these, the ones with a RoutingDecision
  browse      \* a client that pages through the list

caseListVars == <<begun, committed, routed, browse>>

NotOpen == [open |-> FALSE, cursor |-> NoCursor, wanted |-> {}, shown |-> <<>>]

CaseListInit ==
  /\ begun = 0
  /\ committed = {}
  /\ routed = {}
  /\ browse = NotOpen

\* A bootstrap begins: createdAt is its now().
BeginCase ==
  /\ begun < MaxRank
  /\ begun' = begun + 1
  /\ UNCHANGED <<committed, routed, browse>>

CommitCase(r) ==
  /\ r \in 1..begun \ committed
  /\ committed' = committed \cup {r}
  /\ UNCHANGED <<begun, routed, browse>>

RouteListed(r) ==
  /\ r \in committed \ routed
  /\ routed' = routed \cup {r}
  /\ UNCHANGED <<begun, committed, browse>>

\* The normalisation of ?limit: not a number, zero and less give the default.
Limit(asked) ==
  IF asked <= 0 THEN DEFAULT_LIMIT ELSE IF asked > MAX_LIMIT THEN MAX_LIMIT ELSE asked

\* Variant: no default for a case without a decision.
ItemUndefined(r) == [id |-> r, routingOutcome |-> IF r \in routed THEN "DECIDED" ELSE "undefined"]

\* mapCaseListItem(): without a decision a case is UNASSIGNED.
Item(r) == [id |-> r, routingOutcome |-> IF r \in routed THEN "DECIDED" ELSE "UNASSIGNED"]

\* findMany: ORDER BY createdAt DESC, id DESC, after the cursor's row, TAKE n.
SelectCases(cursor, n) ==
  LET after == { r \in committed : cursor = NoCursor \/ r < cursor }
      place(r) == Cardinality({ x \in after : x >= r })
      taken == { r \in after : place(r) <= n }
  IN  [i \in 1..Cardinality(taken) |-> CHOOSE r \in taken : place(r) = i]

\* Variant: the cursor is the extra row that tells there is more.
NextOfExtraRow(rows, limit) == IF Len(rows) > limit THEN rows[limit + 1] ELSE NoCursor

\* nextCursor: the last case of the trimmed page, null when nothing is left.
NextOfPage(rows, limit) == IF Len(rows) > limit THEN rows[limit] ELSE NoCursor

\* listCases()
ListCases(cursor, asked) ==
  LET limit == Limit(asked)
      rows == SelectCases(cursor, limit + 1)
      trimmed == IF Len(rows) > limit THEN SubSeq(rows, 1, limit) ELSE rows
  IN  [cases |-> [i \in DOMAIN trimmed |-> Item(trimmed[i])], next |-> NextOfPage(rows, limit)]

\* The first page, without a cursor.
OpenList(asked) ==
  LET page == ListCases(NoCursor, asked)
  IN  /\ ~browse.open
      /\ browse' = [open |-> TRUE, cursor |-> page.next, wanted |-> committed, shown |-> page.cases]
      /\ UNCHANGED <<begun, committed, routed>>

\* The following one, perhaps with another limit, or the end.
FollowCursor(asked) ==
  LET page == ListCases(browse.cursor, asked)
  IN  /\ browse.open
      /\ browse' = IF browse.cursor = NoCursor THEN NotOpen
                   ELSE [browse EXCEPT !.cursor = page.next, !.shown = @ \o page.cases]
      /\ UNCHANGED <<begun, committed, routed>>

CaseListNext ==
  \/ BeginCase
  \/ \E r \in 1..MaxRank : CommitCase(r) \/ RouteListed(r)
  \/ \E asked \in 0..(MAX_LIMIT + 1) : OpenList(asked) \/ FollowCursor(asked)

CaseListSpec == CaseListInit /\ [][CaseListNext]_caseListVars
-----------------------------------------------------------------------------
CaseListTypeOK ==
  /\ begun \in 0..MaxRank
  /\ routed \subseteq committed /\ committed \subseteq 1..begun
  /\ browse.open \in BOOLEAN
  /\ browse.cursor \in (1..MaxRank) \cup {NoCursor}
  /\ browse.wanted \subseteq 1..MaxRank
  /\ browse.shown \in Seq([id: 1..MaxRank, routingOutcome: {"DECIDED", "UNASSIGNED"}])

(***************************************************************************)
(* The pages of GET /api/cases, whatever is created or committed late in   *)
(* between and whatever limits the client asks for: each case of the       *)
(* moment the list was opened is on a page the client has or is still to   *)
(* come, no case is on two pages, and the order goes on across the pages.  *)
(***************************************************************************)
CaseListSkipsNothing ==
  /\ \A r \in browse.wanted :
       \/ \E i \in DOMAIN browse.shown : browse.shown[i].id = r
       \/ browse.cursor # NoCursor /\ r < browse.cursor
  /\ \A i, j \in DOMAIN browse.shown : i < j => browse.shown[i].id > browse.shown[j].id
=============================================================================
