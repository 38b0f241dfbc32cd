------------------------- MODULE LedgerAppend_proofs -------------------------
(***************************************************************************)
(* Proofs about LedgerAppend: what its unique indexes and checks guarantee *)
(* of the committed ledger, for any number of tenants, transactions and    *)
(* requests.                                                               *)
(***************************************************************************)
EXTENDS LedgerAppend, TLAPS

\* A row of the table: committed, or inserted by an open transaction.
IsRow(e) == e \in ledger \/ \E v \in Writer : e \in pending[v]

\* The table's unique indexes: ts, supersedesCommitId, (tenantId, requestId).
IndexInv ==
  \A e, d : IsRow(e) /\ IsRow(d) /\ (e.ts = d.ts \/ SameKey(e, d)) => e = d

\* A number is drawn once: rows and inserts to come share none.
NumberInv ==
  /\ \A e : IsRow(e) => e.ts <= seq
  /\ \A w \in Writer : appends[w].pc = "insert" =>
       /\ appends[w].ts \in 1..seq
       /\ \A e : IsRow(e) => e.ts # appends[w].ts
       /\ \A v \in Writer : v # w /\ appends[v].pc = "insert" => appends[v].ts # appends[w].ts

\* A row with number n, appended by actor for tenant, may supersede target.
Justified(rows, tenant, actor, target, n) ==
  target # 0 =>
    \E d \in rows : /\ d.ts = target /\ d.tenant = tenant
                    /\ d.ts < n /\ Level(d.actor) < Level(actor)

\* An open transaction knows its tenant, and its row to come its input.
OpenInv ==
  \A w \in Writer :
    /\ appends[w].pc = "idle" => pending[w] = {}
    /\ appends[w].pc # "idle" => appends[w].tenant \in Tenant
    /\ appends[w].pc \in {"number", "insert"} => appends[w].input \in Input

\* Every supersession, done or about to be, is justified by what is visible.
JustifiedInv ==
  /\ \A e \in ledger : Justified(ledger, e.tenant, e.actor, e.supersedes, e.ts)
  /\ \A w \in Writer : \A e \in pending[w] :
       Justified(Visible(w), e.tenant, e.actor, e.supersedes, e.ts)
  /\ \A w \in Writer :
       /\ appends[w].pc = "number" =>
            Justified(Visible(w), appends[w].tenant, appends[w].input.actor,
                      appends[w].input.supersedes, seq + 1)
       /\ appends[w].pc = "insert" =>
            Justified(Visible(w), appends[w].tenant, appends[w].input.actor,
                      appends[w].input.supersedes, appends[w].ts)

AppendInv == AppendTypeOK /\ OpenInv /\ NumberInv /\ IndexInv /\ JustifiedInv

\* The levels of deriveAuthorityLevel() are the numbers 1 to 4.
LEMMA LevelType == \A a \in Actor : Level(a) \in 1..4
  BY ProofAssumption DEF Actor, Level

\* What justifies a supersession is not lost when more becomes visible.
LEMMA JustifiedMonotone ==
  ASSUME NEW R, NEW S, R \subseteq S, NEW tenant, NEW actor, NEW target, NEW n,
         Justified(R, tenant, actor, target, n)
  PROVE  Justified(S, tenant, actor, target, n)
  BY DEF Justified

\* The empty ledger satisfies the invariant.
LEMMA InitInv == AppendInit => AppendInv
  <1> SUFFICES ASSUME AppendInit PROVE AppendInv
    OBVIOUS
  <1>1. AppendTypeOK
    BY TsAssumption DEF AppendInit, AppendTypeOK, AppendTx, Closed, Input
  <1>2. ~ \E e : IsRow(e)
    BY DEF AppendInit, IsRow
  <1>3. OpenInv /\ NumberInv /\ JustifiedInv
    BY <1>2 DEF AppendInit, OpenInv, NumberInv, JustifiedInv, Closed
  <1>4. IndexInv
    BY <1>2 DEF IndexInv
  <1> QED BY <1>1, <1>3, <1>4 DEF AppendInv

\* A transaction that ends without committing takes nothing but itself away.
LEMMA EndPreserves ==
  ASSUME AppendInv, NEW w \in Writer, Close(w), UNCHANGED <<ledger, seq>>
  PROVE  AppendInv'
  <1> USE DEF AppendInv
  <1>1. \A v \in Writer : v # w => appends'[v] = appends[v] /\ pending'[v] = pending[v]
    BY DEF Close, AppendTypeOK
  <1>2. appends'[w] = Closed /\ pending'[w] = {}
    BY DEF Close, AppendTypeOK
  <1>3. \A e : IsRow(e)' => IsRow(e)
    BY <1>1, <1>2 DEF IsRow
  <1>4. AppendTypeOK'
    <2>1. Closed \in AppendTx
      BY TsAssumption DEF Closed, AppendTx
    <2> QED BY <2>1 DEF AppendTypeOK, Close
  <1>5. OpenInv'
    BY <1>1, <1>2 DEF OpenInv, Closed
  <1>6. NumberInv'
    BY <1>1, <1>2, <1>3 DEF NumberInv, Closed
  <1>7. IndexInv'
    BY <1>3 DEF IndexInv, SameKey
  <1>8. JustifiedInv'
    <2>1. ASSUME NEW v \in Writer, v # w PROVE Visible(v)' = Visible(v)
      BY <1>1, <2>1 DEF Visible
    <2>2. appends'[w].pc = "idle" /\ pending'[w] = {}
      BY <1>2 DEF Closed
    <2> QED BY <1>1, <2>1, <2>2 DEF JustifiedInv, Justified
  <1> QED BY <1>4, <1>5, <1>6, <1>7, <1>8

\* Opening a transaction writes no row.
LEMMA BeginPreserves ==
  ASSUME AppendInv, NEW w \in Writer, NEW tenant \in Tenant,
         NEW request \in Request \cup {Nil}, Open(w, tenant, request)
  PROVE  AppendInv'
  <1> USE DEF AppendInv
  <1> PICK t : t = [Closed EXCEPT !.pc = "open", !.tenant = tenant, !.request = request]
    OBVIOUS
  <1>1. /\ t \in AppendTx /\ t.pc = "open" /\ t.tenant = tenant
    <2>1. t = [pc |-> "open", tenant |-> tenant, request |-> request,
               input |-> Nil, ts |-> 0]
      BY DEF Closed
    <2> QED BY <2>1, TsAssumption DEF AppendTx
  <1>2. appends' = [appends EXCEPT ![w] = t] /\ UNCHANGED <<ledger, seq, pending>>
    BY DEF Open
  <1>3. appends'[w] = t /\ \A v \in Writer : v # w => appends'[v] = appends[v]
    BY <1>2 DEF AppendTypeOK
  <1>4. AppendTypeOK'
    BY <1>1, <1>2 DEF AppendTypeOK
  <1>5. \A e : IsRow(e)' <=> IsRow(e)
    BY <1>2 DEF IsRow
  <1>6. OpenInv'
    BY <1>1, <1>2, <1>3 DEF OpenInv, Open
  <1>7. NumberInv'
    BY <1>1, <1>2, <1>3, <1>5 DEF NumberInv
  <1>8. IndexInv'
    BY <1>5 DEF IndexInv, SameKey
  <1>9. JustifiedInv'
    <2>1. \A v \in Writer : Visible(v)' = Visible(v)
      BY <1>2 DEF Visible
    <2> QED BY <1>1, <1>2, <1>3, <2>1 DEF JustifiedInv, Justified
  <1> QED BY <1>4, <1>6, <1>7, <1>8, <1>9

\* The checks of commit() justify the supersession the row will make.
LEMMA AppendPreserves ==
  ASSUME AppendInv, NEW w \in Writer, NEW input \in Input, Append(w, input)
  PROVE  AppendInv'
  <1> USE DEF AppendInv
  <1> PICK t : t = [appends[w] EXCEPT !.pc = "number", !.input = input]
    OBVIOUS
  <1>1. /\ t \in AppendTx /\ t.pc = "number" /\ t.input = input
        /\ t.tenant = appends[w].tenant
    BY DEF AppendTypeOK, AppendTx
  <1>2. appends' = [appends EXCEPT ![w] = t] /\ UNCHANGED <<ledger, seq, pending>>
    BY DEF Append
  <1>3. appends'[w] = t /\ \A v \in Writer : v # w => appends'[v] = appends[v]
    BY <1>2 DEF AppendTypeOK
  <1>4. AppendTypeOK'
    BY <1>1, <1>2 DEF AppendTypeOK
  <1>5. \A e : IsRow(e)' <=> IsRow(e)
    BY <1>2 DEF IsRow
  <1>6. OpenInv'
    BY <1>1, <1>2, <1>3 DEF OpenInv, Append
  <1>7. NumberInv'
    BY <1>1, <1>2, <1>3, <1>5 DEF NumberInv
  <1>8. IndexInv'
    BY <1>5 DEF IndexInv, SameKey
  <1>9. Justified(Visible(w), appends[w].tenant, input.actor, input.supersedes, seq + 1)
    <2> SUFFICES ASSUME input.supersedes # 0
                 PROVE  \E d \in Visible(w) :
                          /\ d.ts = input.supersedes /\ d.tenant = appends[w].tenant
                          /\ d.ts < seq + 1 /\ Level(d.actor) < Level(input.actor)
      BY DEF Justified
    <2>1. PICK d \in Visible(w) :
            /\ d.ts = input.supersedes /\ d.tenant = appends[w].tenant
            /\ Level(input.actor) > Level(d.actor)
      BY DEF Append, MaySupersede, Outranks
    <2>2. d \in Commit /\ d.ts <= seq
      BY DEF Visible, AppendTypeOK, NumberInv, IsRow
    <2>3. Level(d.actor) \in 1..4 /\ Level(input.actor) \in 1..4
      BY <2>2, LevelType DEF Commit, Input
    <2> QED BY <2>1, <2>2, <2>3 DEF Commit, AppendTypeOK
  <1>10. JustifiedInv'
    <2>1. \A v \in Writer : Visible(v)' = Visible(v)
      BY <1>2 DEF Visible
    <2> QED BY <1>1, <1>2, <1>3, <1>9, <2>1 DEF JustifiedInv, Justified
  <1> QED BY <1>4, <1>6, <1>7, <1>8, <1>10

\* A number drawn is above every number drawn before.
LEMMA NextTsPreserves ==
  ASSUME AppendInv, NEW w \in Writer, NextTs(w)
  PROVE  AppendInv'
  <1> USE DEF AppendInv
  <1> PICK t : t = [appends[w] EXCEPT !.pc = "insert", !.ts = seq + 1]
    OBVIOUS
  <1>0. seq \in Nat /\ seq + 1 \in 1..MaxTs
    BY TsAssumption DEF AppendTypeOK, NextTs
  <1>1. /\ t \in AppendTx /\ t.pc = "insert" /\ t.input = appends[w].input
        /\ t.tenant = appends[w].tenant /\ t.ts = seq + 1
    <2>1. seq + 1 \in 0..MaxTs
      BY <1>0, TsAssumption
    <2> QED BY <2>1 DEF AppendTypeOK, AppendTx
  <1>2. /\ appends' = [appends EXCEPT ![w] = t] /\ seq' = seq + 1
        /\ UNCHANGED <<ledger, pending>>
    BY DEF NextTs
  <1>3. appends'[w] = t /\ \A v \in Writer : v # w => appends'[v] = appends[v]
    BY <1>2 DEF AppendTypeOK
  <1>4. AppendTypeOK'
    BY <1>0, <1>1, <1>2 DEF AppendTypeOK
  <1>5. \A e : IsRow(e)' <=> IsRow(e)
    BY <1>2 DEF IsRow
  <1>6. OpenInv'
    BY <1>1, <1>2, <1>3 DEF OpenInv, NextTs
  <1>7. \A e : IsRow(e) => e.ts \in Nat /\ e.ts <= seq
    BY DEF NumberInv, IsRow, AppendTypeOK, Commit
  <1>8. NumberInv'
    <2>1. \A v \in Writer : appends[v].pc = "insert" => appends[v].ts \in 1..seq
      BY DEF NumberInv
    <2> QED BY <1>0, <1>1, <1>2, <1>3, <1>5, <1>7, <2>1 DEF NumberInv
  <1>9. IndexInv'
    BY <1>5 DEF IndexInv, SameKey
  <1>10. JustifiedInv'
    <2>1. \A v \in Writer : Visible(v)' = Visible(v)
      BY <1>2 DEF Visible
    <2>2. ASSUME NEW v \in Writer, NEW tenant, NEW actor, NEW target,
                 Justified(Visible(v), tenant, actor, target, seq + 1)
          PROVE  Justified(Visible(v), tenant, actor, target, seq + 1 + 1)
      <3>1. \A d \in Visible(v) : d.ts \in Nat
        BY <1>7 DEF Visible, IsRow
      <3> QED BY <2>2, <3>1, <1>0 DEF Justified
    <2>3. \A e \in ledger : Justified(ledger', e.tenant, e.actor, e.supersedes, e.ts)
      BY <1>2 DEF JustifiedInv
    <2>4. \A v \in Writer : \A e \in pending[v] :
            Justified(Visible(v)', e.tenant, e.actor, e.supersedes, e.ts)
      BY <2>1 DEF JustifiedInv
    <2>5. ASSUME NEW v \in Writer, appends'[v].pc = "number"
          PROVE  Justified(Visible(v)', appends'[v].tenant, appends'[v].input.actor,
                           appends'[v].input.supersedes, seq' + 1)
      <3>1. v # w /\ appends'[v] = appends[v]
        BY <2>5, <1>1, <1>3
      <3> QED BY <2>1, <2>2, <2>5, <3>1, <1>2 DEF JustifiedInv
    <2>6. ASSUME NEW v \in Writer, appends'[v].pc = "insert"
          PROVE  Justified(Visible(v)', appends'[v].tenant, appends'[v].input.actor,
                           appends'[v].input.supersedes, appends'[v].ts)
      <3>1. CASE v = w
        <4>1. appends[w].pc = "number"
          BY DEF NextTs
        <4>2. Justified(Visible(w), appends[w].tenant, appends[w].input.actor,
                        appends[w].input.supersedes, seq + 1)
          BY <4>1 DEF JustifiedInv
        <4> QED BY <3>1, <4>2, <1>1, <1>3, <2>1
      <3>2. CASE v # w
        BY <3>2, <2>6, <1>3, <2>1 DEF JustifiedInv
      <3> QED BY <3>1, <3>2
    <2> QED BY <1>2, <2>3, <2>4, <2>5, <2>6 DEF JustifiedInv
  <1> QED BY <1>4, <1>6, <1>8, <1>9, <1>10

\* An INSERT that fails ends its transaction; one that succeeds meets no row
\* with its keys, committed or not, and brings its justification with it.
LEMMA InsertPreserves ==
  ASSUME AppendInv, NEW w \in Writer, Insert(w)
  PROVE  AppendInv'
  <1> USE DEF AppendInv
  <1> PICK r : r = Row(appends[w])
    OBVIOUS
  <1>0. appends[w].pc = "insert" /\ appends[w] \in AppendTx
    BY DEF Insert, AppendTypeOK
  <1>1. CASE \E e \in Visible(w) : SameKey(r, e)
    <2>1. Close(w) /\ UNCHANGED <<ledger, seq>>
      BY <1>1 DEF Insert
    <2> QED BY <2>1, EndPreserves
  <1>2. CASE ~ \E e \in Visible(w) : SameKey(r, e)
    <2> PICK t : t = [appends[w] EXCEPT !.pc = "open", !.input = Nil, !.ts = 0]
      OBVIOUS
    <2>1. t \in AppendTx /\ t.pc = "open" /\ t.tenant = appends[w].tenant
      <3>1. 0 \in 0..MaxTs
        BY TsAssumption
      <3> QED BY <1>0, <3>1 DEF AppendTx
    <2>2. /\ appends' = [appends EXCEPT ![w] = t]
          /\ pending' = [pending EXCEPT ![w] = @ \cup {r}]
          /\ UNCHANGED <<ledger, seq>>
          /\ \A v \in Writer : \A e \in pending[v] : ~SameKey(r, e)
      BY <1>2 DEF Insert
    <2>3. /\ appends'[w] = t /\ pending'[w] = pending[w] \cup {r}
          /\ \A v \in Writer : v # w => appends'[v] = appends[v] /\ pending'[v] = pending[v]
      BY <2>2 DEF AppendTypeOK
    <2>4. /\ r \in Commit /\ r.ts = appends[w].ts /\ r.tenant = appends[w].tenant
          /\ r.actor = appends[w].input.actor /\ r.supersedes = appends[w].input.supersedes
      <3>1. /\ appends[w].input \in Input /\ appends[w].tenant \in Tenant
            /\ appends[w].ts \in 1..MaxTs /\ appends[w].request \in Request \cup {Nil}
        <4>1. appends[w].ts \in 1..seq /\ seq \in 0..MaxTs
          BY <1>0 DEF NumberInv, AppendTypeOK
        <4>2. appends[w].ts \in 1..MaxTs
          BY <4>1, TsAssumption
        <4> QED BY <1>0, <4>2 DEF OpenInv, AppendTx
      <3> QED BY <3>1 DEF Row, Commit, Input
    <2>5. \A e : IsRow(e)' <=> IsRow(e) \/ e = r
      BY <2>2, <2>3 DEF IsRow
    <2>6. AppendTypeOK'
      BY <2>1, <2>2, <2>4 DEF AppendTypeOK
    <2>7. OpenInv'
      BY <2>1, <2>3, <1>0 DEF OpenInv
    <2>8. NumberInv'
      <3>1. r.ts \in 1..seq
        BY <1>0, <2>4 DEF NumberInv
      <3> QED BY <1>0, <2>1, <2>2, <2>3, <2>4, <2>5, <3>1 DEF NumberInv, AppendTypeOK
    <2>9. IndexInv'
      <3>1. \A e : IsRow(e) => ~SameKey(r, e) /\ e.ts # r.ts
        BY <1>0, <1>2, <2>2, <2>4 DEF IsRow, Visible, NumberInv
      <3>2. \A e : SameKey(e, r) => SameKey(r, e)
        BY DEF SameKey
      <3>3. \A e, d : SameKey(e, d)' <=> SameKey(e, d)
        BY DEF SameKey
      <3> QED BY <2>5, <3>1, <3>2, <3>3 DEF IndexInv
    <2>10. JustifiedInv'
      <3>1. \A v \in Writer : Visible(v) \subseteq Visible(v)'
        BY <2>2, <2>3 DEF Visible
      <3>2. \A e \in ledger : Justified(ledger', e.tenant, e.actor, e.supersedes, e.ts)
        BY <2>2 DEF JustifiedInv
      <3>3. Justified(Visible(w)', r.tenant, r.actor, r.supersedes, r.ts)
        <4>1. Justified(Visible(w), r.tenant, r.actor, r.supersedes, r.ts)
          BY <1>0, <2>4 DEF JustifiedInv
        <4> QED BY <3>1, <4>1, JustifiedMonotone
      <3>4. ASSUME NEW v \in Writer, NEW e \in pending'[v]
            PROVE  Justified(Visible(v)', e.tenant, e.actor, e.supersedes, e.ts)
        <4>1. CASE e \in pending[v]
          <5>1. Justified(Visible(v), e.tenant, e.actor, e.supersedes, e.ts)
            BY <4>1 DEF JustifiedInv
          <5> QED BY <5>1, <3>1, JustifiedMonotone
        <4>2. CASE v = w /\ e = r
          BY <4>2, <3>3
        <4> QED BY <4>1, <4>2, <3>4, <2>3
      <3>5. ASSUME NEW v \in Writer, appends'[v].pc \in {"number", "insert"}
            PROVE  v # w /\ appends'[v] = appends[v]
        BY <3>5, <2>1, <2>3
      <3>6. ASSUME NEW v \in Writer, appends'[v].pc = "number"
            PROVE  Justified(Visible(v)', appends'[v].tenant, appends'[v].input.actor,
                             appends'[v].input.supersedes, seq' + 1)
        <4>1. Justified(Visible(v), appends[v].tenant, appends[v].input.actor,
                        appends[v].input.supersedes, seq + 1)
          BY <3>5, <3>6 DEF JustifiedInv
        <4>2. Justified(Visible(v)', appends[v].tenant, appends[v].input.actor,
                        appends[v].input.supersedes, seq + 1)
          BY <4>1, <3>1, JustifiedMonotone
        <4> QED BY <4>2, <3>5, <3>6, <2>2
      <3>7. ASSUME NEW v \in Writer, appends'[v].pc = "insert"
            PROVE  Justified(Visible(v)', appends'[v].tenant, appends'[v].input.actor,
                             appends'[v].input.supersedes, appends'[v].ts)
        <4>1. Justified(Visible(v), appends[v].tenant, appends[v].input.actor,
                        appends[v].input.supersedes, appends[v].ts)
          BY <3>5, <3>7 DEF JustifiedInv
        <4>2. Justified(Visible(v)', appends[v].tenant, appends[v].input.actor,
                        appends[v].input.supersedes, appends[v].ts)
          BY <4>1, <3>1, JustifiedMonotone
        <4> QED BY <4>2, <3>5, <3>7
      <3> QED BY <2>2, <3>2, <3>4, <3>6, <3>7 DEF JustifiedInv
    <2> QED BY <2>6, <2>7, <2>8, <2>9, <2>10
  <1> QED BY <1>1, <1>2

\* COMMIT moves rows from the transaction to the ledger: the table is the same.
LEMMA CommitPreserves ==
  ASSUME AppendInv, NEW w \in Writer, CommitAppends(w)
  PROVE  AppendInv'
  <1> USE DEF AppendInv
  <1>1. /\ appends' = [appends EXCEPT ![w] = Closed] /\ pending' = [pending EXCEPT ![w] = {}]
        /\ ledger' = ledger \cup pending[w] /\ seq' = seq
    BY DEF CommitAppends, Close
  <1>2. /\ appends'[w] = Closed /\ pending'[w] = {}
        /\ \A v \in Writer : v # w => appends'[v] = appends[v] /\ pending'[v] = pending[v]
    BY <1>1 DEF AppendTypeOK
  <1>3. \A e : IsRow(e)' <=> IsRow(e)
    BY <1>1, <1>2 DEF IsRow
  <1>4. AppendTypeOK'
    <2>1. Closed \in AppendTx
      BY TsAssumption DEF Closed, AppendTx
    <2> QED BY <1>1, <2>1 DEF AppendTypeOK
  <1>5. OpenInv'
    BY <1>2 DEF OpenInv, Closed
  <1>6. NumberInv'
    BY <1>1, <1>2, <1>3 DEF NumberInv, Closed
  <1>7. IndexInv'
    BY <1>3 DEF IndexInv, SameKey
  <1>8. JustifiedInv'
    <2>1. /\ ledger \subseteq ledger' /\ Visible(w) \subseteq ledger'
          /\ \A v \in Writer : v # w => Visible(v) \subseteq Visible(v)'
      BY <1>1, <1>2 DEF Visible
    <2>2. ASSUME NEW e \in ledger'
          PROVE  Justified(ledger', e.tenant, e.actor, e.supersedes, e.ts)
      <3>1. \/ Justified(ledger, e.tenant, e.actor, e.supersedes, e.ts)
            \/ Justified(Visible(w), e.tenant, e.actor, e.supersedes, e.ts)
        BY <1>1 DEF JustifiedInv
      <3> QED BY <3>1, <2>1, JustifiedMonotone
    <2>3. ASSUME NEW v \in Writer, NEW e \in pending'[v]
          PROVE  Justified(Visible(v)', e.tenant, e.actor, e.supersedes, e.ts)
      <3>1. v # w /\ e \in pending[v]
        BY <1>2, <2>3
      <3>2. Justified(Visible(v), e.tenant, e.actor, e.supersedes, e.ts)
        BY <3>1 DEF JustifiedInv
      <3> QED BY <3>1, <3>2, <2>1, JustifiedMonotone
    <2>4. ASSUME NEW v \in Writer, appends'[v].pc \in {"number", "insert"}
          PROVE  v # w /\ appends'[v] = appends[v]
      BY <2>4, <1>2 DEF Closed
    <2>5. ASSUME NEW v \in Writer, appends'[v].pc = "number"
          PROVE  Justified(Visible(v)', appends'[v].tenant, appends'[v].input.actor,
                           appends'[v].input.supersedes, seq' + 1)
      <3>1. Justified(Visible(v), appends[v].tenant, appends[v].input.actor,
                      appends[v].input.supersedes, seq + 1)
        BY <2>4, <2>5 DEF JustifiedInv
      <3>2. Justified(Visible(v)', appends[v].tenant, appends[v].input.actor,
                      appends[v].input.supersedes, seq + 1)
        BY <3>1, <2>1, <2>4, <2>5, JustifiedMonotone
      <3> QED BY <3>2, <2>4, <2>5, <1>1
    <2>6. ASSUME NEW v \in Writer, appends'[v].pc = "insert"
          PROVE  Justified(Visible(v)', appends'[v].tenant, appends'[v].input.actor,
                           appends'[v].input.supersedes, appends'[v].ts)
      <3>1. Justified(Visible(v), appends[v].tenant, appends[v].input.actor,
                      appends[v].input.supersedes, appends[v].ts)
        BY <2>4, <2>6 DEF JustifiedInv
      <3>2. Justified(Visible(v)', appends[v].tenant, appends[v].input.actor,
                      appends[v].input.supersedes, appends[v].ts)
        BY <3>1, <2>1, <2>4, <2>6, JustifiedMonotone
      <3> QED BY <3>2, <2>4, <2>6
    <2> QED BY <2>2, <2>3, <2>5, <2>6 DEF JustifiedInv
  <1> QED BY <1>4, <1>5, <1>6, <1>7, <1>8

(***************************************************************************)
(* The invariant of the append pipeline: numbers and keys are unique over  *)
(* committed and open rows alike, and every supersession is justified by   *)
(* rows that can only become more visible.                                 *)
(***************************************************************************)
THEOREM AppendInvariant == AppendSpec => []AppendInv
  <1>1. AppendInv /\ [AppendNext]_appendVars => AppendInv'
    <2> SUFFICES ASSUME AppendInv, [AppendNext]_appendVars PROVE AppendInv'
      OBVIOUS
    <2>1. CASE AppendNext
      <3> PICK w \in Writer :
            \/ \E tenant \in Tenant, request \in Request \cup {Nil} :
                 Open(w, tenant, request)
            \/ \E input \in Input : Append(w, input)
            \/ NextTs(w) \/ Insert(w) \/ CommitAppends(w) \/ RollbackAppends(w)
        BY <2>1 DEF AppendNext
      <3>1. CASE \E tenant \in Tenant, request \in Request \cup {Nil} :
                   Open(w, tenant, request)
        BY <3>1, BeginPreserves
      <3>2. CASE \E input \in Input : Append(w, input)
        BY <3>2, AppendPreserves
      <3>3. CASE NextTs(w)
        BY <3>3, NextTsPreserves
      <3>4. CASE Insert(w)
        BY <3>4, InsertPreserves
      <3>5. CASE CommitAppends(w)
        BY <3>5, CommitPreserves
      <3>6. CASE RollbackAppends(w)
        BY <3>6, EndPreserves DEF RollbackAppends
      <3> QED BY <3>1, <3>2, <3>3, <3>4, <3>5, <3>6
    <2>2. CASE UNCHANGED appendVars
      <3>1. /\ ledger' = ledger /\ seq' = seq /\ pending' = pending /\ appends' = appends
        BY <2>2 DEF appendVars
      <3>2. \A e : IsRow(e)' <=> IsRow(e)
        BY <3>1 DEF IsRow
      <3>3. AppendTypeOK' /\ OpenInv' /\ NumberInv'
        BY <3>1, <3>2 DEF AppendInv, AppendTypeOK, OpenInv, NumberInv
      <3>4. IndexInv' /\ JustifiedInv'
        BY <3>1, <3>2 DEF AppendInv, IndexInv, SameKey, JustifiedInv, Visible, Justified
      <3> QED BY <3>3, <3>4 DEF AppendInv
    <2> QED BY <2>1, <2>2
  <1> QED BY <1>1, InitInv, PTL DEF AppendSpec

\* Rows, numbers and open transactions are well typed.
THEOREM AppendTyping == AppendSpec => []AppendTypeOK
  <1>1. AppendInv => AppendTypeOK
    BY DEF AppendInv
  <1> QED BY <1>1, AppendInvariant, PTL

\* No commit is superseded twice, whatever overrides run concurrently.
THEOREM SupersessionIsUnique == AppendSpec => []SupersededOnce
  <1>1. AppendInv => SupersededOnce
    BY DEF AppendInv, IndexInv, IsRow, SameKey, SupersededOnce
  <1> QED BY <1>1, AppendInvariant, PTL

\* Along a chain of overrides the authority rises strictly.
THEOREM OverridesEscalate == AppendSpec => []AuthorityRises
  <1>1. AppendInv => AuthorityRises
    BY DEF AppendInv, JustifiedInv, Justified, AuthorityRises
  <1> QED BY <1>1, AppendInvariant, PTL

\* A request is in the ledger of a tenant at most once, however it is retried.
THEOREM ExactlyOnce == AppendSpec => []OncePerRequest
  <1>1. AppendInv => OncePerRequest
    BY DEF AppendInv, IndexInv, IsRow, SameKey, OncePerRequest
  <1> QED BY <1>1, AppendInvariant, PTL
=============================================================================
