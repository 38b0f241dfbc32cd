------------------------- MODULE CaseJournal_proofs -------------------------
(***************************************************************************)
(* The abstract journal keeps its promise for every set of cases and every *)
(* set of sequence numbers, given that Absent is no lifecycle and that the *)
(* sequence numbers are numbers.                                           *)
(***************************************************************************)
EXTENDS CaseJournal, TLAPS

\* The edges of the transition law connect lifecycles.
LEMMA EdgesAreLifecycles ==
  ASSUME NEW a, NEW b, CanMove(a, b)
  PROVE  a \in Lifecycle /\ b \in Lifecycle
BY DEF CanMove, Transitions, Lifecycle

\* No step breaks the types.
LEMMA TypingStep == TypeOK /\ [Next]_vars => TypeOK'
<1> SUFFICES ASSUME TypeOK, [Next]_vars PROVE TypeOK'
  OBVIOUS
<1>1. ASSUME NEW c \in Case, Open(c) PROVE TypeOK'
  BY <1>1 DEF TypeOK, Open, Lifecycle
<1>2. ASSUME NEW c \in Case, NEW to \in Lifecycle, Move(c, to) PROVE TypeOK'
  <2>1. stage[c] \in Lifecycle
    BY <1>2, EdgesAreLifecycles DEF Move
  <2>2. PICK n \in Stamp :
          journal' = journal \cup {[case |-> c, n |-> n, from |-> stage[c], to |-> to]}
    BY <1>2 DEF Move
  <2>3. [case |-> c, n |-> n, from |-> stage[c], to |-> to] \in Entry
    BY <2>1 DEF Entry
  <2> QED
    BY <1>2, <2>2, <2>3 DEF TypeOK, Move
<1>3. CASE UNCHANGED vars
  BY <1>3 DEF vars, TypeOK
<1> QED
  BY <1>1, <1>2, <1>3 DEF Next

\* The journal holds entries and every case has a stage, whatever happens.
THEOREM JournalTyping == Spec => []TypeOK
<1>1. Init => TypeOK
  BY DEF Init, TypeOK
<1> QED
  BY <1>1, TypingStep, PTL DEF Spec

\* The strengthening: a case that has entries has a last one.  (It is what
\* says that a case without a row has no entries, which Open needs.)
HasLast(c) == EntriesOf(c) # {} => \E e \in EntriesOf(c) : Last(e)

JournalInv == TypeOK /\ JournalIsThePath /\ \A c \in Case : HasLast(c)

\* The invariant holds in the initial state.
LEMMA JournalInvInit == Init => JournalInv
BY DEF Init, JournalInv, TypeOK, JournalIsThePath, HasLast, EntriesOf

\* Opening a case, which has no entries, preserves the invariant.
LEMMA OpenPreserves ==
  ASSUME AbsentIsNoLifecycle, JournalInv, NEW c \in Case, Open(c), TypeOK'
  PROVE  JournalInv'
<1>1. EntriesOf(c) = {}
  <2> SUFFICES ASSUME EntriesOf(c) # {} PROVE FALSE
    OBVIOUS
  <2>1. PICK e \in EntriesOf(c) : Last(e)
    BY DEF JournalInv, HasLast
  <2>2. e \in journal /\ e.case = c
    BY <2>1 DEF EntriesOf
  <2>3. e.to \in Lifecycle
    BY <2>2 DEF JournalInv, TypeOK, Entry
  <2>4. stage[c] = e.to
    BY <2>1, <2>2 DEF JournalInv, JournalIsThePath
  <2> QED
    BY <2>3, <2>4, AbsentIsNoLifecycle DEF Open, AbsentIsNoLifecycle
<1>2. journal' = journal
  BY DEF Open
<1>3. \A d \in Case : d # c => stage'[d] = stage[d]
  BY DEF Open, JournalInv, TypeOK
<1>4. stage'[c] = "INTAKE"
  BY DEF Open, JournalInv, TypeOK
<1>5. \A e \in journal : e.case \in Case /\ e.case # c
  BY <1>1 DEF EntriesOf, JournalInv, TypeOK, Entry
<1>6. JournalIsThePath'
  <2>1. \A e \in journal' : CanMove(e.from, e.to)
    BY <1>2 DEF JournalInv, JournalIsThePath
  <2>2. \A e \in journal' : First(e)' => e.from = "INTAKE"
    BY <1>2 DEF JournalInv, JournalIsThePath, First
  <2>3. \A e, d \in journal' : Follows(e, d)' => d.from = e.to
    BY <1>2 DEF JournalInv, JournalIsThePath, Follows
  <2>4. \A e \in journal' : Last(e)' => stage'[e.case] = e.to
    BY <1>2, <1>3, <1>5 DEF JournalInv, JournalIsThePath, Last
  <2>5. \A d \in Case : EntriesOf(d)' = {} => stage'[d] \in {Absent, "INTAKE"}
    BY <1>2, <1>3, <1>4 DEF JournalInv, JournalIsThePath, EntriesOf
  <2>6. \A e, d \in journal' : e.case = d.case /\ e.n = d.n => e = d
    BY <1>2 DEF JournalInv, JournalIsThePath
  <2> QED
    BY <2>1, <2>2, <2>3, <2>4, <2>5, <2>6 DEF JournalIsThePath
<1>7. \A d \in Case : HasLast(d)'
  BY <1>2 DEF JournalInv, HasLast, EntriesOf, Last
<1> QED
  BY <1>6, <1>7 DEF JournalInv

(***************************************************************************)
(* A move appends an entry above all those of its case, which starts at    *)
(* the case's stage, and so preserves the invariant.                       *)
(***************************************************************************)
LEMMA MovePreserves ==
  ASSUME AbsentIsNoLifecycle, StampsAreNumbers,
         JournalInv, NEW c \in Case, NEW to \in Lifecycle, Move(c, to), TypeOK'
  PROVE  JournalInv'
<1>1. PICK n \in Stamp :
        /\ \A e \in EntriesOf(c) : e.n < n
        /\ journal' = journal \cup
             {[case |-> c, n |-> n, from |-> stage[c], to |-> to]}
  BY DEF Move
<1>2. PICK new : new = [case |-> c, n |-> n, from |-> stage[c], to |-> to]
  OBVIOUS
<1>3. /\ journal' = journal \cup {new}
      /\ new.case = c /\ new.n = n /\ new.from = stage[c] /\ new.to = to
  BY <1>1, <1>2
<1>4. \A e \in journal : e.case \in Case /\ e.n \in Nat /\ (e.case = c => e.n < n)
  BY <1>1, StampsAreNumbers DEF JournalInv, TypeOK, Entry, EntriesOf, StampsAreNumbers
<1>5. n \in Nat
  BY StampsAreNumbers DEF StampsAreNumbers
<1>6. CanMove(stage[c], to) /\ stage[c] # Absent
  BY AbsentIsNoLifecycle, EdgesAreLifecycles DEF Move, AbsentIsNoLifecycle
<1>7. stage'[c] = to /\ \A d \in Case : d # c => stage'[d] = stage[d]
  BY DEF Move, JournalInv, TypeOK
<1>8. JournalIsThePath'
  <2>1. \A e \in journal' : CanMove(e.from, e.to)
    BY <1>3, <1>6 DEF JournalInv, JournalIsThePath
  <2>2. ASSUME NEW e \in journal', First(e)' PROVE e.from = "INTAKE"
    <3>1. CASE e \in journal
      <4>1. First(e)
        BY <2>2, <1>3 DEF First
      <4> QED
        BY <3>1, <4>1 DEF JournalInv, JournalIsThePath
    <3>2. CASE e = new
      <4>1. \A x \in journal : x.case # c
        BY <2>2, <3>2, <1>3, <1>4, <1>5 DEF First
      <4>2. EntriesOf(c) = {}
        BY <4>1 DEF EntriesOf
      <4>3. stage[c] = "INTAKE"
        BY <4>2, <1>6 DEF JournalInv, JournalIsThePath
      <4> QED
        BY <4>3, <3>2, <1>3
    <3> QED
      BY <3>1, <3>2, <1>3
  <2>3. ASSUME NEW e \in journal', NEW d \in journal', Follows(e, d)'
        PROVE  d.from = e.to
    <3>1. CASE e \in journal /\ d \in journal
      <4>1. Follows(e, d)
        BY <2>3, <1>3 DEF Follows
      <4> QED
        BY <3>1, <4>1 DEF JournalInv, JournalIsThePath
    <3>2. CASE e \in journal /\ d = new
      <4>1. e.case = c /\ \A x \in journal : x.case = c => ~(e.n < x.n)
        BY <2>3, <3>2, <1>3, <1>4 DEF Follows
      <4>2. Last(e)
        BY <4>1, <3>2, <1>4 DEF Last
      <4> QED
        BY <4>1, <4>2, <3>2, <1>3 DEF JournalInv, JournalIsThePath
    <3>3. CASE e = new
      BY <2>3, <3>3, <1>3, <1>4, <1>5 DEF Follows
    <3> QED
      BY <3>1, <3>2, <3>3, <1>3
  <2>4. ASSUME NEW e \in journal', Last(e)' PROVE stage'[e.case] = e.to
    <3>1. CASE e = new
      BY <3>1, <1>3, <1>7
    <3>2. CASE e \in journal /\ e # new
      <4>1. e.case # c
        BY <2>4, <3>2, <1>3, <1>4, <1>5 DEF Last
      <4>2. Last(e)
        BY <2>4, <1>3 DEF Last
      <4> QED
        BY <3>2, <4>1, <4>2, <1>4, <1>7 DEF JournalInv, JournalIsThePath
    <3> QED
      BY <3>1, <3>2, <1>3
  <2>5. \A d \in Case : EntriesOf(d)' = {} => stage'[d] \in {Absent, "INTAKE"}
    <3> SUFFICES ASSUME NEW d \in Case, EntriesOf(d)' = {}
                 PROVE  stage'[d] \in {Absent, "INTAKE"}
      OBVIOUS
    <3>1. d # c /\ EntriesOf(d) = {}
      BY <1>3 DEF EntriesOf
    <3> QED
      BY <3>1, <1>7 DEF JournalInv, JournalIsThePath
  <2>6. \A e, d \in journal' : e.case = d.case /\ e.n = d.n => e = d
    BY <1>3, <1>4, <1>5 DEF JournalInv, JournalIsThePath
  <2> QED
    BY <2>1, <2>2, <2>3, <2>4, <2>5, <2>6 DEF JournalIsThePath
<1>9. ASSUME NEW d \in Case PROVE HasLast(d)'
  <2>1. CASE d = c
    <3>1. Last(new)'
      BY <1>3, <1>4, <1>5 DEF Last
    <3>2. new \in EntriesOf(c)'
      BY <1>3 DEF EntriesOf
    <3> QED
      BY <2>1, <3>1, <3>2 DEF HasLast
  <2>2. CASE d # c
    <3>1. EntriesOf(d)' = EntriesOf(d)
      BY <2>2, <1>3 DEF EntriesOf
    <3>2. \A e \in EntriesOf(d) : Last(e) => Last(e)'
      BY <2>2, <1>3 DEF EntriesOf, Last
    <3> QED
      BY <3>1, <3>2 DEF JournalInv, HasLast
  <2> QED
    BY <2>1, <2>2
<1> QED
  BY <1>8, <1>9 DEF JournalInv

(***************************************************************************)
(* The journal of every case is the path the case has taken.               *)
(***************************************************************************)
THEOREM JournalCorrect ==
  ASSUME AbsentIsNoLifecycle, StampsAreNumbers
  PROVE  Spec => []JournalIsThePath
<1>1. JournalInv /\ [Next]_vars => JournalInv'
  <2> SUFFICES ASSUME JournalInv, [Next]_vars PROVE JournalInv'
    OBVIOUS
  <2>1. TypeOK'
    <3>1. TypeOK /\ [Next]_vars => TypeOK'
      BY TypingStep
    <3> QED
      BY <3>1 DEF JournalInv
  <2>2. ASSUME NEW c \in Case, Open(c) PROVE JournalInv'
    BY <2>1, <2>2, OpenPreserves
  <2>3. ASSUME NEW c \in Case, NEW to \in Lifecycle, Move(c, to) PROVE JournalInv'
    BY <2>1, <2>3, MovePreserves
  <2>4. CASE UNCHANGED vars
    BY <2>4 DEF vars, JournalInv, TypeOK, JournalIsThePath, HasLast, EntriesOf,
                First, Last, Follows
  <2> QED
    BY <2>2, <2>3, <2>4 DEF Next
<1>2. JournalInv => JournalIsThePath
  BY DEF JournalInv
<1> QED
  BY <1>1, <1>2, JournalInvInit, PTL DEF Spec

=============================================================================
