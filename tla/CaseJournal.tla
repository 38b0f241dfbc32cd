---------------------------- MODULE CaseJournal ----------------------------
(***************************************************************************)
(* What the lifecycle authority promises, with transactions, row locks and *)
(* sequences abstracted away: a case is opened in INTAKE, and then moves,  *)
(* one permitted edge at a time, each move written in the same step to a   *)
(* journal that is only added to, after everything it says of that case.   *)
(***************************************************************************)
EXTENDS CaseLifecycle, Integers

CONSTANTS
  Case,     \* cases of one tenant
  Absent,   \* the stage of a case that has not been created
  Stamp     \* the sequence numbers a journal entry may carry

\* What a module that implements the journal owes it.
AbsentIsNoLifecycle == Absent \notin Lifecycle
StampsAreNumbers == Stamp \subseteq Nat

VARIABLES
  stage,    \* the lifecycle of every case
  journal   \* the moves made: a set of entries [case, n, from, to]

vars == <<stage, journal>>

Entry == [case: Case, n: Stamp, from: Lifecycle, to: Lifecycle]

EntriesOf(c) == {e \in journal : e.case = c}

Init ==
  /\ stage = [c \in Case |-> Absent]
  /\ journal = {}

Open(c) ==
  /\ stage[c] = Absent
  /\ stage' = [stage EXCEPT ![c] = "INTAKE"]
  /\ UNCHANGED journal

Move(c, to) ==
  /\ CanMove(stage[c], to)
  /\ \E n \in Stamp :
       /\ \A e \in EntriesOf(c) : e.n < n
       /\ journal' = journal \cup
            {[case |-> c, n |-> n, from |-> stage[c], to |-> to]}
  /\ stage' = [stage EXCEPT ![c] = to]

Next == \E c \in Case : Open(c) \/ \E to \in Lifecycle : Move(c, to)

Spec == Init /\ [][Next]_vars

-----------------------------------------------------------------------------
\* Stages are lifecycles and the journal holds well-formed entries.
TypeOK ==
  /\ stage \in [Case -> Lifecycle \cup {Absent}]
  /\ journal \subseteq Entry

\* d is the entry of its case that directly follows e.
Follows(e, d) ==
  /\ d.case = e.case /\ e.n < d.n
  /\ \A x \in journal : x.case = e.case => ~(e.n < x.n /\ x.n < d.n)

First(e) == \A x \in journal : x.case = e.case => e.n <= x.n
Last(e)  == \A x \in journal : x.case = e.case => x.n <= e.n

(***************************************************************************)
(* The journal of a case, read in order, is the path the case has taken:   *)
(* it starts from INTAKE, every entry starts where the one before it       *)
(* ended, every entry is a permitted edge, and the case stands where the   *)
(* last entry ended.                                                       *)
(***************************************************************************)
JournalIsThePath ==
  /\ \A e \in journal : CanMove(e.from, e.to)
  /\ \A e \in journal : First(e) => e.from = "INTAKE"
  /\ \A e, d \in journal : Follows(e, d) => d.from = e.to
  /\ \A e \in journal : Last(e) => stage[e.case] = e.to
  /\ \A c \in Case : EntriesOf(c) = {} => stage[c] \in {Absent, "INTAKE"}
  /\ \A e, d \in journal : e.case = d.case /\ e.n = d.n => e = d
=============================================================================
