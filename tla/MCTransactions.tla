--------------------------- MODULE MCTransactions ---------------------------
(***************************************************************************)
(* The transactions that append to the ledger and those on the execution   *)
(* of a case, for TLC.  Each module is about one of them and they share no *)
(* state, so that they need not interleave: which of the two a behaviour   *)
(* is about is chosen at its start, and the other stays as it began.       *)
(***************************************************************************)
EXTENDS LedgerAppend, Execution

VARIABLE subject

transactionVars == <<subject, appendVars, exvars>>

Subject == {"appends", "execution"}

\* A case that intake made has a round, another has none; the ledger does not care which.
TransactionsInit ==
  /\ subject \in Subject
  /\ AppendInit /\ ExecutionInit
  /\ subject = "appends" => rounds = 0

TransactionsNext ==
  \/ subject = "appends" /\ AppendNext /\ UNCHANGED <<subject, exvars>>
  \/ subject = "execution" /\ ExecutionNext /\ UNCHANGED <<subject, appendVars>>

\* The fairness of AppendFairSpec and of FairSpec, of the one that runs.
TransactionsFairness ==
  \A w \in Writer \cup Worker :
    /\ WF_transactionVars(/\ subject = "appends" /\ w \in Writer
                          /\ (NextTs(w) \/ CommitAppends(w)) /\ UNCHANGED <<subject, exvars>>)
    /\ SF_transactionVars(\/ /\ subject = "appends" /\ w \in Writer
                             /\ Insert(w) /\ UNCHANGED <<subject, exvars>>
                          \/ /\ subject = "execution" /\ w \in Worker
                             /\ Step(w) /\ UNCHANGED <<subject, appendVars>>)

TransactionsSpec ==
  TransactionsInit /\ [][TransactionsNext]_transactionVars /\ TransactionsFairness
-----------------------------------------------------------------------------
(***************************************************************************)
(* EveryTransactionEnds of LedgerAppend and CallsEnd of Execution, of the  *)
(* one that runs: no transaction of either waits for ever.                 *)
(***************************************************************************)
NoTransactionStays ==
  \A w \in Writer \cup Worker :
    LET busy == \/ w \in Writer /\ appends[w].pc # "idle"
                \/ w \in Worker /\ tx[w].pc # "idle"
    IN  busy ~> ~busy
=============================================================================
