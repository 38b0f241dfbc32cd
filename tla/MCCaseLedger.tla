---------------------------- MODULE MCCaseLedger ----------------------------
(***************************************************************************)
(* CaseLedger for TLC, next to the replay loop as the code writes it.      *)
(***************************************************************************)
EXTENDS CaseLedger, LedgerReplay

\* The SELECT of reconcileCaseLifecycle(): the events of a case ORDER BY ts.
EventsOf(c) ==
  LET rank(e) == Cardinality({d \in CommitsOf(c) : d.ts <= e.ts})
  IN  [i \in 1..Cardinality(CommitsOf(c)) |->
         (CHOOSE e \in CommitsOf(c) : rank(e) = i).event]

(***************************************************************************)
(* The loop over the ordered events of deriveLifecycleFromLedger() returns *)
(* what CaseLedger's closed form says, on every ledger the services can    *)
(* produce: the last commit that has an effect decides.                    *)
(***************************************************************************)
ReplayIsByLastEffect ==
  \A c \in Case : deriveLifecycleFromLedger(EventsOf(c)) = Derived(c)
=============================================================================
