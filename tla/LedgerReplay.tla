---------------------------- MODULE LedgerReplay ----------------------------
(***************************************************************************)
(* deriveLifecycleFromLedger() as the code writes it: a loop over the      *)
(* events of a case in ts order that carries the lifecycle along.          *)
(***************************************************************************)
EXTENDS CaseLifecycle, SequencesExt

\* Variant: a switch with no arm that leaves the lifecycle alone.
ApplyOrReset(event, lifecycle) ==
  IF event \in DOMAIN ReplayEffect THEN ReplayEffect[event] ELSE "INTAKE"

\* One turn of the switch.
Apply(event, lifecycle) ==
  IF event \in DOMAIN ReplayEffect THEN ReplayEffect[event] ELSE lifecycle

deriveLifecycleFromLedger(events) ==
  FoldLeft(LAMBDA l, e : Apply(e, l), "INTAKE", events)
=============================================================================
