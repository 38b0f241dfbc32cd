--------------------------- MODULE IntegrityAudit ---------------------------
(***************************************************************************)
(* The integrity audit that intake bootstrap runs on a narrative: counters *)
(* in the memory of one server process, the blacklist and the device       *)
(* registry in files that the constructor loads and every change rewrites. *)
(* A bootstrap passes the gate twice, once itself and once in handleIntake.*)
(* The gate names no beneficiary, so the two rules about the devices of a  *)
(* beneficiary never apply and a device is only linked to "unknown".       *)
(***************************************************************************)
EXTENDS Integers, FiniteSets

CONSTANTS
  Device,         \* values of X-Device-Id
  Narrative,      \* narratives, up to case and outer white space
  Hostile,        \* those that match an adversarial pattern
  MAX_VIOLATIONS

ASSUME NarrativeAssumption == Hostile \subseteq Narrative
ASSUME ViolationsAssumption == MAX_VIOLATIONS \in Nat \ {0}

VARIABLES
  audit,  \* the IntegrityService of the process
  files,  \* blacklist.json and device_registry.json
  intake  \* the bootstrap that is between its two gates

auditVars == <<audit, files, intake>>

NoIntake == [at |-> "none"]

\* new IntegrityService(): the stores are loaded, the rest starts empty.
Constructed(stored) ==
  [blacklist |-> stored.blacklist, registry |-> stored.registry,
   processedHashes |-> {}, violations |-> [d \in Device |-> 0]]

AuditInit ==
  /\ files = [blacklist |-> {}, registry |-> [d \in Device |-> {}]]
  /\ audit = Constructed(files)
  /\ intake = NoIntake

(***************************************************************************)
(* performFullAudit(): the HIGH flags of a narrative.  LOW ones, of the    *)
(* cooldown, neither block nor count and are left out.                     *)
(***************************************************************************)
Links(device) == audit.registry[device] \cup {"unknown"}

HighFlags(narrative, device, isTrusted) ==
  { flag \in {"DUPLICATE_CLAIM", "IDENTITY_MISMATCH", "SUSPICIOUS_TONE"} :
      \/ flag = "DUPLICATE_CLAIM" /\ ~isTrusted /\ narrative \in audit.processedHashes
      \/ flag = "IDENTITY_MISMATCH" /\ ~isTrusted /\ Cardinality(Links(device)) > 3
      \/ flag = "SUSPICIOUS_TONE" /\ narrative \in Hostile }

\* The state of the service after the audit of a device that is not blacklisted.
Audited(narrative, device, isTrusted) ==
  LET count == audit.violations[device] +
                 (IF HighFlags(narrative, device, isTrusted) = {} THEN 0 ELSE 1)
      blocks == count > audit.violations[device] /\ count >= MAX_VIOLATIONS
  IN  [blacklist |-> IF blocks THEN audit.blacklist \cup {device} ELSE audit.blacklist,
       registry |-> [audit.registry EXCEPT ![device] = Links(device)],
       processedHashes |-> IF isTrusted THEN audit.processedHashes
                                        ELSE audit.processedHashes \cup {narrative},
       violations |-> [audit.violations EXCEPT ![device] = count]]

\* Variant: the blacklist is saved when the counter has passed its limit.
PerformFullAuditSavedLate(narrative, device, isTrusted) ==
  LET next == Audited(narrative, device, isTrusted)
  IN  IF device \in audit.blacklist
        THEN UNCHANGED <<audit, files>>
        ELSE /\ audit' = next
             /\ files' = [files EXCEPT !.registry = next.registry,
                            !.blacklist = IF next.violations[device] > MAX_VIOLATIONS
                                            THEN next.blacklist ELSE @]

\* The audit of the service is synchronous; a blacklisted device ends it at once.
PerformFullAudit(narrative, device, isTrusted) ==
  LET next == Audited(narrative, device, isTrusted)
  IN  IF device \in audit.blacklist
        THEN UNCHANGED <<audit, files>>
        ELSE /\ audit' = next
             /\ files' = [blacklist |-> next.blacklist, registry |-> next.registry]

\* resolveAuthorUserId() names the actor or some user of the tenant, or throws: whoever
\* reaches a gate has an author, and buildTrustContext() trusts an author.
HasAuthor == TRUE
IsTrusted == HasAuthor

\* enforceIntegrityGate(): what it throws for.
Blocked(narrative, device) ==
  ~IsTrusted /\ (device \in audit.blacklist \/ HighFlags(narrative, device, IsTrusted) # {})

\* bootstrap(): the first gate, on the narrative as it came.
BootstrapGate(narrative, device) ==
  /\ intake = NoIntake
  /\ PerformFullAudit(narrative, device, IsTrusted)
  /\ intake' = IF Blocked(narrative, device) THEN NoIntake ELSE [at |-> "handleIntake", narrative |-> narrative, device |-> device]

\* handleIntake(): the second gate, on the sanitised narrative; blocked or not, the
\* bootstrap ends here for the audit.
HandleIntake ==
  /\ intake # NoIntake
  /\ PerformFullAudit(intake.narrative, intake.device, IsTrusted)
  /\ intake' = NoIntake

\* The process ends and starts: the module constructs its service again.
AuditRestart ==
  /\ audit' = Constructed(files)
  /\ intake' = NoIntake
  /\ UNCHANGED files

AuditNext ==
  \/ \E n \in Narrative, d \in Device : BootstrapGate(n, d)
  \/ HandleIntake
  \/ AuditRestart

AuditSpec == AuditInit /\ [][AuditNext]_auditVars
-----------------------------------------------------------------------------
AuditTypeOK ==
  /\ files \in [blacklist: SUBSET Device, registry: [Device -> SUBSET {"unknown"}]]
  /\ audit \in [blacklist: SUBSET Device, registry: [Device -> SUBSET {"unknown"}],
                processedHashes: SUBSET Narrative,
                violations: [Device -> 0..MAX_VIOLATIONS]]
  /\ intake = NoIntake \/ intake \in [at: {"handleIntake"}, narrative: Narrative, device: Device]

(***************************************************************************)
(* "Permanent blacklist", "Device registry and blacklist are durable": a   *)
(* device the process has blacklisted is blacklisted ever after, restarts  *)
(* and the blacklisting of other devices included, and a link is kept too. *)
(***************************************************************************)
BlacklistIsPermanent ==
  [][/\ audit.blacklist \subseteq audit'.blacklist
     /\ \A d \in Device : audit.registry[d] \subseteq audit'.registry[d]]_auditVars
=============================================================================
