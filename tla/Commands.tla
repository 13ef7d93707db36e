------------------------------ MODULE Commands ------------------------------
(***************************************************************************)
(* The commands of jg (cli.py) whose parts keep apart: planning a cleanup  *)
(* from observations, resolving the creator capability, turning answers    *)
(* into a preservation plan, the secrets of the user, and grouping.  They  *)
(* share no file and no ref, so a behaviour is about one of them.          *)
(***************************************************************************)
EXTENDS CleanupPlanning, CreatorCapability, PresenceEvidence, LocalSecrets,
        ContributionGroups

VARIABLE command    \* args.command

commandVars ==
  <<command, planningVars, capabilityVars, evidenceVars, secretVars, groupVars>>

CommandsInit ==
  /\ command \in {"planning", "capability", "evidence", "credential", "groups"}
  /\ PlanningInit /\ CapabilityInit /\ EvidenceInit /\ SecretsInit /\ GroupsInit
  \* Bound: only the planning tools read refs.
  /\ command # "planning" => refs = CHOOSE f \in FirstRefs : TRUE

Dispatch ==
  \/ /\ command = "planning" /\ PlanningNext
     /\ UNCHANGED <<capabilityVars, evidenceVars, secretVars, groupVars>>
  \/ /\ command = "capability" /\ CapabilityNext
     /\ UNCHANGED <<planningVars, evidenceVars, secretVars, groupVars>>
  \/ /\ command = "evidence" /\ EvidenceNext
     /\ UNCHANGED <<planningVars, capabilityVars, secretVars, groupVars>>
  \/ /\ command = "credential" /\ SecretsNext
     /\ UNCHANGED <<planningVars, capabilityVars, evidenceVars, groupVars>>
  \/ /\ command = "groups" /\ GroupsNext
     /\ UNCHANGED <<planningVars, capabilityVars, evidenceVars, secretVars>>

CommandsNext == Dispatch /\ UNCHANGED command

CommandsSpec == CommandsInit /\ [][CommandsNext]_commandVars

\* Types of every part (the type invariants of the modules this one composes).
CommandsTypeOK ==
  PlanningTypeOK /\ CapabilityTypeOK /\ SecretsTypeOK /\ GroupsTypeOK
============================================================================
