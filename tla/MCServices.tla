------------------------------ MODULE MCServices -----------------------------
(* Instances for TLC of the components around the database and the remote  *)
(* service: moving the data directory, backups, resource decisions, the    *)
(* schedule's arithmetic, the text and tags of a post, the first start.    *)
(* One run checks them: the initial state chooses which one moves, and the *)
(* others stay at one of their initial states.                             *)
EXTENDS DataMove, Backups, Resources, Schedule, Wording, Setup, TLC

CONSTANTS
  ServiceParts,           \* the components to check
  full1, full2, short, key1, key2, model1   \* model values of Resources

VARIABLE part

-----------------------------------------------------------------------------

(* Two digests under one prefix; the picture's file mentions one key with  *)
(* the first, a model file holds the second and goes by the key's name.    *)
MCPrefixOf == [h \in Hashes |-> short]
MCImageOf == [k \in Keys |-> 1]
MCHashInFile == [k \in {key1} |-> full1]
MCNewName == [k \in {key1} |-> key2]
MCSha == [m \in ModelFiles |-> full2]
MCNames == [m \in ModelFiles |-> {key1}]

(* Midnight; a microsecond after a minute; the edges of the twelve-minute  *)
(* plan, with a part of a millisecond.                                     *)
MCClocks == {0, 60000001, 120000001, 660000400, 720000000, 840000400}

-----------------------------------------------------------------------------

(* Where the components that do not move stay, if they have a choice.      *)
AtRest ==
  /\ part # "datamove" => ~override
  /\ part # "backups" => live.version = SchemaVersion
  /\ part # "schedule" => clock = CHOOSE c \in Clocks : TRUE
  /\ part # "wording" => text = (CHOOSE t \in Texts : TRUE) /\ labels = {}
  /\ part # "setup" => homes = [h \in Homes |-> Of("absent")]

MCInit ==
  /\ part \in ServiceParts
  /\ MoveInit /\ BackupsInit /\ ResourcesInit /\ ScheduleInit /\ WordingInit /\ SetupInit
  /\ AtRest

MCNext ==
  /\ UNCHANGED part
  /\ \/ /\ part = "datamove" /\ MoveNext
        /\ UNCHANGED <<backupVars, resourceVars, scheduleVars, wordingVars, setupVars>>
     \/ /\ part = "backups" /\ BackupsNext
        /\ UNCHANGED <<moveVars, resourceVars, scheduleVars, wordingVars, setupVars>>
     \/ /\ part = "resources" /\ ResourcesNext
        /\ UNCHANGED <<moveVars, backupVars, scheduleVars, wordingVars, setupVars>>
     \/ /\ part = "schedule" /\ ScheduleNext
        /\ UNCHANGED <<moveVars, backupVars, resourceVars, wordingVars, setupVars>>
     \/ /\ part = "wording" /\ WordingNext
        /\ UNCHANGED <<moveVars, backupVars, resourceVars, scheduleVars, setupVars>>
     \/ /\ part = "setup" /\ SetupNext
        /\ UNCHANGED <<moveVars, backupVars, resourceVars, scheduleVars, wordingVars>>

MCVars == <<part, moveVars, backupVars, resourceVars, scheduleVars, wordingVars, setupVars>>
MCSpec == MCInit /\ [][MCNext]_MCVars

(* The component that moves stays well typed.                              *)
ServicePartsTypeOK ==
  /\ part = "datamove" => MoveTypeOK
  /\ part = "backups" => BackupsTypeOK
  /\ part = "resources" => ResourcesTypeOK
  /\ part = "schedule" => ScheduleTypeOK
  /\ part = "wording" => WordingTypeOK
  /\ part = "setup" => SetupTypeOK
=============================================================================
