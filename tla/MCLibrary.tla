------------------------------ MODULE MCLibrary ------------------------------
(* Instances for TLC of the components around the image library: the job   *)
(* registry, the files and their rows, the duplicate groups, the usage     *)
(* history's page, the tiles of a post and the search for their files.     *)
(* One run checks them: the initial state chooses which one moves, and the *)
(* others stay at one of their initial states.                             *)
EXTENDS Jobs, Library, Groups, Matching, History, Tiles, TLC

CONSTANTS
  LibraryParts,            \* the components to check
  s1, s2, f1, f2, g1, g2   \* model values of Matching

VARIABLE part

-----------------------------------------------------------------------------

(* A file, the same pixels in another file, a picture in a different shape *)
(* that is one bit away, and one that is two bits away.                    *)
LooksLike(sha, pixels, hash, ratio, stamp) ==
  [sha |-> sha, pixels |-> pixels, hash |-> hash, ratio |-> ratio, stamp |-> stamp]
MCLooks == {LooksLike(1, 1, {}, 100, 0), LooksLike(2, 1, {}, 100, 1),
            LooksLike(4, 3, {1}, 150, 2), LooksLike(5, 4, {1, 2}, 0, 1)}
MCHashBands == {{1}, {2}}

(* Three bits in two bands of unequal width.                               *)
MCBandOf == [i \in Bits |-> IF i = 3 THEN 2 ELSE 1]

(* Two pictures that look alike, each with a file here and a fetched one.  *)
MCFetchedAs == s1 :> g1 @@ s2 :> g2
MCPictureOf == s1 :> "a" @@ s2 :> "b" @@ f1 :> "a" @@ f2 :> "b" @@ g1 :> "a" @@ g2 :> "b"
MCLookOf == "a" :> 1 @@ "b" :> 1

-----------------------------------------------------------------------------

(* Where the components that do not move stay, if they have a choice.      *)
AtRest ==
  /\ part # "library" => rows = {}
  /\ part # "groups" => threshold = 1
  /\ part # "matching" =>
       /\ ~published
       /\ \A f \in Files : shelf[f] = "none"
       /\ \A s \in Slots : recorded[s] = {}
  /\ part # "history" => limit = 0
  /\ part # "tiles" => \A t \in tiles : t.id = 1 => t.pic = CHOOSE p \in Images : TRUE

MCInit ==
  /\ part \in LibraryParts
  /\ JobsInit /\ LibraryInit /\ GroupsInit /\ MatchInit /\ HistoryInit /\ TilesInit
  /\ AtRest

MCNext ==
  /\ UNCHANGED part
  /\ \/ /\ part = "jobs" /\ JobsNext
        /\ UNCHANGED <<libraryVars, groupsVars, matchVars, historyVars, tilesVars>>
     \/ /\ part = "library" /\ LibraryNext
        /\ UNCHANGED <<jobsVars, groupsVars, matchVars, historyVars, tilesVars>>
     \/ /\ part = "groups" /\ GroupsNext
        /\ UNCHANGED <<jobsVars, libraryVars, matchVars, historyVars, tilesVars>>
     \/ /\ part = "matching" /\ MatchNext
        /\ UNCHANGED <<jobsVars, libraryVars, groupsVars, historyVars, tilesVars>>
     \/ /\ part = "history" /\ HistoryNext
        /\ UNCHANGED <<jobsVars, libraryVars, groupsVars, matchVars, tilesVars>>
     \/ /\ part = "tiles" /\ TilesNext
        /\ UNCHANGED <<jobsVars, libraryVars, groupsVars, matchVars, historyVars>>

MCVars == <<part, jobsVars, libraryVars, groupsVars, matchVars, historyVars, tilesVars>>
MCSpec == MCInit /\ [][MCNext]_MCVars

(* The component that moves stays well typed.                              *)
LibraryPartsTypeOK ==
  /\ part = "jobs" => JobsTypeOK
  /\ part = "library" => LibraryTypeOK
  /\ part = "groups" => GroupsTypeOK
  /\ part = "matching" => MatchTypeOK
  /\ part = "history" => HistoryTypeOK
  /\ part = "tiles" => TilesTypeOK
=============================================================================
