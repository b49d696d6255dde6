-------------------------- MODULE OpenCodeProjectSync --------------------------
(***************************************************************************)
(* Making the project folders known to OpenCode                            *)
(* (opencode-project-sync.service.ts).  A sync pass writes one record per  *)
(* folder into OpenCode's storage and, for a git folder, opens a           *)
(* "Bootstrap" session over HTTP to make OpenCode derive its own project,  *)
(* names that project and deletes the session.  A warming pass leaves a    *)
(* "Home" session in the first folders that have no session yet.  At       *)
(* startup both run at once, and the Mini App's settings start more.       *)
(***************************************************************************)
EXTENDS Naturals, FiniteSetsExt

CONSTANTS
    MaxDirs,      \* bound: folders, numbered as discoverProjects lists them
    GitDirs,      \* the folders that have a .git
    SyncPasses,    \* sync passes: of the startup, of the Mini App
    Warmers,       \* warming passes
    RecentLimit,   \* opencodeWarmRecentsLimit
    MaxSyncFaults  \* bound: calls that fail, and crashes

ASSUME SyncBounds == {MaxDirs, RecentLimit, MaxSyncFaults} \subseteq Nat

Dirs == 1 .. MaxDirs

NoBootstrap == [of |-> 0, title |-> "none", by |-> "none", after |-> 0]

NoPass == [at |-> "idle", of |-> 0, session |-> NoBootstrap, named |-> FALSE, counted |-> {}]
NoWarming == [at |-> "idle", of |-> 0]

VARIABLES
    record,   \* per folder: the record in OpenCode's storage
    derived,  \* per folder: the project that OpenCode derived itself
    opened,   \* the sessions of the folders
    pass,     \* per sync pass: where it stands, and what it counted
    warming,  \* per warming pass: where it stands
    syncFaults \* calls that failed and crashes; whether one cut off a session

sync == <<record, derived, opened, pass, warming, syncFaults>>

SyncInit ==
    /\ record \in [Dirs -> {"none", "stale", "good", "broken"}]
    /\ derived = [w \in Dirs |-> "none"]
    /\ opened = {}
    /\ pass = [p \in SyncPasses |-> NoPass]
    /\ warming = [m \in Warmers |-> NoWarming]
    /\ syncFaults = [count |-> 0, spoiled |-> FALSE]

SyncFault(spoils) ==
    /\ syncFaults.count < MaxSyncFaults
    /\ syncFaults' = [count |-> syncFaults.count + 1, spoiled |-> syncFaults.spoiled \/ spoils]

-----------------------------------------------------------------------------
(* The sync pass *)

(* The loop goes on from folder k without waiting up to the next git       *)
(* folder; a record that is no JSON ends the whole pass.  A record is      *)
(* written when there is none and when its worktree, its name or its icon  *)
(* is to be changed.                                                       *)
GoesOn(p, k, counted) ==
    LET stops == {w \in Dirs : w >= k /\ (w \in GitDirs \/ record[w] = "broken")}
        last == IF stops = {} THEN MaxDirs ELSE Min(stops)
        aborted == stops # {} /\ record[last] = "broken"
    IN /\ record' = [w \in Dirs |->
                        IF w \in k .. last /\ record[w] # "broken" THEN "good" ELSE record[w]]
       /\ pass' = [pass EXCEPT ![p] =
                      [NoPass EXCEPT !.at = IF aborted THEN "aborted"
                                            ELSE IF stops = {} THEN "done" ELSE "create",
                                     !.of = IF aborted \/ stops = {} THEN 0 ELSE last,
                                     !.counted = counted]]

SyncStarts(p) ==
    /\ pass[p].at = "idle"
    /\ GoesOn(p, 1, {})
    /\ UNCHANGED <<derived, opened, warming, syncFaults>>

SessionOf(k, title, by) == [of |-> k, title |-> title, by |-> by, after |-> syncFaults.count]

BootstrapOf(p) == SessionOf(pass[p].of, "Bootstrap", p)

Stands(p, at, named) == pass' = [pass EXCEPT ![p].at = at, ![p].named = named]

OpensBootstrap(p, at, named) ==
    pass' = [pass EXCEPT ![p].at = at, ![p].named = named, ![p].session = BootstrapOf(p)]

(* OpenCode derives a project of the folder, or answers with its global    *)
(* one: then there is nothing to name.                                     *)
BootstrapOpened(p) ==
    /\ pass[p].at = "create"
    /\ opened' = opened \cup {BootstrapOf(p)}
    /\ \/ /\ derived[pass[p].of] # "global"
          /\ derived' = [derived EXCEPT ![pass[p].of] = IF @ = "none" THEN "plain" ELSE @]
          /\ OpensBootstrap(p, "find", FALSE)
       \/ /\ derived[pass[p].of] \in {"none", "global"}
          /\ derived' = [derived EXCEPT ![pass[p].of] = "global"]
          /\ OpensBootstrap(p, "drop", TRUE)
    /\ UNCHANGED <<record, warming, syncFaults>>

(* The call fails before or after OpenCode opened the session. *)
BootstrapFails(p) ==
    /\ pass[p].at = "create" /\ SyncFault(TRUE)
    /\ opened' \in {opened, opened \cup {BootstrapOf(p)}}
    /\ GoesOn(p, pass[p].of + 1, pass[p].counted)
    /\ UNCHANGED <<derived, warming>>

DerivedFound(p) ==
    /\ pass[p].at = "find"
    /\ derived[pass[p].of] \in {"plain", "named"}
    /\ Stands(p, "patch", FALSE)
    /\ UNCHANGED <<record, derived, opened, warming, syncFaults>>

DerivedNamed(p) ==
    /\ pass[p].at = "patch"
    /\ derived' = [derived EXCEPT ![pass[p].of] = "named"]
    /\ Stands(p, "drop", TRUE)
    /\ UNCHANGED <<record, opened, warming, syncFaults>>

(* No derived project, or a call that failed: "always clean up the         *)
(* bootstrap session".                                                     *)
NamingFails(p) ==
    /\ pass[p].at \in {"find", "patch"} /\ SyncFault(FALSE)
    /\ Stands(p, "drop", FALSE)
    /\ UNCHANGED <<record, derived, opened, warming>>

BootstrapDropped(p) ==
    /\ pass[p].at = "drop"
    /\ opened' = opened \ {pass[p].session}
    /\ GoesOn(p, pass[p].of + 1,
              pass[p].counted \cup IF pass[p].named THEN {pass[p].of} ELSE {})
    /\ UNCHANGED <<derived, warming, syncFaults>>

(* A session that could not be deleted stays, and its folder does not      *)
(* count as initialised.                                                   *)
DropFails(p) ==
    /\ pass[p].at = "drop" /\ SyncFault(TRUE)
    /\ GoesOn(p, pass[p].of + 1, pass[p].counted)
    /\ UNCHANGED <<derived, opened, warming>>

-----------------------------------------------------------------------------
(* The warming pass *)

WarmNext(m, k) ==
    warming' = [warming EXCEPT ![m] = IF k > RecentLimit \/ k > MaxDirs
                                      THEN [at |-> "done", of |-> 0] ELSE [at |-> "look", of |-> k]]

WarmStarts(m) ==
    /\ warming[m].at = "idle"
    /\ WarmNext(m, 1)
    /\ UNCHANGED <<record, derived, opened, pass, syncFaults>>

(* "Skip if OpenCode already has a root session for the directory." *)
Looked(m) ==
    /\ warming[m].at = "look"
    /\ IF \E s \in opened : s.of = warming[m].of
       THEN WarmNext(m, warming[m].of + 1)
       ELSE warming' = [warming EXCEPT ![m].at = "make"]
    /\ UNCHANGED <<record, derived, opened, pass, syncFaults>>

HomeOpened(m) ==
    /\ warming[m].at = "make"
    /\ opened' = opened \cup {SessionOf(warming[m].of, "Home", m)}
    /\ WarmNext(m, warming[m].of + 1)
    /\ UNCHANGED <<record, derived, pass, syncFaults>>

(* A folder that fails is skipped. *)
WarmFails(m) ==
    /\ warming[m].at \in {"look", "make"} /\ SyncFault(FALSE)
    /\ WarmNext(m, warming[m].of + 1)
    /\ UNCHANGED <<record, derived, opened, pass>>

(* The backend starts again: its passes are forgotten. *)
SyncCrash ==
    /\ SyncFault(TRUE)
    /\ pass' = [p \in SyncPasses |-> NoPass]
    /\ warming' = [m \in Warmers |-> NoWarming]
    /\ UNCHANGED <<record, derived, opened>>

SyncNext ==
    \/ \E p \in SyncPasses :
           \/ SyncStarts(p) \/ BootstrapOpened(p) \/ BootstrapFails(p) \/ DerivedFound(p)
           \/ DerivedNamed(p) \/ NamingFails(p) \/ BootstrapDropped(p) \/ DropFails(p)
    \/ \E m \in Warmers : WarmStarts(m) \/ Looked(m) \/ HomeOpened(m) \/ WarmFails(m)
    \/ SyncCrash

SyncSpec == SyncInit /\ [][SyncNext]_sync

-----------------------------------------------------------------------------
(* Properties *)

(* A pass waits for git folders only, a warming pass for the first ones.   *)
SyncTypeOK ==
    /\ record \in [Dirs -> {"none", "stale", "good", "broken"}]
    /\ derived \in [Dirs -> {"none", "plain", "named", "global"}]
    /\ \A s \in opened : s.of \in Dirs /\ s.by \in SyncPasses \cup Warmers
    /\ \A p \in SyncPasses : pass[p].session # NoBootstrap => pass[p].at \in {"find", "patch", "drop"}
    /\ \A p \in SyncPasses :
           /\ pass[p].at \in {"idle", "create", "find", "patch", "drop", "done", "aborted"}
           /\ pass[p].at \in {"create", "find", "patch", "drop"} => pass[p].of \in GitDirs
           /\ pass[p].counted \subseteq GitDirs
    /\ \A m \in Warmers : warming[m].at \in {"look", "make"} => warming[m].of \in 1 .. RecentLimit
    /\ syncFaults.count <= MaxSyncFaults

(* "Always clean up the bootstrap session when creation succeeded"         *)
(* (opencode-project-sync.service.ts:294): a Bootstrap session is the one  *)
(* a pass is working with, as long as the calls that open and delete it    *)
(* succeed and the backend does not crash, whatever else fails; and what a *)
(* pass counts as initialised has its record and its name in OpenCode,     *)
(* unless OpenCode keeps the folder in its global project.                 *)
BootstrapsAreDropped ==
    /\ LET left == {s \in opened : s.title = "Bootstrap"
                                   /\ \A p \in SyncPasses : s # pass[p].session}
       IN syncFaults.spoiled \/ left = {}
    /\ \A p \in SyncPasses : \A w \in pass[p].counted :
           derived[w] \in {"named", "global"} /\ record[w] = "good"

=============================================================================
