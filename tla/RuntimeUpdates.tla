---------------------------- MODULE RuntimeUpdates ----------------------------
(* The updates of what is deployed: the runtime's images, and OpenCode in  *)
(* its containers.                                                         *)
EXTENDS Naturals, FiniteSets

-----------------------------------------------------------------------------
(***************************************************************************)
(* The self-update of the runtime (system/runtime-update.service.ts): the  *)
(* versions of .env and .env.previous, the images on disk, what the        *)
(* containers run, and the status file that survives the backend's own     *)
(* restart.                                                                *)
(*                                                                         *)
(* Nothing keeps two requests apart: a pull takes up to 45 minutes, long   *)
(* after an HTTP client has given up and asked again.  Files are read and  *)
(* written synchronously, so the code between two commands is one action.  *)
(***************************************************************************)

CONSTANTS
    Updaters,     \* requests under way at a time
    MaxReleases,  \* bound: versions ever published
    MaxAttempts,  \* bound: requests
    MaxUpdateCrashes    \* bound: backend crashes

ASSUME UpdateBounds == {MaxReleases, MaxAttempts, MaxUpdateCrashes} \subseteq Nat /\ MaxReleases > 0

Versions == 1 .. MaxReleases
NoVersion == 0

Idle == [at |-> "idle", kind |-> "none", keep |-> {}, version |-> NoVersion,
         before |-> NoVersion, alone |-> TRUE]

VARIABLES
    disk,      \* .env, .env.previous, the images, the status file
    running,   \* what the containers run; the helper that restarts the backend
    requests,  \* per updater: the request under way; history: whether it was
               \* alone with the files so far
    memory,    \* the release last seen (latestCache)
    releases   \* published versions; requests and crashes so far

update == <<disk, running, requests, memory, releases>>

UpdateInit ==
    /\ disk = [env |-> 1, previous |-> NoVersion, images |-> {1}, status |-> "idle",
               target |-> NoVersion]
    /\ running = [backend |-> 1, services |-> 1, helper |-> FALSE]
    /\ requests = [r \in Updaters |-> Idle]
    /\ memory = NoVersion
    /\ releases = [published |-> 1, attempts |-> 0, crashes |-> 0]

-----------------------------------------------------------------------------

(* GitHub *)
ReleasePublished ==
    /\ releases.published < MaxReleases
    /\ releases' = [releases EXCEPT !.published = @ + 1]
    /\ UNCHANGED <<disk, running, requests, memory>>

Begins(r) ==
    /\ requests[r] = Idle /\ releases.attempts < MaxAttempts
    /\ releases' = [releases EXCEPT !.attempts = @ + 1]

Becomes(r, at, version) ==
    requests' = [requests EXCEPT ![r].at = at, ![r].version = version]

(* Request r rewrites .env; it goes on as the given one. *)
Writes(r, request) ==
    LET others == {q \in Updaters \ {r} : requests[q].at \notin {"idle", "asking"}}
    IN requests' = [q \in Updaters |->
           IF q = r THEN IF request = Idle THEN Idle ELSE [request EXCEPT !.alone = others = {}]
           ELSE IF q \in others THEN [requests[q] EXCEPT !.alone = FALSE] ELSE requests[q]]

Ends(r) == requests' = [requests EXCEPT ![r] = Idle]

(* checkLatestVersion and updateToLatest ask GitHub first. *)
Asked(r) ==
    /\ Begins(r)
    /\ \E kind \in {"check", "update"} :
           requests' = [requests EXCEPT ![r].at = "asking", ![r].kind = kind]
    /\ UNCHANGED <<disk, running, memory>>

AskFails(r) ==
    /\ requests[r].at = "asking"
    /\ Ends(r)
    /\ UNCHANGED <<disk, running, memory, releases>>

(* The status file says what was found, whoever else is updating. *)
Checked(r) ==
    /\ requests[r].at = "asking"
    /\ requests[r].kind = "check" \/ releases.published = disk.env
    /\ memory' = releases.published
    /\ disk' = [disk EXCEPT
          !.status = IF releases.published # disk.env THEN "available" ELSE "idle",
          !.target = releases.published]
    /\ Ends(r)
    /\ UNCHANGED <<running, releases>>

(* Faulty variant: .env.previous is not among the snapshots. *)
KeepsCurrent(env, previous) == {env}

(* pruneOldImagesBeforePull: the images of both env files stay. *)
KeepImages(env, previous) == {env, previous} \ {NoVersion}

(* Faulty variant: .env is copied after it was rewritten. *)
VersionedFirst(d, v) == [d EXCEPT !.env = v, !.previous = v]

(* writeVersionedEnv *)
Versioned(d, v) == [d EXCEPT !.env = v, !.previous = d.env]

(* updateToLatest saves .env as .env.previous, writes the new references   *)
(* and starts the cleanup with the images to keep.                         *)
EnvVersioned(r) ==
    /\ requests[r].at = "asking" /\ requests[r].kind = "update"
    /\ releases.published # disk.env
    /\ memory' = releases.published
    /\ disk' = [Versioned(disk, releases.published) EXCEPT
                      !.status = "updating", !.target = releases.published]
    /\ Writes(r, [requests[r] EXCEPT !.at = "pruning",
                                     !.keep = KeepImages(disk'.env, disk'.previous),
                                     !.before = disk.env])
    /\ UNCHANGED <<running, releases>>

(* Docker removes no image that a container uses. *)
Pruned(r) ==
    /\ requests[r].at = "pruning"
    /\ disk' = [disk EXCEPT !.images =
           {v \in @ : v \in requests[r].keep \cup {running.backend, running.services}}]
    /\ Becomes(r, "pulling", disk.env)
    /\ UNCHANGED <<running, memory, releases>>

(* The cleanup, the disk check or the pull fails: .env is pinned to        *)
(* whatever .env.previous says now.                                        *)
FailsBeforeRestart(r) ==
    /\ requests[r].at \in {"pruning", "pulling"}
    /\ disk' = [disk EXCEPT !.env = IF disk.previous # NoVersion THEN disk.previous ELSE @,
                            !.status = "failed", !.target = memory]
    /\ Writes(r, Idle)
    /\ UNCHANGED <<running, memory, releases>>

Pulled(r) ==
    /\ requests[r].at = "pulling"
    /\ disk' = [disk EXCEPT !.images = @ \cup {requests[r].version},
                            !.status = "restarting", !.target = memory]
    /\ Becomes(r, "composing", disk.env)
    /\ UNCHANGED <<running, memory, releases>>

(* rollback consumes .env.previous. *)
RollsBack(r) ==
    /\ disk.previous # NoVersion
    /\ Begins(r)
    /\ Writes(r, [Idle EXCEPT !.at = "composing", !.kind = "rollback", !.version = disk.previous])
    /\ disk' = [disk EXCEPT !.env = disk.previous, !.previous = NoVersion]
    /\ UNCHANGED <<running, memory>>

(* applyRuntimeComposeUpdate: the other services first, then a helper      *)
(* container that outlives this backend.                                   *)
Composed(r) ==
    /\ requests[r].at = "composing"
    /\ running' = [running EXCEPT !.services = requests[r].version, !.helper = TRUE]
    /\ disk' = [disk EXCEPT !.images = @ \cup {requests[r].version}]
    /\ Ends(r)
    /\ UNCHANGED <<memory, releases>>

(* A failed restart leaves .env as it is; a failed rollback says nothing.  *)
ComposeFails(r) ==
    /\ requests[r].at = "composing"
    /\ disk' = IF requests[r].kind = "update"
               THEN [disk EXCEPT !.status = "failed", !.target = memory] ELSE disk
    /\ Ends(r)
    /\ UNCHANGED <<running, memory, releases>>

(* getUpdateState *)
StatusRead ==
    /\ disk.status = "restarting" /\ disk.target = disk.env
    /\ disk' = [disk EXCEPT !.status = "completed"]
    /\ UNCHANGED <<running, requests, memory, releases>>

-----------------------------------------------------------------------------
(* The backend goes *)

Forgotten == requests' = [r \in Updaters |-> Idle] /\ memory' = NoVersion

HelperRestarts ==
    /\ running.helper
    /\ running' = [running EXCEPT !.backend = disk.env, !.helper = FALSE]
    /\ disk' = [disk EXCEPT !.images = @ \cup {disk.env}]
    /\ Forgotten
    /\ UNCHANGED releases

HelperFails ==
    /\ running.helper
    /\ running' = [running EXCEPT !.helper = FALSE]
    /\ UNCHANGED <<disk, requests, memory, releases>>

BackendCrashes ==
    /\ releases.crashes < MaxUpdateCrashes
    /\ releases' = [releases EXCEPT !.crashes = @ + 1]
    /\ Forgotten
    /\ UNCHANGED <<disk, running>>

UpdateNext ==
    \/ ReleasePublished \/ StatusRead \/ HelperRestarts \/ HelperFails \/ BackendCrashes
    \/ \E r \in Updaters :
           \/ Asked(r) \/ AskFails(r) \/ Checked(r) \/ EnvVersioned(r) \/ Pruned(r)
           \/ FailsBeforeRestart(r) \/ Pulled(r) \/ RollsBack(r) \/ Composed(r) \/ ComposeFails(r)

UpdateSpec == UpdateInit /\ [][UpdateNext]_update

-----------------------------------------------------------------------------
(* Properties *)

(* Versions are published ones; what runs has its images. *)
UpdateTypeOK ==
    /\ {disk.env, running.backend, running.services} \cup disk.images \subseteq 1 .. releases.published
    /\ disk.previous \in 0 .. releases.published /\ memory \in 0 .. releases.published
    /\ disk.status \in {"idle", "available", "updating", "restarting", "completed", "failed"}
    /\ {running.backend, running.services} \subseteq disk.images
    /\ releases.attempts <= MaxAttempts /\ releases.crashes <= MaxUpdateCrashes

(* "Failed pre-restart updates should leave the currently running runtime  *)
(* pinned to the previous refs": an update that was alone with the files   *)
(* and fails before the restart leaves .env at the version it began with,  *)
(* whatever checks, crashes and failed restarts came before or between     *)
(* (runtime-update.service.ts:265).                                        *)
FailedUpdateRestores ==
    \A r \in Updaters :
        requests[r].at \in {"pruning", "pulling"} /\ requests[r].alone
            /\ disk.status # "failed" /\ disk'.status = "failed" /\ requests'[r] = Idle
        => disk'.env = requests[r].before

(* "Preserve target images and the previous .env images so rollback stays  *)
(* available after cleanup": no cleanup removes an image that .env or      *)
(* .env.previous names at that moment, as long as no other request has     *)
(* rewritten the files since it listed them (runtime-image-cleanup.ts:32). *)
RollbackImageStays ==
    \A r \in Updaters :
        requests[r].at = "pruning" /\ requests'[r].at = "pulling" /\ requests[r].alone
        => {disk.env, disk.previous} \cap disk.images \subseteq disk'.images

(* An update can be taken back, by the updater or by hand. *)
UpdatesAreReversible == [][FailedUpdateRestores /\ RollbackImageStays]_update

-----------------------------------------------------------------------------
(***************************************************************************)
(* Which version of OpenCode the containers run: the check at the start of *)
(* a container (entrypoint.sh, opencode-auto-update.js), the Update button *)
(* (opencode-runtime.service.ts) and the toolbox volume that containers    *)
(* share.  A version is its number in the order of releases; the check     *)
(* only asks whether two versions are the same one.                        *)
(***************************************************************************)

CONSTANTS
    Containers,       \* the containers labelled service=opencode
    Presses,          \* presses of the Update button
    MaxPublished,     \* bound: releases on npm
    MaxReboots,       \* bound: restarts that no press asked for, and new images
    MaxNpmFaults      \* bound: commands that fail

ASSUME RuntimeBounds ==
    /\ Containers # {} /\ Containers \cap Presses = {}
    /\ {MaxPublished, MaxReboots, MaxNpmFaults} \subseteq Nat

VARIABLES
    npm,       \* the newest release
    toolbox,   \* the volume: installed version (0 is none), version-check
               \* cache and whether it is within its TTL; the image's version
    checks,    \* runs of the script: one per container, one per press
    presses,   \* updateToLatestVersion
    upkeep     \* OPENCODE_AUTO_UPDATE; restarts and faults; whether two runs
               \* have overlapped, or an image came without a new check

runtime == <<npm, toolbox, checks, presses, upkeep>>

(* docker exec takes the first container of the list. *)
FirstContainer == CHOOSE c \in Containers : TRUE
NoCheck == [at |-> "off", current |-> 0, latest |-> 0]
NoPress == [at |-> "idle", todo |-> {}]

RuntimeInit ==
    /\ npm = 1
    /\ toolbox = [installed |-> 0, cached |-> 0, fresh |-> FALSE, image |-> 1]
    /\ checks = [r \in Containers \cup Presses |-> NoCheck]
    /\ presses = [b \in Presses |-> NoPress]
    /\ \E enabled \in BOOLEAN :
          upkeep = [enabled |-> enabled, reboots |-> 0, faults |-> 0,
                    crossed |-> FALSE, imaged |-> FALSE]

(* The binary in PATH: the toolbox comes before the image. *)
Effective(t) == IF t.installed # 0 THEN t.installed ELSE t.image

Running(r) == checks[r].at # "off"
NpmFault == upkeep.faults < MaxNpmFaults
Faulted == [upkeep EXCEPT !.faults = @ + 1]

-----------------------------------------------------------------------------
(* ensureOpenCodeAutoUpdate *)

Forced(r) == r \in Presses

(* Runs R begin; they are not alone if another one is under way. *)
Begun(cs, R) == [r \in DOMAIN cs |-> IF r \in R THEN [NoCheck EXCEPT !.at = "read"] ELSE cs[r]]
Beside(cs, R) == Cardinality(R) > 1 \/ \E r \in DOMAIN cs \ R : cs[r].at # "off"

ReadsInstalled(r) ==
    /\ checks[r].at = "read"
    /\ checks' = [checks EXCEPT ![r] =
            IF upkeep.enabled \/ Forced(r)
            THEN [at |-> "resolve", current |-> Effective(toolbox), latest |-> 0] ELSE NoCheck]
    /\ UNCHANGED <<npm, toolbox, presses, upkeep>>

(* Faulty variant: a forced check leaves the cache as it is. *)
WrittenUnforced(r) ==
    IF Forced(r) THEN toolbox ELSE [toolbox EXCEPT !.cached = npm, !.fresh = TRUE]

(* What a lookup in the registry leaves in the cache file. *)
Written(r) == [toolbox EXCEPT !.cached = npm, !.fresh = TRUE]

(* resolveLatestVersion *)
LatestResolved(r) ==
    /\ checks[r].at = "resolve"
    /\ LET fromCache == ~Forced(r) /\ toolbox.fresh
           latest == IF fromCache THEN toolbox.cached ELSE npm
       IN /\ toolbox' = IF fromCache THEN toolbox ELSE Written(r)
          /\ checks' = [checks EXCEPT ![r] =
                IF latest = @.current THEN NoCheck ELSE [@ EXCEPT !.at = "install", !.latest = latest]]
    /\ UNCHANGED <<npm, presses, upkeep>>

(* npm install -g, into the volume. *)
Installs(r) ==
    /\ checks[r].at = "install"
    /\ toolbox' = [toolbox EXCEPT !.installed = checks[r].latest]
    /\ checks' = [checks EXCEPT ![r] = NoCheck]
    /\ UNCHANGED <<npm, presses, upkeep>>

(* A command fails: a container starts with what it has, a press ends.     *)
NpmFails(r) ==
    /\ checks[r].at \in {"resolve", "install"} /\ NpmFault
    /\ checks' = [checks EXCEPT ![r] = NoCheck]
    /\ presses' = IF Forced(r) THEN [presses EXCEPT ![r] = NoPress] ELSE presses
    /\ upkeep' = Faulted
    /\ UNCHANGED <<npm, toolbox>>

-----------------------------------------------------------------------------
(* Containers *)

(* docker restart: what runs in the container is killed, a forced check    *)
(* with it, whose press fails; entrypoint.sh begins a check.               *)
Killed(C) == IF FirstContainer \in C THEN {b \in Presses : Running(b)} ELSE {}

Restarted(C, counted) ==
    LET left == [r \in DOMAIN checks |-> IF r \in Killed(C) \cup C THEN NoCheck ELSE checks[r]]
    IN /\ checks' = Begun(left, C)
       /\ upkeep' = [counted EXCEPT !.crossed = @ \/ Beside(left, C)]

(* Settings, proxy and project operations restart OpenCode, or it crashes. *)
Reboots(c) ==
    /\ upkeep.reboots < MaxReboots
    /\ Restarted({c}, [upkeep EXCEPT !.reboots = @ + 1])
    /\ presses' = [b \in Presses |-> IF b \in Killed({c}) THEN NoPress ELSE presses[b]]
    /\ UNCHANGED <<npm, toolbox>>

(* A runtime update brings an image with the release of its build.         *)
ImageArrives ==
    /\ upkeep.reboots < MaxReboots /\ toolbox.image < npm
    /\ toolbox' = [toolbox EXCEPT !.image = npm]
    /\ Restarted(Containers, [upkeep EXCEPT !.reboots = @ + 1, !.imaged = TRUE])
    /\ presses' = [b \in Presses |-> IF Running(b) THEN NoPress ELSE presses[b]]
    /\ UNCHANGED npm

-----------------------------------------------------------------------------
(* updateToLatestVersion *)

UpdatePressed(b) ==
    /\ presses[b].at = "idle"
    /\ presses' = [presses EXCEPT ![b].at = "checking"]
    /\ UNCHANGED <<npm, toolbox, checks, upkeep>>

(* checkVersionStatus: nothing to do, or a forced check in the first       *)
(* container.                                                              *)
StatusChecked(b) ==
    /\ presses[b].at = "checking"
    /\ IF Effective(toolbox) = npm
       THEN presses' = [presses EXCEPT ![b] = NoPress] /\ UNCHANGED <<checks, upkeep>>
       ELSE /\ presses' = [presses EXCEPT ![b] = [at |-> "exec", todo |-> Containers]]
            /\ checks' = Begun(checks, {b})
            /\ upkeep' = [upkeep EXCEPT !.crossed = @ \/ Beside(checks, {b})]
    /\ UNCHANGED <<npm, toolbox>>

(* When the script has ended, one container after the other is restarted.  *)
RestartsNext(b) ==
    /\ presses[b].at = "exec" /\ ~Running(b)
    /\ \E c \in presses[b].todo :
          /\ Restarted({c}, upkeep)
          /\ presses' = [d \in Presses |->
                IF d = b THEN IF presses[b].todo = {c} THEN NoPress
                              ELSE [presses[b] EXCEPT !.todo = @ \ {c}]
                ELSE IF d \in Killed({c}) THEN NoPress ELSE presses[d]]
    /\ UNCHANGED <<npm, toolbox>>

-----------------------------------------------------------------------------
(* The world *)

OpenCodeReleased ==
    /\ npm < MaxPublished
    /\ npm' = npm + 1
    /\ UNCHANGED <<toolbox, checks, presses, upkeep>>

(* OPENCODE_AUTO_UPDATE_TTL_HOURS have passed. *)
CacheExpires ==
    /\ toolbox.fresh
    /\ toolbox' = [toolbox EXCEPT !.fresh = FALSE]
    /\ UNCHANGED <<npm, checks, presses, upkeep>>

RuntimeNext ==
    \/ \E r \in Containers \cup Presses : ReadsInstalled(r) \/ LatestResolved(r) \/ Installs(r) \/ NpmFails(r)
    \/ \E c \in Containers : Reboots(c)
    \/ \E b \in Presses : UpdatePressed(b) \/ StatusChecked(b) \/ RestartsNext(b)
    \/ ImageArrives \/ OpenCodeReleased \/ CacheExpires

-----------------------------------------------------------------------------
(* Properties *)

(* Versions are releases, the cache names one when it is fresh, and a      *)
(* press has containers to restart while it is past its check.             *)
RuntimeTypeOK ==
    /\ {toolbox.installed, toolbox.cached} \subseteq 0 .. npm /\ toolbox.image \in 1 .. npm
    /\ toolbox.fresh => toolbox.cached # 0
    /\ \A r \in DOMAIN checks : checks[r].latest \in 0 .. npm /\ checks[r].current \in 0 .. npm
    /\ \A b \in Presses : presses[b].at = "exec" <=> presses[b].todo # {}

(* OpenCode is never replaced by an older release than it runs, by         *)
(* whatever sequence of checks, presses, restarts and releases, as long as *)
(* no two runs of the script overlap and no image arrived while an older   *)
(* answer of the registry was cached (opencode-auto-update.js:116, :171).  *)
OnlyForward ==
    [][~upkeep'.crossed /\ ~upkeep.imaged => Effective(toolbox') >= Effective(toolbox)]_runtime

=============================================================================
