---------------------------- MODULE ProjectFolders ----------------------------
(* The folders under PROJECTS_ROOT and what the backend keeps about them:   *)
(* creation, cloning and deletion (project-workspace.service.ts), compose   *)
(* commands and their saved status, the project each admin has selected     *)
(* (projects.service.ts), the registry and the maintenance sweep. A folder  *)
(* is known by its suffix: 1 is the name asked for, 2 is "<name>-2". Docker, *)
(* git and the agent, which edits the folders, act between the steps of a   *)
(* request. Every folder with files in it has a compose file.               *)
EXTENDS Naturals, FiniteSets

CONSTANTS
    MaxFolders,      \* bound: names tried for a new folder
    Pilots,          \* admins who select projects
    FolderCalls,     \* requests that may be in flight together
    MaxAsked,        \* bound: requests that wait for something
    MaxDirt,         \* bound: edits of the agent and the user's terminal
    MaxSlips         \* bound: failures of git, docker and the terminal

ASSUME FolderBounds == {MaxFolders, MaxAsked, MaxDirt, MaxSlips} \subseteq Nat

VARIABLES
    dir,      \* dir[s]: what is on disk under the name s
    loose,       \* loose[s]: the edits in s that no commit has
    dirt,        \* edits made so far
    containers,  \* containers[s]: what docker runs for s
    saved,       \* saved[s]: projects.state.json
    uncertain,   \* uncertain[s]: containers changed unseen, or commands overlapped
    chosen,      \* chosen[w]: active-project.json, 0 for none
    heard,       \* heard[w]: the last project.selected told to w
    unheard,     \* unheard[w]: a selection of w was suppressed, failed or overlapped
    records,     \* projects.json: folders that are registered
    errand,        \* errand[c]: the request c
    taken, slips

projects == <<dir, loose, dirt, containers, saved, uncertain, chosen, heard,
              unheard, records, errand, taken, slips>>

Slugs == 1 .. MaxFolders
NoErrand == [op |-> "none", step |-> "done", slug |-> 0]

FoldersTypeOK ==
    /\ dir \in [Slugs -> {"none", "empty", "plain", "cloning", "git"}]
    /\ loose \in [Slugs -> SUBSET (1 .. dirt)]
    /\ containers \in [Slugs -> {"up", "down"}]
    /\ saved \in [Slugs -> {"none", "running", "stopped"}]
    /\ uncertain \in [Slugs -> BOOLEAN]
    /\ chosen \in [Pilots -> 0 .. MaxFolders] /\ heard \in [Pilots -> 0 .. MaxFolders]
    /\ unheard \in [Pilots -> BOOLEAN]
    /\ records \subseteq Slugs
    /\ \A c \in FolderCalls : errand[c].op = "none" <=> errand[c] = NoErrand
    /\ dirt \in 0 .. MaxDirt /\ taken \in 0 .. MaxAsked /\ slips \in 0 .. MaxSlips

FoldersInit ==
    /\ dir = [s \in Slugs |-> "none"] /\ loose = [s \in Slugs |-> {}] /\ dirt = 0
    /\ containers = [s \in Slugs |-> "down"] /\ saved = [s \in Slugs |-> "none"]
    /\ uncertain = [s \in Slugs |-> FALSE]
    /\ chosen = [w \in Pilots |-> 0] /\ heard = chosen /\ unheard = [w \in Pilots |-> FALSE]
    /\ records = {} /\ errand = [c \in FolderCalls |-> NoErrand] /\ taken = 0 /\ slips = 0

There(s) == dir[s] # "none"

(* A request that waits for something, and its end. *)
Undertakes(c, r) ==
    /\ errand[c] = NoErrand /\ taken < MaxAsked
    /\ taken' = taken + 1
    /\ errand' = [errand EXCEPT ![c] = r]

At(c, op, step) == errand[c].op = op /\ errand[c].step = step

Proceeds(c, step) == errand' = [errand EXCEPT ![c].step = step]

Returns(c) == errand' = [errand EXCEPT ![c] = NoErrand]

(* A failure of a program the backend calls. *)
Slips == slips < MaxSlips /\ slips' = slips + 1

-----------------------------------------------------------------------------
(* Folders.                                                                *)

(* resolveUniqueFolderSlug: the first name that nothing on disk has. *)
IsFreeName(s) == ~There(s) /\ \A t \in 1 .. s - 1 : There(t)

(* Nothing runs between the look for a name and mkdirSync. *)
CreateFolder ==
    /\ \E s \in Slugs : IsFreeName(s) /\ dir' = [dir EXCEPT ![s] = "empty"]
    /\ UNCHANGED <<loose, dirt, containers, saved, uncertain, chosen, heard, unheard,
                   records, errand, taken, slips>>

CloneAsked(c) ==
    /\ \E s \in Slugs : IsFreeName(s) /\ Undertakes(c, [op |-> "clone", step |-> "git", slug |-> s])
    /\ UNCHANGED <<dir, loose, dirt, containers, saved, uncertain, chosen, heard,
                   unheard, records, slips>>

(* git refuses a folder that has something in it by now. *)
CloneBegins(c) ==
    /\ At(c, "clone", "git")
    /\ LET s == errand[c].slug IN
        IF dir[s] \in {"none", "empty"}
        THEN /\ dir' = [dir EXCEPT ![s] = "cloning"]
             /\ errand' = [errand EXCEPT ![c] =
                  [op |-> "clone", step |-> "copying", slug |-> s, found |-> dir[s]]]
        ELSE UNCHANGED dir /\ Returns(c)
    /\ UNCHANGED <<loose, dirt, containers, saved, uncertain, chosen, heard, unheard,
                   records, taken, slips>>

CloneEnds(c) ==
    /\ At(c, "clone", "copying")
    /\ dir' = [dir EXCEPT ![errand[c].slug] = "git"]
    /\ Returns(c)
    /\ UNCHANGED <<loose, dirt, containers, saved, uncertain, chosen, heard, unheard,
                   records, taken, slips>>

(* git fails, or is stopped after two minutes, and removes what it made; a *)
(* clone whose folder was deleted fails too.                               *)
CloneFails(c) ==
    /\ \/ /\ At(c, "clone", "copying") /\ Slips
          /\ dir' = [dir EXCEPT ![errand[c].slug] = errand[c].found]
       \/ At(c, "clone", "lost") /\ UNCHANGED <<dir, slips>>
    /\ Returns(c)
    /\ UNCHANGED <<loose, dirt, containers, saved, uncertain, chosen, heard, unheard,
                   records, taken>>

(* looked: the edits made before this deletion asked git for changes;      *)
(* repo: whether git told it that the folder is a repository.              *)
DeleteAsked(c, s) ==
    /\ There(s)
    /\ Undertakes(c, [op |-> "delete", step |-> "probe", slug |-> s, looked |-> 0, repo |-> TRUE])
    /\ UNCHANGED <<dir, loose, dirt, containers, saved, uncertain, chosen, heard,
                   unheard, records, slips>>

(* isGitRepository: any failure of git means "not a repository". *)
GitProbed(c) ==
    /\ At(c, "delete", "probe")
    /\ \/ /\ dir[errand[c].slug] \in {"git", "cloning"} /\ UNCHANGED slips
          /\ Proceeds(c, "status")
       \/ /\ IF dir[errand[c].slug] \in {"git", "cloning"} THEN Slips ELSE UNCHANGED slips
          /\ errand' = [errand EXCEPT ![c].step = "remove", ![c].repo = FALSE]
    /\ UNCHANGED <<dir, loose, dirt, containers, saved, uncertain, chosen, heard,
                   unheard, records, taken>>

NeverDirty(s) == FALSE

Dirty(s) == loose[s] # {}

(* A status that fails (the folder is gone, git is) fails the request.     *)
ChangesRead(c) ==
    /\ At(c, "delete", "status")
    /\ LET s == errand[c].slug IN
        IF ~There(s) \/ Dirty(s) THEN Returns(c)
        ELSE errand' = [errand EXCEPT ![c].step = "remove", ![c].looked = dirt]
    /\ UNCHANGED <<dir, loose, dirt, containers, saved, uncertain, chosen, heard,
                   unheard, records, taken, slips>>

(* rmSync of whatever has the name by now; containers, the saved status and *)
(* selections of the folder stay, a clone into it is lost.                  *)
FolderRemoved(c) ==
    /\ At(c, "delete", "remove")
    /\ LET s == errand[c].slug IN
        /\ dir' = [dir EXCEPT ![s] = "none"]
        /\ loose' = [loose EXCEPT ![s] = {}]
        /\ errand' = [k \in FolderCalls |->
             IF k = c THEN NoErrand
             ELSE IF At(k, "clone", "copying") /\ errand[k].slug = s
             THEN [errand[k] EXCEPT !.step = "lost"] ELSE errand[k]]
    /\ UNCHANGED <<dirt, containers, saved, uncertain, chosen, heard, unheard, records,
                   taken, slips>>

(* The agent, or the user in the terminal: an edit, a git init, a commit.  *)
AgentWorks(s) ==
    /\ dir[s] \in {"empty", "plain", "git"}
    /\ \/ /\ dirt < MaxDirt /\ dirt' = dirt + 1
          /\ loose' = [loose EXCEPT ![s] = @ \cup {dirt + 1}]
          /\ dir' = [dir EXCEPT ![s] = IF @ = "git" THEN @ ELSE "plain"]
       \/ /\ dir[s] = "plain" /\ dir' = [dir EXCEPT ![s] = "git"]
          /\ UNCHANGED <<loose, dirt>>
    /\ UNCHANGED <<containers, saved, uncertain, chosen, heard, unheard, records, errand,
                   taken, slips>>

(* commitAll: what was there at git add is in the commit.                  *)
CommitAsked(c, s) ==
    /\ dir[s] = "git" /\ loose[s] # {}
    /\ Undertakes(c, [op |-> "commit", step |-> "git", slug |-> s, staged |-> loose[s]])
    /\ UNCHANGED <<dir, loose, dirt, containers, saved, uncertain, chosen, heard,
                   unheard, records, slips>>

CommitEnds(c) ==
    /\ At(c, "commit", "git")
    /\ IF dir[errand[c].slug] = "git"
       THEN loose' = [loose EXCEPT ![errand[c].slug] = @ \ errand[c].staged] ELSE UNCHANGED loose
    /\ Returns(c)
    /\ UNCHANGED <<dir, dirt, containers, saved, uncertain, chosen, heard, unheard,
                   records, taken, slips>>

-----------------------------------------------------------------------------
(* Compose commands. "service" is a command for one service of a project.  *)

Commands == {"start", "stop", "restart", "service"}

CommandAsked(c, s, op) ==
    /\ dir[s] \in {"plain", "git"}
    /\ Undertakes(c, [op |-> op, step |-> "docker", slug |-> s])
    /\ UNCHANGED <<dir, loose, dirt, containers, saved, uncertain, chosen, heard,
                   unheard, records, slips>>

Acted(s) == {c \in FolderCalls : errand[c].slug = s /\ errand[c].step = "acted"}

(* What docker does to the containers; its process ends some time later.   *)
DockerActs(c) ==
    LET s == errand[c].slug IN
    /\ errand[c].op \in Commands /\ errand[c].step = "docker"
    /\ \E to \in {"up", "down"} :
        /\ errand[c].op \in {"start", "restart"} => to = "up"
        /\ errand[c].op = "stop" => to = "down"
        /\ containers' = [containers EXCEPT ![s] = to]
    /\ uncertain' = [uncertain EXCEPT ![s] = Acted(s) # {} \/ errand[c].op = "service"]
    /\ IF errand[c].op = "service" THEN Returns(c) ELSE Proceeds(c, "acted")
    /\ UNCHANGED <<dir, loose, dirt, saved, chosen, heard, unheard, records, taken, slips>>

(* A command that fails may have done its work for some of the containers. *)
DockerFails(c) ==
    /\ errand[c].op \in Commands /\ errand[c].step = "docker" /\ Slips
    /\ \E to \in {"up", "down"} : containers' = [containers EXCEPT ![errand[c].slug] = to]
    /\ uncertain' = [uncertain EXCEPT ![errand[c].slug] = TRUE]
    /\ Returns(c)
    /\ UNCHANGED <<dir, loose, dirt, saved, chosen, heard, unheard, records, taken>>

(* A container ends by itself. *)
ContainerDies(s) ==
    /\ containers[s] = "up" /\ Slips
    /\ containers' = [containers EXCEPT ![s] = "down"]
    /\ uncertain' = [uncertain EXCEPT ![s] = TRUE]
    /\ UNCHANGED <<dir, loose, dirt, saved, chosen, heard, unheard, records, errand, taken>>

StatusKept(op) == "running"

StatusOf(op) == IF op = "stop" THEN "stopped" ELSE "running"

StatusSaved(c) ==
    /\ errand[c].op \in Commands /\ errand[c].step = "acted"
    /\ saved' = [saved EXCEPT ![errand[c].slug] = StatusOf(errand[c].op)]
    /\ Returns(c)
    /\ UNCHANGED <<dir, loose, dirt, containers, uncertain, chosen, heard, unheard,
                   records, taken, slips>>

-----------------------------------------------------------------------------
(* Selections.                                                             *)

Selecting(w) == {c \in FolderCalls : errand[c].op = "select" /\ errand[c].who = w}

ReadAfter(w, s) == s

ReadBefore(w, s) == chosen[w]

(* The file says so before the terminal is there; the chat hears after. *)
SelectAsked(c, w, s, quiet) ==
    /\ There(s)
    /\ Undertakes(c, [op |-> "select", step |-> "terminal", slug |-> s, who |-> w,
                prev |-> ReadBefore(w, s), quiet |-> quiet])
    /\ chosen' = [chosen EXCEPT ![w] = s]
    /\ unheard' = [unheard EXCEPT ![w] =
         quiet \/ Selecting(w) # {} \/ (@ /\ chosen[w] = s)]
    /\ UNCHANGED <<dir, loose, dirt, containers, saved, uncertain, heard, records, slips>>

SelectEnds(c) ==
    /\ At(c, "select", "terminal")
    /\ IF ~errand[c].quiet /\ errand[c].prev # errand[c].slug
       THEN heard' = [heard EXCEPT ![errand[c].who] = errand[c].slug] ELSE UNCHANGED heard
    /\ Returns(c)
    /\ UNCHANGED <<dir, loose, dirt, containers, saved, uncertain, chosen, unheard,
                   records, taken, slips>>

(* No terminal, no event: the selection stays. *)
SelectFails(c) ==
    /\ At(c, "select", "terminal") /\ Slips
    /\ unheard' = [unheard EXCEPT ![errand[c].who] = TRUE]
    /\ Returns(c)
    /\ UNCHANGED <<dir, loose, dirt, containers, saved, uncertain, chosen, heard,
                   records, taken>>

(* getActiveProject forgets a selection whose folder is gone. *)
ActiveRead(w) ==
    /\ chosen[w] # 0 /\ ~There(chosen[w])
    /\ chosen' = [chosen EXCEPT ![w] = 0]
    /\ UNCHANGED <<dir, loose, dirt, containers, saved, uncertain, heard, unheard,
                   records, errand, taken, slips>>

-----------------------------------------------------------------------------
(* The registry and the sweep, which read projects.json and write it later. *)

RegisterAsked(c, s) ==
    /\ dir[s] \in {"plain", "git"} /\ s \notin records
    /\ Undertakes(c, [op |-> "register", step |-> "read", slug |-> s, read |-> records])
    /\ UNCHANGED <<dir, loose, dirt, containers, saved, uncertain, chosen, heard,
                   unheard, records, slips>>

Registered(c) ==
    /\ At(c, "register", "read")
    /\ records' = errand[c].read \cup {errand[c].slug}
    /\ Returns(c)
    /\ UNCHANGED <<dir, loose, dirt, containers, saved, uncertain, chosen, heard,
                   unheard, taken, slips>>

(* Selections and statuses of missing folders go at once. *)
SweepStarts(c) ==
    /\ Undertakes(c, [op |-> "sweep", step |-> "read", slug |-> 0, read |-> records])
    /\ chosen' = [w \in Pilots |-> IF chosen[w] # 0 /\ ~There(chosen[w]) THEN 0 ELSE chosen[w]]
    /\ saved' = [s \in Slugs |-> IF There(s) THEN saved[s] ELSE "none"]
    /\ UNCHANGED <<dir, loose, dirt, containers, uncertain, heard, unheard, records, slips>>

(* pruneMissingRoots writes only when it drops something. *)
SweepEnds(c) ==
    /\ At(c, "sweep", "read")
    /\ LET kept == {s \in errand[c].read : There(s)} IN
        records' = IF kept = errand[c].read THEN records ELSE kept
    /\ Returns(c)
    /\ UNCHANGED <<dir, loose, dirt, containers, saved, uncertain, chosen, heard,
                   unheard, taken, slips>>

FoldersNext ==
    \/ CreateFolder
    \/ \E w \in Pilots : ActiveRead(w)
    \/ \E s \in Slugs : AgentWorks(s) \/ ContainerDies(s)
    \/ \E c \in FolderCalls :
        \/ CloneAsked(c) \/ CloneBegins(c) \/ CloneEnds(c) \/ CloneFails(c)
        \/ GitProbed(c) \/ ChangesRead(c) \/ FolderRemoved(c) \/ CommitEnds(c)
        \/ DockerActs(c) \/ DockerFails(c) \/ StatusSaved(c)
        \/ SelectEnds(c) \/ SelectFails(c)
        \/ Registered(c) \/ SweepStarts(c) \/ SweepEnds(c)
        \/ \E s \in Slugs :
            \/ DeleteAsked(c, s) \/ CommitAsked(c, s) \/ RegisterAsked(c, s)
            \/ \E op \in Commands : CommandAsked(c, s, op)
            \/ \E w \in Pilots, quiet \in BOOLEAN : SelectAsked(c, w, s, quiet)

-----------------------------------------------------------------------------
(* projects.state.json says what docker runs once the project's commands   *)
(* are recorded, unless they overlapped or a container changed unseen.      *)
SavedStatusIsTrue ==
    \A s \in Slugs : saved[s] # "none" /\ Acted(s) = {} /\ ~uncertain[s]
        => (saved[s] = "running" <=> containers[s] = "up")

(* Every selection reaches the chat: with none in flight, the project the  *)
(* chat heard of last is the one its prompts go to, unless a selection was *)
(* suppressed, failed, or overlapped another of the same admin.            *)
ToldOfSelection ==
    \A w \in Pilots : chosen[w] # 0 /\ Selecting(w) = {} /\ ~unheard[w] => heard[w] = chosen[w]

ShownIsTrue == SavedStatusIsTrue /\ ToldOfSelection

(* A deletion destroys no uncommitted work of a repository that was there  *)
(* when it asked git for changes, unless git failed to say that the folder *)
(* is a repository; a record leaves the registry with its folder, or with a *)
(* writer that had read the file before the record was made.               *)
FoldersAreKept ==
    [][/\ \A s \in Slugs : dir[s] = "git" /\ dir'[s] = "none" =>
            \E c \in FolderCalls :
                /\ errand[c].slug = s /\ At(c, "delete", "remove") /\ errand'[c] = NoErrand
                /\ errand[c].repo => (\A e \in loose[s] : e > errand[c].looked)
       /\ \A s \in records \ records' : There(s) =>
            \E c \in FolderCalls :
                errand[c] # errand'[c] /\ errand[c].step = "read" /\ s \notin errand[c].read]_projects

=============================================================================
