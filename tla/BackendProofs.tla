--------------------------- MODULE BackendProofs ---------------------------
(***************************************************************************)
(* What parts of the backend and of its OpenCode keep, proved for every    *)
(* value of the constants: project folders, images and releases, the file  *)
(* of the board, the pass over projects, the board's tools for agents,     *)
(* prompts in OpenCode's sessions, questions and permissions, the accounts *)
(* of CLIProxy, the outbound proxy, the logins and the accounts of         *)
(* providers.                                                              *)
(***************************************************************************)
EXTENDS ProjectFolders, RuntimeUpdates, BoardStore, OpenCodeProjectSync,
        KanbanTools, OpenCodeSessions, Approvals, CliproxyAccounts,
        ProxySettings, ProviderAccounts, SequenceTheorems, NaturalsInduction,
        WellFoundedInduction, TLAPS

-----------------------------------------------------------------------------
(* Project folders *)

FoldersSpec == FoldersInit /\ [][FoldersNext]_projects

Errands ==
    {NoErrand}
    \cup [op : {"clone"}, step : {"git"}, slug : Slugs]
    \cup [op : {"clone"}, step : {"copying", "lost"}, slug : Slugs, found : {"none", "empty"}]
    \cup [op : {"delete"}, step : {"probe", "status", "remove"}, slug : Slugs, looked : Nat, repo : BOOLEAN]
    \cup [op : {"commit"}, step : {"git"}, slug : Slugs, staged : SUBSET Nat]
    \cup [op : Commands, step : {"docker", "acted"}, slug : Slugs]
    \cup [op : {"select"}, step : {"terminal"}, slug : Slugs, who : Pilots, prev : 0 .. MaxFolders,
          quiet : BOOLEAN]
    \cup [op : {"register"}, step : {"read"}, slug : Slugs, read : SUBSET Slugs]
    \cup [op : {"sweep"}, step : {"read"}, slug : {0}, read : SUBSET Slugs]

FoldersTyped ==
    /\ dir \in [Slugs -> {"none", "empty", "plain", "cloning", "git"}]
    /\ dirt \in Nat /\ loose \in [Slugs -> SUBSET (1 .. dirt)]
    /\ containers \in [Slugs -> {"up", "down"}]
    /\ saved \in [Slugs -> {"none", "running", "stopped"}]
    /\ uncertain \in [Slugs -> BOOLEAN]
    /\ chosen \in [Pilots -> 0 .. MaxFolders] /\ heard \in [Pilots -> 0 .. MaxFolders]
    /\ unheard \in [Pilots -> BOOLEAN]
    /\ records \subseteq Slugs
    /\ errand \in [FolderCalls -> Errands]

Agrees(s, status) == (status = "running") = (containers[s] = "up")

(* What a command is about to record is so, and what is recorded is so     *)
(* unless a command is about to record something else.                     *)
StatusInv ==
    \A s \in Slugs : ~uncertain[s] =>
      /\ \A c \in FolderCalls : errand[c].step = "acted" /\ errand[c].slug = s =>
           errand[c].op # "service" /\ Agrees(s, StatusOf(errand[c].op))
      /\ saved[s] # "none" /\ Acted(s) = {} => Agrees(s, saved[s])

(* The one selection under way is the one in the file, and it will be told *)
(* if the chat does not know.                                              *)
SelectInv ==
    \A w \in Pilots : ~unheard[w] =>
      /\ chosen[w] # 0 /\ Selecting(w) = {} => heard[w] = chosen[w]
      /\ \A c \in Selecting(w) :
           /\ Selecting(w) = {c} /\ ~errand[c].quiet
           /\ chosen[w] # 0 => /\ errand[c].slug = chosen[w]
                               /\ errand[c].prev = errand[c].slug => heard[w] = chosen[w]

(* A deletion that was told the folder is clean loses only later edits. *)
DeleteInv ==
    \A c \in FolderCalls :
      errand[c].op = "delete" =>
        /\ errand[c].looked <= dirt
        /\ At(c, "delete", "remove") /\ errand[c].repo =>
             \A e \in loose[errand[c].slug] : e > errand[c].looked

(* A folder that is being cloned into is nobody else's. *)
CloneInv ==
    \A c \in FolderCalls : At(c, "clone", "copying") =>
      /\ dir[errand[c].slug] = "cloning"
      /\ \A k \in FolderCalls : At(k, "clone", "copying") /\ errand[k].slug = errand[c].slug => k = c

FoldersInv == FoldersTyped /\ StatusInv /\ SelectInv /\ DeleteInv /\ CloneInv

-----------------------------------------------------------------------------
(* Errands *)

(* Whatever a request is doing, it has an operation, a step and a folder. *)
LEMMA ErrandShape ==
    ASSUME FoldersTyped, NEW c \in FolderCalls
    PROVE  /\ errand[c] \in Errands
           /\ At(c, "clone", "git") => errand[c].slug \in Slugs
           /\ At(c, "clone", "copying") \/ At(c, "clone", "lost") =>
                errand[c] \in [op : {"clone"}, step : {"copying", "lost"}, slug : Slugs, found : {"none", "empty"}]
           /\ errand[c].op = "delete" =>
                errand[c] \in [op : {"delete"}, step : {"probe", "status", "remove"}, slug : Slugs, looked : Nat, repo : BOOLEAN]
           /\ errand[c].op = "commit" => errand[c] \in [op : {"commit"}, step : {"git"}, slug : Slugs, staged : SUBSET Nat]
           /\ errand[c].op \in Commands => errand[c] \in [op : Commands, step : {"docker", "acted"}, slug : Slugs]
           /\ errand[c].op = "select" =>
                errand[c] \in [op : {"select"}, step : {"terminal"}, slug : Slugs, who : Pilots, prev : 0 .. MaxFolders, quiet : BOOLEAN]
           /\ errand[c].op = "register" => errand[c] \in [op : {"register"}, step : {"read"}, slug : Slugs, read : SUBSET Slugs]
           /\ errand[c].op = "sweep" => errand[c] \in [op : {"sweep"}, step : {"read"}, slug : {0}, read : SUBSET Slugs]
           /\ errand[c].step = "acted" => errand[c].op \in Commands
           /\ errand[c].step = "remove" => errand[c].op = "delete"
           /\ errand[c].step \in {"copying", "lost"} => errand[c].op = "clone"
           /\ errand[c].step = "read" => errand[c].op \in {"register", "sweep"}
           /\ errand[c].step = "terminal" => errand[c].op = "select"
<1>1. errand[c] \in Errands
  BY DEF FoldersTyped
<1> QED BY <1>1 DEF Errands, NoErrand, At, Commands

LEMMA NobodysErrand == NoErrand \in Errands /\ NoErrand.op = "none" /\ NoErrand.step = "done"
BY DEF Errands, NoErrand

(* Request c now does x. *)
ErrandIs(c, x) ==
    /\ x \in Errands
    /\ errand' \in [FolderCalls -> Errands]
    /\ errand'[c] = x
    /\ \A k \in FolderCalls : k # c => errand'[k] = errand[k]

LEMMA ErrandBecomes ==
    ASSUME FoldersTyped, NEW c \in FolderCalls, NEW x \in Errands, errand' = [errand EXCEPT ![c] = x]
    PROVE  ErrandIs(c, x)
BY DEF FoldersTyped, ErrandIs

LEMMA ErrandReturns ==
    ASSUME FoldersTyped, NEW c \in FolderCalls, Returns(c)
    PROVE  ErrandIs(c, NoErrand)
BY NobodysErrand, ErrandBecomes DEF Returns

-----------------------------------------------------------------------------
(* What a step leaves alone *)

LEMMA StatusFrame ==
    ASSUME FoldersInv, UNCHANGED <<containers, saved, uncertain>>, errand' \in [FolderCalls -> Errands],
           \A c \in FolderCalls : \/ errand'[c] = errand[c]
                                  \/ errand[c].step # "acted" /\ errand'[c].step # "acted"
    PROVE  StatusInv'
<1>1. \A s \in Slugs : Acted(s)' = Acted(s)
  BY DEF Acted
<1> QED BY <1>1 DEF FoldersInv, StatusInv, Agrees

LEMMA SelectFrame ==
    ASSUME FoldersInv, UNCHANGED <<chosen, heard, unheard>>, errand' \in [FolderCalls -> Errands],
           \A c \in FolderCalls : \/ errand'[c] = errand[c]
                                  \/ errand[c].op # "select" /\ errand'[c].op # "select"
    PROVE  SelectInv'
<1>1. \A w \in Pilots : Selecting(w)' = Selecting(w) /\ \A c \in Selecting(w) : errand'[c] = errand[c]
  BY DEF Selecting
<1> QED BY <1>1 DEF FoldersInv, SelectInv

LEMMA DeleteFrame ==
    ASSUME FoldersInv, UNCHANGED <<loose, dirt>>, errand' \in [FolderCalls -> Errands],
           \A c \in FolderCalls : errand'[c] = errand[c] \/ errand'[c].op # "delete"
    PROVE  DeleteInv'
BY DEF FoldersInv, DeleteInv, At

LEMMA CloneFrame ==
    ASSUME FoldersInv, errand' \in [FolderCalls -> Errands],
           \A c \in FolderCalls : \/ errand'[c] = errand[c]
                                  \/ errand'[c].step # "copying",
           \A s \in Slugs : dir[s] = "cloning" => dir'[s] = "cloning"
    PROVE  CloneInv'
<1>1. \A c \in FolderCalls : errand'[c].op = "clone" /\ errand'[c].step = "copying" =>
        errand'[c] = errand[c] /\ At(c, "clone", "copying") /\ errand[c].slug \in Slugs
  BY ErrandShape DEF At, FoldersInv
<1> QED BY <1>1 DEF FoldersInv, CloneInv, At

(* A request begins, goes on or returns without a selection, a command, a  *)
(* deletion or a clone of its own that has got anywhere.                   *)
LEMMA QuietStep ==
    ASSUME FoldersInv, NEW c \in FolderCalls, NEW x, ErrandIs(c, x),
           errand[c].step # "acted" /\ x.step # "acted", errand[c].op # "select" /\ x.op # "select",
           x.op # "delete", x.step # "copying",
           UNCHANGED <<containers, saved, uncertain, chosen, heard, unheard>>
    PROVE  /\ StatusInv' /\ SelectInv'
           /\ UNCHANGED <<loose, dirt>> => DeleteInv'
           /\ (\A s \in Slugs : dir[s] = "cloning" => dir'[s] = "cloning") => CloneInv'
<1>1. /\ errand' \in [FolderCalls -> Errands]
      /\ \A k \in FolderCalls : k # c => errand'[k] = errand[k]
      /\ errand'[c] = x
  BY DEF ErrandIs
<1>2. StatusInv'
  BY <1>1, StatusFrame
<1>3. SelectInv'
  BY <1>1, SelectFrame
<1>4. ASSUME UNCHANGED <<loose, dirt>> PROVE DeleteInv'
  BY <1>1, <1>4, DeleteFrame
<1>5. ASSUME \A s \in Slugs : dir[s] = "cloning" => dir'[s] = "cloning" PROVE CloneInv'
  BY <1>1, <1>5, CloneFrame
<1> QED BY <1>2, <1>3, <1>4, <1>5

-----------------------------------------------------------------------------
(* Folders *)

LEMMA CreateKeeps == ASSUME FoldersInv, CreateFolder PROVE FoldersInv'
<1>1. PICK s \in Slugs : IsFreeName(s) /\ dir' = [dir EXCEPT ![s] = "empty"]
  BY DEF CreateFolder
<1>2. UNCHANGED <<loose, dirt, containers, saved, uncertain, chosen, heard, unheard, records, errand>>
  BY DEF CreateFolder
<1>3. FoldersTyped'
  BY <1>1, <1>2 DEF FoldersInv, FoldersTyped
<1>4. \A t \in Slugs : dir[t] = "cloning" => dir'[t] = "cloning"
  BY <1>1 DEF FoldersInv, FoldersTyped, IsFreeName, There
<1>5. errand' \in [FolderCalls -> Errands]
  BY <1>2 DEF FoldersInv, FoldersTyped
<1> QED BY <1>2, <1>3, <1>4, <1>5, StatusFrame, SelectFrame, DeleteFrame, CloneFrame DEF FoldersInv

(* A request that begins, with what it notes. *)
LEMMA AskedKeeps ==
    ASSUME FoldersInv, NEW c \in FolderCalls, NEW x \in Errands, Undertakes(c, x),
           x.step \notin {"acted", "copying", "remove"}, x.op # "select",
           x.op = "delete" => x.looked <= dirt,
           UNCHANGED <<dir, loose, dirt, containers, uncertain, heard, unheard, records>>,
           UNCHANGED <<saved, chosen>>
    PROVE  FoldersInv'
<1>1. ErrandIs(c, x) /\ errand[c] = NoErrand
  BY ErrandBecomes DEF Undertakes, FoldersInv
<1>2. FoldersTyped'
  BY <1>1 DEF FoldersInv, FoldersTyped, ErrandIs
<1>3. StatusInv'
  BY <1>1, NobodysErrand, StatusFrame DEF ErrandIs
<1>4. SelectInv'
  BY <1>1, NobodysErrand, SelectFrame DEF ErrandIs
<1>5. CloneInv'
  BY <1>1, CloneFrame DEF ErrandIs
<1>6. DeleteInv'
  <2> SUFFICES ASSUME NEW k \in FolderCalls, errand'[k].op = "delete"
               PROVE  /\ errand'[k].looked <= dirt
                      /\ errand'[k].step = "remove" /\ errand'[k].repo =>
                           \A e \in loose[errand'[k].slug] : e > errand'[k].looked
    BY DEF DeleteInv, At
  <2>1. CASE k = c
    BY <1>1, <2>1 DEF ErrandIs
  <2>2. CASE k # c
    BY <1>1, <2>2 DEF ErrandIs, FoldersInv, DeleteInv, At
  <2> QED BY <2>1, <2>2
<1> QED BY <1>2, <1>3, <1>4, <1>5, <1>6 DEF FoldersInv

LEMMA AsksKeep ==
    ASSUME FoldersInv, NEW c \in FolderCalls,
           \/ CloneAsked(c)
           \/ \E s \in Slugs : \/ DeleteAsked(c, s) \/ CommitAsked(c, s) \/ RegisterAsked(c, s)
                               \/ \E op \in Commands : CommandAsked(c, s, op)
    PROVE  FoldersInv'
<1>1. dirt \in Nat /\ loose \in [Slugs -> SUBSET (1 .. dirt)] /\ records \subseteq Slugs
  BY DEF FoldersInv, FoldersTyped
<1>2. CASE CloneAsked(c)
  <2>1. PICK s \in Slugs : Undertakes(c, [op |-> "clone", step |-> "git", slug |-> s])
    BY <1>2 DEF CloneAsked
  <2>2. [op |-> "clone", step |-> "git", slug |-> s] \in Errands
    BY DEF Errands
  <2>3. UNCHANGED <<dir, loose, dirt, containers, uncertain, heard, unheard, records, saved, chosen>>
    BY <1>2 DEF CloneAsked
  <2> QED BY <2>1, <2>2, <2>3, AskedKeeps
<1>3. ASSUME NEW s \in Slugs, DeleteAsked(c, s) PROVE FoldersInv'
  <2> DEFINE x == [op |-> "delete", step |-> "probe", slug |-> s, looked |-> 0, repo |-> TRUE]
  <2>1. Undertakes(c, x) /\ UNCHANGED <<dir, loose, dirt, containers, uncertain, heard, unheard, records, saved, chosen>>
    BY <1>3 DEF DeleteAsked
  <2>2. x \in Errands /\ x.op = "delete" /\ x.step = "probe" /\ x.looked <= dirt
    BY <1>1 DEF Errands
  <2> HIDE DEF x
  <2> QED BY <2>1, <2>2, AskedKeeps
<1>4. ASSUME NEW s \in Slugs, CommitAsked(c, s) PROVE FoldersInv'
  <2> DEFINE x == [op |-> "commit", step |-> "git", slug |-> s, staged |-> loose[s]]
  <2>1. Undertakes(c, x) /\ UNCHANGED <<dir, loose, dirt, containers, uncertain, heard, unheard, records, saved, chosen>>
    BY <1>4 DEF CommitAsked
  <2>2. x \in Errands /\ x.op = "commit" /\ x.step = "git"
    BY <1>1 DEF Errands
  <2> HIDE DEF x
  <2> QED BY <2>1, <2>2, AskedKeeps
<1>5. ASSUME NEW s \in Slugs, RegisterAsked(c, s) PROVE FoldersInv'
  <2> DEFINE x == [op |-> "register", step |-> "read", slug |-> s, read |-> records]
  <2>1. Undertakes(c, x) /\ UNCHANGED <<dir, loose, dirt, containers, uncertain, heard, unheard, records, saved, chosen>>
    BY <1>5 DEF RegisterAsked
  <2>2. x \in Errands /\ x.op = "register" /\ x.step = "read"
    BY <1>1 DEF Errands
  <2> HIDE DEF x
  <2> QED BY <2>1, <2>2, AskedKeeps
<1>6. ASSUME NEW s \in Slugs, NEW op \in Commands, CommandAsked(c, s, op) PROVE FoldersInv'
  <2> DEFINE x == [op |-> op, step |-> "docker", slug |-> s]
  <2>1. Undertakes(c, x) /\ UNCHANGED <<dir, loose, dirt, containers, uncertain, heard, unheard, records, saved, chosen>>
    BY <1>6 DEF CommandAsked
  <2>2. x \in Errands /\ x.op \notin {"select", "delete"} /\ x.step = "docker"
    BY DEF Errands, Commands
  <2> HIDE DEF x
  <2> QED BY <2>1, <2>2, AskedKeeps
<1> QED BY <1>2, <1>3, <1>4, <1>5, <1>6

LEMMA CloneBeginsKeeps == ASSUME FoldersInv, NEW c \in FolderCalls, CloneBegins(c) PROVE FoldersInv'
<1> DEFINE s == errand[c].slug
<1>1. /\ errand[c].op = "clone" /\ errand[c].step = "git" /\ s \in Slugs
      /\ UNCHANGED <<loose, dirt, containers, saved, uncertain, chosen, heard, unheard, records>>
      /\ FoldersTyped
  BY ErrandShape DEF CloneBegins, At, FoldersInv
<1>2. CASE dir[s] \notin {"none", "empty"}
  <2>1. UNCHANGED dir /\ Returns(c)
    BY <1>2 DEF CloneBegins
  <2>2. ErrandIs(c, NoErrand)
    BY <1>1, <2>1, ErrandReturns
  <2>3. FoldersTyped'
    BY <1>1, <2>1, <2>2 DEF FoldersTyped, ErrandIs
  <2> QED BY <1>1, <2>1, <2>2, <2>3, QuietStep, NobodysErrand DEF FoldersInv
<1>3. CASE dir[s] \in {"none", "empty"}
  <2> DEFINE x == [op |-> "clone", step |-> "copying", slug |-> s, found |-> dir[s]]
  <2>1. dir' = [dir EXCEPT ![s] = "cloning"] /\ errand' = [errand EXCEPT ![c] = x]
    BY <1>3 DEF CloneBegins
  <2>2. x \in Errands /\ x.op = "clone" /\ x.step = "copying" /\ x.slug = s
    BY <1>1, <1>3 DEF Errands
  <2> HIDE DEF x
  <2>3. ErrandIs(c, x)
    BY <1>1, <2>1, <2>2, ErrandBecomes
  <2>4. FoldersTyped'
    BY <1>1, <2>1, <2>3 DEF FoldersTyped, ErrandIs
  <2>5. StatusInv'
    BY <1>1, <2>2, <2>3, StatusFrame DEF ErrandIs
  <2>6. SelectInv'
    BY <1>1, <2>2, <2>3, SelectFrame DEF ErrandIs
  <2>7. DeleteInv'
    BY <1>1, <2>2, <2>3, DeleteFrame DEF ErrandIs
  <2>8. CloneInv'
    <3>1. \A k \in FolderCalls : k # c /\ errand'[k].op = "clone" /\ errand'[k].step = "copying" =>
            /\ errand'[k] = errand[k] /\ At(k, "clone", "copying") /\ errand[k].slug \in Slugs
            /\ dir[errand[k].slug] = "cloning" /\ errand[k].slug # s
      <4> SUFFICES ASSUME NEW k \in FolderCalls, k # c, errand'[k].op = "clone", errand'[k].step = "copying"
                   PROVE  /\ errand'[k] = errand[k] /\ At(k, "clone", "copying") /\ errand[k].slug \in Slugs
                          /\ dir[errand[k].slug] = "cloning" /\ errand[k].slug # s
        OBVIOUS
      <4>1. errand'[k] = errand[k] /\ At(k, "clone", "copying")
        BY <2>3 DEF ErrandIs, At
      <4>2. dir[errand[k].slug] = "cloning"
        BY <4>1 DEF FoldersInv, CloneInv
      <4>3. errand[k].slug \in Slugs
        BY <1>1, <4>1, ErrandShape
      <4> QED BY <1>3, <4>1, <4>2, <4>3
    <3>2. errand'[c] = x /\ dir'[s] = "cloning" /\ \A t \in Slugs : t # s => dir'[t] = dir[t]
      BY <1>1, <2>1, <2>3 DEF ErrandIs, FoldersTyped
    <3> QED BY <2>2, <3>1, <3>2 DEF CloneInv, At, FoldersInv
  <2> QED BY <2>4, <2>5, <2>6, <2>7, <2>8 DEF FoldersInv
<1> QED BY <1>2, <1>3

(* Two clones never copy into one folder, as the first makes it "cloning". *)
LEMMA CloneLeavesKeeps ==
    ASSUME FoldersInv, NEW c \in FolderCalls, At(c, "clone", "copying") \/ At(c, "clone", "lost"),
           Returns(c), NEW d \in {"none", "empty", "git"},
           UNCHANGED <<loose, dirt, containers, saved, uncertain, chosen, heard, unheard, records>>,
           \/ dir' = dir
           \/ /\ At(c, "clone", "copying")
              /\ dir' = [dir EXCEPT ![errand[c].slug] = d]
    PROVE  FoldersInv'
<1>1. FoldersTyped /\ ErrandIs(c, NoErrand) /\ errand[c].slug \in Slugs /\ errand[c].op = "clone"
      /\ errand[c].step \in {"copying", "lost"}
  BY ErrandReturns, ErrandShape DEF FoldersInv, At
<1>2. FoldersTyped'
  BY <1>1 DEF FoldersTyped, ErrandIs
<1>3. StatusInv' /\ SelectInv' /\ DeleteInv'
  BY <1>1, QuietStep, NobodysErrand
<1>4. CloneInv'
  <2>1. \A k \in FolderCalls : errand'[k].op = "clone" /\ errand'[k].step = "copying" =>
          k # c /\ errand'[k] = errand[k] /\ At(k, "clone", "copying") /\ errand[k].slug \in Slugs
    BY <1>1, NobodysErrand, ErrandShape DEF ErrandIs, At
  <2>2. \A k \in FolderCalls : k # c /\ At(k, "clone", "copying") => dir'[errand[k].slug] = "cloning"
    BY <1>1, ErrandShape DEF FoldersTyped, FoldersInv, CloneInv
  <2> QED BY <2>1, <2>2 DEF FoldersInv, CloneInv, At
<1> QED BY <1>2, <1>3, <1>4 DEF FoldersInv

LEMMA CloneEndsKeeps ==
    ASSUME FoldersInv, NEW c \in FolderCalls, CloneEnds(c) \/ CloneFails(c)
    PROVE  FoldersInv'
<1>1. /\ UNCHANGED <<loose, dirt, containers, saved, uncertain, chosen, heard, unheard, records>> /\ Returns(c)
      /\ At(c, "clone", "copying") \/ At(c, "clone", "lost")
      /\ At(c, "clone", "copying") => errand[c].found \in {"none", "empty"}
  BY ErrandShape DEF CloneEnds, CloneFails, FoldersInv
<1>2. \E d \in {"none", "empty", "git"} :
        \/ dir' = dir
        \/ At(c, "clone", "copying") /\ dir' = [dir EXCEPT ![errand[c].slug] = d]
  <2>1. CASE CloneEnds(c)
    BY <2>1 DEF CloneEnds
  <2>2. CASE CloneFails(c)
    BY <1>1, <2>2 DEF CloneFails
  <2> QED BY <2>1, <2>2
<1> QED BY <1>1, <1>2, CloneLeavesKeeps

LEMMA ProbeKeeps == ASSUME FoldersInv, NEW c \in FolderCalls, GitProbed(c) \/ ChangesRead(c) PROVE FoldersInv'
<1> DEFINE s == errand[c].slug
<1>1. /\ errand[c].op = "delete" /\ errand[c].step \in {"probe", "status"} /\ s \in Slugs
      /\ errand[c] \in [op : {"delete"}, step : {"probe", "status", "remove"}, slug : Slugs, looked : Nat, repo : BOOLEAN]
      /\ UNCHANGED <<dir, loose, dirt, containers, saved, uncertain, chosen, heard, unheard, records>>
      /\ FoldersTyped /\ dirt \in Nat /\ errand[c].looked <= dirt
  BY ErrandShape DEF GitProbed, ChangesRead, At, FoldersInv, DeleteInv, FoldersTyped
<1>2. \E x \in Errands :
        /\ errand' = [errand EXCEPT ![c] = x]
        /\ x.step \notin {"acted", "copying"} /\ x.op # "select"
        /\ \/ x.op # "delete"
           \/ /\ x.slug = s /\ x.looked <= dirt /\ x.op = "delete"
              /\ x.step = "remove" /\ x.repo => loose[s] = {}
  <2>1. CASE GitProbed(c) /\ errand' = [errand EXCEPT ![c].step = "status"]
    <3> DEFINE x == [errand[c] EXCEPT !.step = "status"]
    <3>1. /\ x \in [op : {"delete"}, step : {"probe", "status", "remove"}, slug : Slugs, looked : Nat, repo : BOOLEAN]
          /\ x.step = "status" /\ x.slug = s /\ x.looked = errand[c].looked
      BY <1>1
    <3>2. errand' = [errand EXCEPT ![c] = x]
      BY <2>1
    <3> HIDE DEF x
    <3> QED BY <1>1, <3>1, <3>2 DEF Errands
  <2>2. CASE GitProbed(c) /\ errand' = [errand EXCEPT ![c].step = "remove", ![c].repo = FALSE]
    <3> DEFINE x == [errand[c] EXCEPT !.step = "remove", !.repo = FALSE]
    <3>1. /\ x \in [op : {"delete"}, step : {"probe", "status", "remove"}, slug : Slugs, looked : Nat, repo : BOOLEAN]
          /\ x.step = "remove" /\ x.slug = s /\ x.looked = errand[c].looked /\ x.repo = FALSE
      BY <1>1
    <3>2. errand' = [errand EXCEPT ![c] = x]
      BY <1>1, <2>2 DEF FoldersTyped
    <3> HIDE DEF x
    <3> QED BY <1>1, <3>1, <3>2 DEF Errands
  <2>3. CASE ChangesRead(c) /\ Returns(c)
    BY <2>3, NobodysErrand DEF Returns
  <2>4. CASE ChangesRead(c) /\ ~(~There(s) \/ Dirty(s))
    <3> DEFINE x == [errand[c] EXCEPT !.step = "remove", !.looked = dirt]
    <3>1. /\ x \in [op : {"delete"}, step : {"probe", "status", "remove"}, slug : Slugs, looked : Nat, repo : BOOLEAN]
          /\ x.step = "remove" /\ x.slug = s /\ x.looked = dirt
      BY <1>1
    <3>2. /\ errand' = [errand EXCEPT ![c].step = "remove", ![c].looked = dirt]
          /\ loose[s] = {}
      BY <2>4 DEF ChangesRead, Dirty
    <3>3. errand' = [errand EXCEPT ![c] = x]
      BY <1>1, <3>2 DEF FoldersTyped
    <3> HIDE DEF x
    <3>4. x \in Errands /\ x.op = "delete" /\ x.looked <= dirt
      BY <1>1, <3>1 DEF Errands
    <3> QED BY <3>1, <3>2, <3>3, <3>4
  <2> QED BY <2>1, <2>2, <2>3, <2>4 DEF GitProbed, ChangesRead, Proceeds
<1>3. PICK x \in Errands :
        /\ errand' = [errand EXCEPT ![c] = x]
        /\ x.step \notin {"acted", "copying"} /\ x.op # "select"
        /\ \/ x.op # "delete"
           \/ /\ x.slug = s /\ x.looked <= dirt /\ x.op = "delete"
              /\ x.step = "remove" /\ x.repo => loose[s] = {}
  BY <1>2
<1>4. ErrandIs(c, x)
  BY <1>1, <1>3, ErrandBecomes
<1>5. FoldersTyped'
  BY <1>1, <1>4 DEF FoldersTyped, ErrandIs
<1>6. StatusInv'
  BY <1>1, <1>3, <1>4, StatusFrame DEF ErrandIs
<1>7. SelectInv'
  BY <1>1, <1>3, <1>4, SelectFrame DEF ErrandIs
<1>8. CloneInv'
  BY <1>1, <1>3, <1>4, CloneFrame DEF ErrandIs
<1>9. DeleteInv'
  BY <1>1, <1>3, <1>4 DEF ErrandIs, DeleteInv, FoldersInv, At
<1> QED BY <1>5, <1>6, <1>7, <1>8, <1>9 DEF FoldersInv

LEMMA RemoveKeeps == ASSUME FoldersInv, NEW c \in FolderCalls, FolderRemoved(c) PROVE FoldersInv'
<1> DEFINE s == errand[c].slug
           Lost(k) == At(k, "clone", "copying") /\ errand[k].slug = s
<1>1. /\ errand[c].op = "delete" /\ errand[c].step = "remove" /\ s \in Slugs /\ FoldersTyped
      /\ UNCHANGED <<dirt, containers, saved, uncertain, chosen, heard, unheard, records>>
      /\ dir' = [dir EXCEPT ![s] = "none"] /\ loose' = [loose EXCEPT ![s] = {}]
      /\ errand' = [k \in FolderCalls |-> IF k = c THEN NoErrand
                      ELSE IF Lost(k) THEN [errand[k] EXCEPT !.step = "lost"] ELSE errand[k]]
  BY ErrandShape DEF FolderRemoved, At, FoldersInv
<1>2. \A k \in FolderCalls : Lost(k) =>
        /\ [errand[k] EXCEPT !.step = "lost"] \in Errands
        /\ [errand[k] EXCEPT !.step = "lost"].op = "clone"
        /\ [errand[k] EXCEPT !.step = "lost"].step = "lost"
  BY <1>1, ErrandShape DEF Errands
<1> HIDE DEF Lost
<1>3. errand' \in [FolderCalls -> Errands]
  BY <1>1, <1>2, NobodysErrand DEF FoldersTyped
<1>4. \A k \in FolderCalls : \/ errand'[k] = errand[k] /\ ~Lost(k) /\ k # c
                             \/ errand[k].op = "clone" /\ errand[k].step = "copying"
                                /\ errand'[k].op = "clone" /\ errand'[k].step = "lost"
                             \/ k = c /\ errand'[k] = NoErrand
  BY <1>1, <1>2 DEF Lost, At
<1>5. FoldersTyped'
  BY <1>1, <1>3 DEF FoldersTyped
<1>6. StatusInv'
  BY <1>1, <1>3, <1>4, NobodysErrand, StatusFrame
<1>7. SelectInv'
  BY <1>1, <1>3, <1>4, NobodysErrand, SelectFrame
<1>8. DeleteInv'
  <2>1. \A t \in Slugs : loose'[t] \subseteq loose[t]
    BY <1>1 DEF FoldersTyped
  <2>2. \A k \in FolderCalls : errand'[k].op = "delete" => errand'[k] = errand[k] /\ errand[k].slug \in Slugs
    BY <1>1, <1>4, NobodysErrand, ErrandShape
  <2>3. \A k \in FolderCalls : errand[k].op = "delete" =>
          /\ errand[k].looked <= dirt
          /\ errand[k].step = "remove" /\ errand[k].repo => \A e \in loose[errand[k].slug] : e > errand[k].looked
    BY DEF DeleteInv, FoldersInv, At
  <2>4. \A k \in FolderCalls : errand'[k].op = "delete" =>
          /\ errand'[k].looked <= dirt
          /\ errand'[k].step = "remove" /\ errand'[k].repo => \A e \in loose'[errand'[k].slug] : e > errand'[k].looked
    BY <2>1, <2>2, <2>3
  <2> QED BY <1>1, <2>4 DEF DeleteInv, At
<1>9. CloneInv'
  <2>1. \A k \in FolderCalls : errand'[k].op = "clone" /\ errand'[k].step = "copying" =>
          errand'[k] = errand[k] /\ At(k, "clone", "copying") /\ errand[k].slug \in Slugs /\ errand[k].slug # s
    BY <1>1, <1>4, NobodysErrand, ErrandShape DEF At, Lost
  <2> QED BY <1>1, <2>1 DEF CloneInv, FoldersInv, At, FoldersTyped
<1> QED BY <1>5, <1>6, <1>7, <1>8, <1>9 DEF FoldersInv

LEMMA WorkKeeps == ASSUME FoldersInv, NEW s \in Slugs, AgentWorks(s) PROVE FoldersInv'
<1>1. /\ dir[s] \in {"empty", "plain", "git"} /\ FoldersTyped /\ dirt \in Nat
      /\ UNCHANGED <<containers, saved, uncertain, chosen, heard, unheard, records, errand>>
      /\ errand' \in [FolderCalls -> Errands]
  BY DEF AgentWorks, FoldersInv, FoldersTyped
<1>2. \/ /\ dirt' = dirt + 1 /\ loose' = [loose EXCEPT ![s] = @ \cup {dirt + 1}]
         /\ dir' = [dir EXCEPT ![s] = IF @ = "git" THEN @ ELSE "plain"]
      \/ /\ UNCHANGED <<loose, dirt>> /\ dir' = [dir EXCEPT ![s] = "git"]
  BY DEF AgentWorks
<1>3. \A t \in Slugs : dir[t] = "cloning" => dir'[t] = "cloning"
  BY <1>1, <1>2 DEF FoldersTyped
<1>4. /\ dirt' \in Nat /\ dirt <= dirt' /\ dir' \in [Slugs -> {"none", "empty", "plain", "cloning", "git"}]
      /\ loose' \in [Slugs -> SUBSET (1 .. dirt')]
      /\ \A t \in Slugs : \A e \in loose'[t] : e \in loose[t] \/ e = dirt + 1
  <2>1. CASE UNCHANGED <<loose, dirt>> /\ dir' = [dir EXCEPT ![s] = "git"]
    BY <1>1, <2>1 DEF FoldersTyped
  <2>2. CASE /\ dirt' = dirt + 1 /\ loose' = [loose EXCEPT ![s] = @ \cup {dirt + 1}]
             /\ dir' = [dir EXCEPT ![s] = IF @ = "git" THEN @ ELSE "plain"]
    <3>1. 1 .. dirt \subseteq 1 .. (dirt + 1) /\ dirt + 1 \in 1 .. (dirt + 1)
      BY <1>1
    <3>2. loose' \in [Slugs -> SUBSET (1 .. dirt')]
      BY <1>1, <2>2, <3>1 DEF FoldersTyped
    <3> QED BY <1>1, <2>2, <3>2 DEF FoldersTyped
  <2> QED BY <1>2, <2>1, <2>2
<1>5. FoldersTyped'
  BY <1>1, <1>4 DEF FoldersTyped
<1>6. DeleteInv'
  <2> SUFFICES ASSUME NEW k \in FolderCalls, errand[k].op = "delete"
               PROVE  /\ errand[k].looked <= dirt'
                      /\ errand[k].step = "remove" /\ errand[k].repo =>
                           \A e \in loose'[errand[k].slug] : e > errand[k].looked
    BY <1>1 DEF DeleteInv, At
  <2>1. /\ errand[k].looked \in Nat /\ errand[k].slug \in Slugs /\ errand[k].looked <= dirt
        /\ errand[k].step = "remove" /\ errand[k].repo => \A e \in loose[errand[k].slug] : e > errand[k].looked
    BY <1>1, ErrandShape DEF FoldersInv, DeleteInv, At
  <2> QED BY <1>1, <1>4, <2>1
<1> QED BY <1>1, <1>3, <1>5, <1>6, StatusFrame, SelectFrame, CloneFrame DEF FoldersInv

LEMMA CommitKeeps == ASSUME FoldersInv, NEW c \in FolderCalls, CommitEnds(c) PROVE FoldersInv'
<1>1. /\ errand[c].op = "commit" /\ errand[c].step = "git" /\ errand[c].slug \in Slugs /\ FoldersTyped
      /\ UNCHANGED <<dir, dirt, containers, saved, uncertain, chosen, heard, unheard, records>> /\ Returns(c)
  BY ErrandShape DEF CommitEnds, At, FoldersInv
<1>2. ErrandIs(c, NoErrand)
  BY <1>1, ErrandReturns
<1>3. loose' \in [Slugs -> SUBSET (1 .. dirt)] /\ \A t \in Slugs : loose'[t] \subseteq loose[t]
  BY <1>1 DEF CommitEnds, FoldersTyped
<1>4. FoldersTyped'
  BY <1>1, <1>2, <1>3 DEF FoldersTyped, ErrandIs
<1>5. DeleteInv'
  <2>1. \A k \in FolderCalls : errand'[k].op = "delete" => errand'[k] = errand[k] /\ errand[k].slug \in Slugs
    BY <1>1, <1>2, NobodysErrand, ErrandShape DEF ErrandIs
  <2> QED BY <1>1, <1>3, <2>1 DEF DeleteInv, FoldersInv, At
<1> QED BY <1>1, <1>2, <1>4, <1>5, QuietStep, NobodysErrand DEF FoldersInv

-----------------------------------------------------------------------------
(* Compose commands *)

LEMMA DockerKeeps == ASSUME FoldersInv, NEW c \in FolderCalls, DockerActs(c) PROVE FoldersInv'
<1> DEFINE s == errand[c].slug
<1>1. /\ errand[c].op \in Commands /\ errand[c].step = "docker" /\ s \in Slugs /\ FoldersTyped
      /\ errand[c] \in [op : Commands, step : {"docker", "acted"}, slug : Slugs]
      /\ UNCHANGED <<dir, loose, dirt, saved, chosen, heard, unheard, records>>
      /\ uncertain' = [uncertain EXCEPT ![s] = Acted(s) # {} \/ errand[c].op = "service"]
  BY ErrandShape DEF DockerActs, FoldersInv
<1>2. PICK to \in {"up", "down"} :
        /\ errand[c].op \in {"start", "restart"} => to = "up"
        /\ errand[c].op = "stop" => to = "down"
        /\ containers' = [containers EXCEPT ![s] = to]
  BY DEF DockerActs
<1>3. \E x \in Errands : /\ errand' = [errand EXCEPT ![c] = x]
                         /\ \/ errand[c].op = "service" /\ x = NoErrand
                            \/ /\ errand[c].op # "service" /\ x.step = "acted"
                               /\ x.op = errand[c].op /\ x.slug = s
  <2>1. CASE errand[c].op = "service"
    BY <2>1, NobodysErrand DEF DockerActs, Returns
  <2>2. CASE errand[c].op # "service"
    <3> DEFINE x == [errand[c] EXCEPT !.step = "acted"]
    <3>1. x \in [op : Commands, step : {"docker", "acted"}, slug : Slugs] /\ x.step = "acted" /\ x.op = errand[c].op /\ x.slug = s
      BY <1>1
    <3>2. errand' = [errand EXCEPT ![c].step = "acted"]
      BY <2>2 DEF DockerActs, Proceeds
    <3>3. errand' = [errand EXCEPT ![c] = x]
      BY <3>2
    <3> HIDE DEF x
    <3>4. x \in Errands
      BY <3>1 DEF Errands
    <3> QED BY <2>2, <3>1, <3>3, <3>4
  <2> QED BY <2>1, <2>2
<1>4. PICK x \in Errands : /\ errand' = [errand EXCEPT ![c] = x]
                           /\ \/ errand[c].op = "service" /\ x = NoErrand
                              \/ /\ errand[c].op # "service" /\ x.step = "acted"
                                 /\ x.op = errand[c].op /\ x.slug = s
  BY <1>3
<1>5. ErrandIs(c, x)
  BY <1>1, <1>4, ErrandBecomes
<1>6. /\ x.op \notin {"select", "delete"} /\ x.step # "copying" /\ errand[c].op # "select"
      /\ x.step # "terminal"
  BY <1>1, <1>4, NobodysErrand DEF Commands
<1>7. FoldersTyped'
  <2>1. (Acted(s) # {} \/ errand[c].op = "service") \in BOOLEAN
    OBVIOUS
  <2>2. uncertain' \in [Slugs -> BOOLEAN] /\ containers' \in [Slugs -> {"up", "down"}]
    BY <1>1, <1>2, <2>1 DEF FoldersTyped
  <2> QED BY <1>1, <1>5, <2>2 DEF FoldersTyped, ErrandIs
<1>8. SelectInv' /\ DeleteInv' /\ CloneInv'
  <2>1. SelectInv'
    BY <1>1, <1>5, <1>6, SelectFrame DEF ErrandIs
  <2>2. DeleteInv'
    BY <1>1, <1>5, <1>6, DeleteFrame DEF ErrandIs
  <2>3. CloneInv'
    BY <1>1, <1>5, <1>6, CloneFrame DEF ErrandIs
  <2> QED BY <2>1, <2>2, <2>3
<1>9. StatusInv'
  <2> SUFFICES ASSUME NEW t \in Slugs, ~uncertain'[t]
               PROVE  /\ \A k \in FolderCalls : errand'[k].step = "acted" /\ errand'[k].slug = t =>
                           /\ errand'[k].op # "service"
                           /\ (StatusOf(errand'[k].op) = "running") = (containers'[t] = "up")
                      /\ saved'[t] # "none" /\ Acted(t)' = {} => (saved'[t] = "running") = (containers'[t] = "up")
    BY DEF StatusInv, Agrees
  <2>1. CASE t # s
    <3>1. \A k \in FolderCalls : errand'[k].step = "acted" /\ errand'[k].slug = t =>
            errand'[k] = errand[k]
      BY <1>4, <1>5, <2>1, NobodysErrand DEF ErrandIs
    <3>2. Acted(t)' = Acted(t)
      BY <1>1, <1>4, <1>5, <2>1, NobodysErrand DEF Acted, ErrandIs
    <3>3. containers'[t] = containers[t] /\ uncertain'[t] = uncertain[t] /\ saved' = saved
      BY <1>1, <1>2, <2>1 DEF FoldersTyped
    <3> QED BY <3>1, <3>2, <3>3 DEF FoldersInv, StatusInv, Agrees
  <2>2. CASE t = s
    <3>1. Acted(s) = {} /\ errand[c].op # "service"
      BY <1>1, <2>2 DEF FoldersTyped
    <3>2. x.step = "acted" /\ x.op = errand[c].op /\ errand'[c] = x /\ x.slug = s
      BY <1>4, <1>5, <3>1 DEF ErrandIs
    <3>3. \A k \in FolderCalls : errand'[k].step = "acted" /\ errand'[k].slug = s => k = c
      BY <1>5, <3>1 DEF ErrandIs, Acted
    <3>4. c \in Acted(s)'
      BY <3>2 DEF Acted
    <3>5. containers'[s] = to
      BY <1>1, <1>2 DEF FoldersTyped
    <3>6. (StatusOf(errand'[c].op) = "running") = (containers'[s] = "up")
      BY <1>1, <1>2, <3>1, <3>2, <3>5 DEF StatusOf, Commands
    <3> QED BY <2>2, <3>1, <3>2, <3>3, <3>4, <3>6
  <2> QED BY <2>1, <2>2
<1> QED BY <1>7, <1>8, <1>9 DEF FoldersInv

(* What happens to containers unseen makes their status uncertain. *)
LEMMA UnseenKeeps ==
    ASSUME FoldersInv, NEW s \in Slugs, NEW to \in {"up", "down"},
           containers' = [containers EXCEPT ![s] = to], uncertain' = [uncertain EXCEPT ![s] = TRUE],
           saved' = saved, errand' \in [FolderCalls -> Errands],
           \A c \in FolderCalls : errand'[c] = errand[c] \/ (errand[c].step # "acted" /\ errand'[c].step # "acted")
    PROVE  StatusInv'
<1>1. FoldersTyped /\ \A t \in Slugs : Acted(t)' = Acted(t)
  BY DEF Acted, FoldersInv
<1>2. uncertain'[s] /\ \A t \in Slugs : t # s => containers'[t] = containers[t] /\ uncertain'[t] = uncertain[t]
  BY <1>1 DEF FoldersTyped
<1> QED BY <1>1, <1>2 DEF FoldersInv, StatusInv, Agrees

LEMMA FailKeeps == ASSUME FoldersInv, NEW c \in FolderCalls, DockerFails(c) PROVE FoldersInv'
<1>1. /\ errand[c].op \in Commands /\ errand[c].step = "docker" /\ errand[c].slug \in Slugs /\ FoldersTyped
      /\ UNCHANGED <<dir, loose, dirt, saved, chosen, heard, unheard, records>> /\ Returns(c)
      /\ uncertain' = [uncertain EXCEPT ![errand[c].slug] = TRUE]
  BY ErrandShape DEF DockerFails, FoldersInv
<1>2. PICK to \in {"up", "down"} : containers' = [containers EXCEPT ![errand[c].slug] = to]
  BY DEF DockerFails
<1>3. ErrandIs(c, NoErrand) /\ errand[c].op # "select"
  BY <1>1, ErrandReturns DEF Commands
<1>4. FoldersTyped'
  BY <1>1, <1>2, <1>3 DEF FoldersTyped, ErrandIs
<1>5. StatusInv'
  <2>1. /\ errand' \in [FolderCalls -> Errands] /\ saved' = saved
        /\ \A k \in FolderCalls : errand'[k] = errand[k] \/ (errand[k].step # "acted" /\ errand'[k].step # "acted")
    BY <1>1, <1>3, NobodysErrand DEF ErrandIs
  <2> DEFINE s == errand[c].slug
  <2>2. s \in Slugs /\ uncertain' = [uncertain EXCEPT ![s] = TRUE] /\ containers' = [containers EXCEPT ![s] = to]
    BY <1>1, <1>2
  <2> HIDE DEF s
  <2> QED BY <2>1, <2>2, UnseenKeeps
<1>6. SelectInv' /\ DeleteInv' /\ CloneInv'
  BY <1>1, <1>3, NobodysErrand, SelectFrame, DeleteFrame, CloneFrame DEF ErrandIs
<1> QED BY <1>4, <1>5, <1>6 DEF FoldersInv

LEMMA DiesKeeps == ASSUME FoldersInv, NEW s \in Slugs, ContainerDies(s) PROVE FoldersInv'
<1>1. /\ UNCHANGED <<dir, loose, dirt, saved, chosen, heard, unheard, records, errand>> /\ FoldersTyped
      /\ uncertain' = [uncertain EXCEPT ![s] = TRUE] /\ containers' = [containers EXCEPT ![s] = "down"]
      /\ errand' \in [FolderCalls -> Errands]
  BY DEF ContainerDies, FoldersInv, FoldersTyped
<1>2. FoldersTyped'
  BY <1>1 DEF FoldersTyped
<1>3. StatusInv'
  BY <1>1, UnseenKeeps
<1>4. SelectInv' /\ DeleteInv' /\ CloneInv'
  BY <1>1, SelectFrame, DeleteFrame, CloneFrame
<1> QED BY <1>2, <1>3, <1>4 DEF FoldersInv

LEMMA SavedKeeps == ASSUME FoldersInv, NEW c \in FolderCalls, StatusSaved(c) PROVE FoldersInv'
<1> DEFINE s == errand[c].slug
<1>1. /\ errand[c].op \in Commands /\ errand[c].step = "acted" /\ s \in Slugs /\ FoldersTyped
      /\ UNCHANGED <<dir, loose, dirt, containers, uncertain, chosen, heard, unheard, records>> /\ Returns(c)
      /\ saved' = [saved EXCEPT ![s] = StatusOf(errand[c].op)]
  BY ErrandShape DEF StatusSaved, FoldersInv
<1>2. ErrandIs(c, NoErrand) /\ errand[c].op # "select" /\ StatusOf(errand[c].op) \in {"running", "stopped"}
  BY <1>1, ErrandReturns DEF Commands, StatusOf
<1>3. FoldersTyped'
  BY <1>1, <1>2 DEF FoldersTyped, ErrandIs
<1>4. SelectInv' /\ DeleteInv' /\ CloneInv'
  BY <1>1, <1>2, NobodysErrand, SelectFrame, DeleteFrame, CloneFrame DEF ErrandIs
<1>5. StatusInv'
  <2> SUFFICES ASSUME NEW t \in Slugs, ~uncertain[t]
               PROVE  /\ \A k \in FolderCalls : errand'[k].step = "acted" /\ errand'[k].slug = t =>
                           errand'[k].op # "service" /\ Agrees(t, StatusOf(errand'[k].op))
                      /\ saved'[t] # "none" /\ Acted(t)' = {} => Agrees(t, saved'[t])
    BY <1>1 DEF StatusInv, Agrees
  <2>1. /\ \A k \in FolderCalls : errand[k].step = "acted" /\ errand[k].slug = t =>
             errand[k].op # "service" /\ Agrees(t, StatusOf(errand[k].op))
        /\ saved[t] # "none" /\ Acted(t) = {} => Agrees(t, saved[t])
    BY DEF FoldersInv, StatusInv
  <2>2. \A k \in FolderCalls : errand'[k].step = "acted" => errand'[k] = errand[k]
    BY <1>2, NobodysErrand DEF ErrandIs
  <2>3. CASE t = s
    <3>1. saved'[t] = StatusOf(errand[c].op)
      BY <1>1, <2>3 DEF FoldersTyped
    <3> QED BY <1>1, <2>1, <2>2, <2>3, <3>1
  <2>4. CASE t # s
    <3>1. saved'[t] = saved[t]
      BY <1>1, <2>4 DEF FoldersTyped
    <3>2. Acted(t)' = Acted(t)
      BY <1>1, <1>2, <2>4, NobodysErrand DEF Acted, ErrandIs
    <3> QED BY <2>1, <2>2, <3>1, <3>2
  <2> QED BY <2>3, <2>4
<1> QED BY <1>3, <1>4, <1>5 DEF FoldersInv

-----------------------------------------------------------------------------
(* Selections *)

LEMMA SelectAskedKeeps ==
    ASSUME FoldersInv, NEW c \in FolderCalls, NEW w \in Pilots, NEW s \in Slugs, NEW quiet \in BOOLEAN,
           SelectAsked(c, w, s, quiet)
    PROVE  FoldersInv'
<1> DEFINE x == [op |-> "select", step |-> "terminal", slug |-> s, who |-> w, prev |-> chosen[w], quiet |-> quiet]
<1>1. /\ FoldersTyped /\ errand[c] = NoErrand /\ errand' = [errand EXCEPT ![c] = x]
      /\ chosen' = [chosen EXCEPT ![w] = s]
      /\ unheard' = [unheard EXCEPT ![w] = quiet \/ Selecting(w) # {} \/ (@ /\ chosen[w] = s)]
      /\ UNCHANGED <<dir, loose, dirt, containers, saved, uncertain, heard, records>>
      /\ chosen[w] \in 0 .. MaxFolders /\ s \in 0 .. MaxFolders /\ s # 0
  BY FolderBounds DEF SelectAsked, Undertakes, ReadBefore, FoldersInv, FoldersTyped, Slugs
<1>2. /\ x \in Errands /\ x.op = "select" /\ x.step = "terminal" /\ x.who = w
      /\ x.slug = s /\ x.prev = chosen[w] /\ x.quiet = quiet
  BY <1>1 DEF Errands
<1> HIDE DEF x
<1>3. ErrandIs(c, x)
  BY <1>1, <1>2, ErrandBecomes
<1>4. unheard' = [unheard EXCEPT ![w] = quiet \/ Selecting(w) # {} \/ (unheard[w] /\ chosen[w] = s)]
  BY <1>1
<1>5. FoldersTyped'
  <2>1. (quiet \/ Selecting(w) # {} \/ (unheard[w] /\ chosen[w] = s)) \in BOOLEAN
    OBVIOUS
  <2>2. unheard' \in [Pilots -> BOOLEAN] /\ chosen' \in [Pilots -> 0 .. MaxFolders]
    BY <1>1, <1>4, <2>1 DEF FoldersTyped
  <2> QED BY <1>1, <1>3, <2>2 DEF FoldersTyped, ErrandIs
<1>6. StatusInv' /\ DeleteInv' /\ CloneInv'
  BY <1>1, <1>2, <1>3, NobodysErrand, StatusFrame, DeleteFrame, CloneFrame DEF ErrandIs
<1>7. SelectInv'
  <2> SUFFICES ASSUME NEW v \in Pilots, ~unheard'[v]
               PROVE  /\ chosen'[v] # 0 /\ Selecting(v)' = {} => heard[v] = chosen'[v]
                      /\ \A k \in Selecting(v)' :
                           /\ Selecting(v)' = {k} /\ ~errand'[k].quiet
                           /\ chosen'[v] # 0 => /\ errand'[k].slug = chosen'[v]
                                                /\ errand'[k].prev = errand'[k].slug => heard[v] = chosen'[v]
    BY <1>1 DEF SelectInv
  <2>1. errand'[c] = x /\ \A k \in FolderCalls : k # c => errand'[k] = errand[k]
    BY <1>3 DEF ErrandIs
  <2>2. CASE v = w
    <3>1. /\ chosen'[w] = s /\ ~quiet /\ Selecting(w) = {}
          /\ ~(unheard[w] /\ chosen[w] = s)
      BY <1>1, <1>4, <2>2 DEF FoldersTyped
    <3>2. Selecting(w)' = {c}
      BY <1>2, <2>1, <3>1 DEF Selecting
    <3>3. chosen[w] = s => heard[w] = s
      BY <1>1, <3>1 DEF FoldersInv, SelectInv
    <3> QED BY <1>2, <2>1, <2>2, <3>1, <3>2, <3>3
  <2>3. CASE v # w
    <3>1. chosen'[v] = chosen[v] /\ unheard'[v] = unheard[v]
      BY <1>1, <1>4, <2>3 DEF FoldersTyped
    <3>2. Selecting(v)' = Selecting(v) /\ c \notin Selecting(v)
      BY <1>1, <1>2, <2>1, <2>3, NobodysErrand DEF Selecting
    <3>3. \A k \in Selecting(v) : errand'[k] = errand[k]
      BY <2>1, <3>2 DEF Selecting
    <3> QED BY <3>1, <3>2, <3>3 DEF FoldersInv, SelectInv
  <2> QED BY <2>2, <2>3
<1> QED BY <1>5, <1>6, <1>7 DEF FoldersInv

LEMMA SelectEndsKeeps ==
    ASSUME FoldersInv, NEW c \in FolderCalls, SelectEnds(c) \/ SelectFails(c)
    PROVE  FoldersInv'
<1>0. PICK w : w = errand[c].who
  OBVIOUS
<1>1. /\ FoldersTyped /\ errand[c].op = "select" /\ errand[c].step = "terminal"
      /\ errand[c] \in [op : {"select"}, step : {"terminal"}, slug : Slugs, who : Pilots, prev : 0 .. MaxFolders, quiet : BOOLEAN]
      /\ UNCHANGED <<dir, loose, dirt, containers, saved, uncertain, chosen, records>> /\ Returns(c)
  BY ErrandShape DEF SelectEnds, SelectFails, At, FoldersInv
<1>2. w \in Pilots /\ errand[c].slug \in 0 .. MaxFolders /\ c \in Selecting(w)
  BY <1>0, <1>1, FolderBounds DEF Slugs, Selecting
<1>3. ErrandIs(c, NoErrand)
  BY <1>1, ErrandReturns
<1>4. StatusInv' /\ DeleteInv' /\ CloneInv'
  BY <1>1, <1>3, NobodysErrand, StatusFrame, DeleteFrame, CloneFrame DEF ErrandIs
<1>5. /\ \A v \in Pilots : v # w => Selecting(v)' = Selecting(v) /\ c \notin Selecting(v)
      /\ Selecting(w)' = Selecting(w) \ {c}
      /\ \A k \in FolderCalls : k # c => errand'[k] = errand[k]
  BY <1>0, <1>1, <1>3, NobodysErrand DEF Selecting, ErrandIs
<1>6. CASE SelectEnds(c)
  <2>1. /\ unheard' = unheard
        /\ heard' = IF ~errand[c].quiet /\ errand[c].prev # errand[c].slug
                    THEN [heard EXCEPT ![w] = errand[c].slug] ELSE heard
    BY <1>0, <1>6 DEF SelectEnds
  <2>2. heard' \in [Pilots -> 0 .. MaxFolders] /\ \A v \in Pilots : v # w => heard'[v] = heard[v]
    BY <1>1, <1>2, <2>1 DEF FoldersTyped
  <2>3. FoldersTyped'
    BY <1>1, <1>3, <2>1, <2>2 DEF FoldersTyped, ErrandIs
  <2>4. SelectInv'
    <3> SUFFICES ASSUME NEW v \in Pilots, ~unheard[v]
                 PROVE  /\ chosen[v] # 0 /\ Selecting(v)' = {} => heard'[v] = chosen[v]
                        /\ \A k \in Selecting(v)' :
                             /\ Selecting(v)' = {k} /\ ~errand'[k].quiet
                             /\ chosen[v] # 0 => /\ errand'[k].slug = chosen[v]
                                                 /\ errand'[k].prev = errand'[k].slug => heard'[v] = chosen[v]
      BY <1>1, <2>1 DEF SelectInv
    <3>1. CASE v # w
      <4>1. \A k \in Selecting(v) : errand'[k] = errand[k]
        BY <1>5, <3>1 DEF Selecting
      <4> QED BY <1>5, <2>2, <3>1, <4>1 DEF FoldersInv, SelectInv
    <3>2. CASE v = w
      <4>1. /\ Selecting(w) = {c} /\ ~errand[c].quiet
            /\ chosen[w] # 0 => /\ errand[c].slug = chosen[w]
                                /\ errand[c].prev = errand[c].slug => heard[w] = chosen[w]
        BY <1>2, <3>2 DEF FoldersInv, SelectInv
      <4>2. Selecting(w)' = {}
        BY <1>5, <4>1
      <4>3. chosen[w] # 0 => heard'[w] = chosen[w]
        <5>1. CASE errand[c].prev # errand[c].slug
          BY <1>1, <1>2, <2>1, <4>1, <5>1 DEF FoldersTyped
        <5>2. CASE errand[c].prev = errand[c].slug
          BY <2>1, <4>1, <5>2
        <5> QED BY <5>1, <5>2
      <4> QED BY <3>2, <4>2, <4>3
    <3> QED BY <3>1, <3>2
  <2> QED BY <1>4, <2>3, <2>4 DEF FoldersInv
<1>7. CASE SelectFails(c)
  <2>1. heard' = heard /\ unheard' = [unheard EXCEPT ![w] = TRUE]
    BY <1>0, <1>7 DEF SelectFails
  <2>2. FoldersTyped'
    BY <1>1, <1>3, <2>1 DEF FoldersTyped, ErrandIs
  <2>3. unheard'[w] /\ \A v \in Pilots : v # w => unheard'[v] = unheard[v]
    BY <1>1, <1>2, <2>1 DEF FoldersTyped
  <2>4. \A v \in Pilots : v # w => \A k \in Selecting(v) : errand'[k] = errand[k]
    BY <1>5 DEF Selecting
  <2>5. SelectInv'
    BY <1>1, <1>5, <2>1, <2>3, <2>4 DEF FoldersInv, SelectInv
  <2> QED BY <1>4, <2>2, <2>5 DEF FoldersInv
<1> QED BY <1>6, <1>7

(* A selection that is forgotten is nobody's. *)
LEMMA ForgetKeeps ==
    ASSUME FoldersInv, UNCHANGED <<heard, unheard>>,
           \A v \in Pilots : Selecting(v)' = Selecting(v) /\ \A k \in Selecting(v) : errand'[k] = errand[k],
           \A v \in Pilots : chosen'[v] = chosen[v] \/ chosen'[v] = 0
    PROVE  SelectInv'
BY DEF FoldersInv, SelectInv

LEMMA ActiveReadKeeps == ASSUME FoldersInv, NEW w \in Pilots, ActiveRead(w) PROVE FoldersInv'
<1>1. /\ chosen' = [chosen EXCEPT ![w] = 0] /\ FoldersTyped
      /\ UNCHANGED <<dir, loose, dirt, containers, saved, uncertain, heard, unheard, records, errand>>
      /\ errand' \in [FolderCalls -> Errands]
  BY DEF ActiveRead, FoldersInv, FoldersTyped
<1>2. FoldersTyped'
  BY <1>1, FolderBounds DEF FoldersTyped
<1>3. SelectInv'
  <2>1. \A v \in Pilots : chosen'[v] = chosen[v] \/ chosen'[v] = 0
    BY <1>1 DEF FoldersTyped
  <2> QED BY <1>1, <2>1, ForgetKeeps DEF Selecting
<1> QED BY <1>1, <1>2, <1>3, StatusFrame, DeleteFrame, CloneFrame DEF FoldersInv

-----------------------------------------------------------------------------
(* The registry *)

LEMMA SweepStartsKeeps == ASSUME FoldersInv, NEW c \in FolderCalls, SweepStarts(c) PROVE FoldersInv'
<1> DEFINE x == [op |-> "sweep", step |-> "read", slug |-> 0, read |-> records]
<1>1. /\ FoldersTyped /\ errand[c] = NoErrand /\ errand' = [errand EXCEPT ![c] = x]
      /\ chosen' = [w \in Pilots |-> IF chosen[w] # 0 /\ ~There(chosen[w]) THEN 0 ELSE chosen[w]]
      /\ saved' = [s \in Slugs |-> IF There(s) THEN saved[s] ELSE "none"]
      /\ UNCHANGED <<dir, loose, dirt, containers, uncertain, heard, unheard, records>>
      /\ records \subseteq Slugs
  BY DEF SweepStarts, Undertakes, FoldersInv, FoldersTyped
<1>2. x \in Errands /\ x.op = "sweep" /\ x.step = "read"
  BY <1>1 DEF Errands
<1> HIDE DEF x
<1>3. ErrandIs(c, x)
  BY <1>1, <1>2, ErrandBecomes
<1>4. /\ \A v \in Pilots : chosen'[v] = chosen[v] \/ chosen'[v] = 0
      /\ chosen' \in [Pilots -> 0 .. MaxFolders] /\ saved' \in [Slugs -> {"none", "running", "stopped"}]
      /\ \A s \in Slugs : saved'[s] = saved[s] \/ saved'[s] = "none"
  BY <1>1, FolderBounds DEF FoldersTyped
<1>5. FoldersTyped'
  BY <1>1, <1>3, <1>4 DEF FoldersTyped, ErrandIs
<1>6. SelectInv'
  <2>1. \A v \in Pilots : Selecting(v)' = Selecting(v) /\ \A k \in Selecting(v) : errand'[k] = errand[k]
    BY <1>1, <1>2, <1>3, NobodysErrand DEF Selecting, ErrandIs
  <2> QED BY <1>1, <1>4, <2>1, ForgetKeeps
<1>7. StatusInv'
  <2>1. \A s \in Slugs : Acted(s)' = Acted(s)
    BY <1>1, <1>2, <1>3, NobodysErrand DEF Acted, ErrandIs
  <2>2. \A k \in FolderCalls : errand'[k].step = "acted" => errand'[k] = errand[k]
    BY <1>2, <1>3 DEF ErrandIs
  <2> QED BY <1>1, <1>4, <2>1, <2>2 DEF FoldersInv, StatusInv, Agrees
<1>8. DeleteInv' /\ CloneInv'
  BY <1>1, <1>2, <1>3, DeleteFrame, CloneFrame DEF ErrandIs
<1> QED BY <1>5, <1>6, <1>7, <1>8 DEF FoldersInv

LEMMA RegistryKeeps ==
    ASSUME FoldersInv, NEW c \in FolderCalls, Registered(c) \/ SweepEnds(c)
    PROVE  FoldersInv'
<1>1. /\ FoldersTyped /\ errand[c].op \in {"register", "sweep"} /\ errand[c].step = "read"
      /\ errand[c].op = "register" => errand[c] \in [op : {"register"}, step : {"read"}, slug : Slugs, read : SUBSET Slugs]
      /\ errand[c].op = "sweep" => errand[c] \in [op : {"sweep"}, step : {"read"}, slug : {0}, read : SUBSET Slugs]
      /\ UNCHANGED <<dir, loose, dirt, containers, saved, uncertain, chosen, heard, unheard>> /\ Returns(c)
  BY ErrandShape DEF Registered, SweepEnds, At, FoldersInv
<1>2. ErrandIs(c, NoErrand)
  BY <1>1, ErrandReturns
<1>3. records' \subseteq Slugs
  <2>1. CASE Registered(c)
    BY <1>1, <2>1 DEF Registered, At
  <2>2. CASE SweepEnds(c)
    BY <1>1, <2>2 DEF SweepEnds, At, FoldersTyped
  <2> QED BY <2>1, <2>2
<1>4. FoldersTyped'
  BY <1>1, <1>2, <1>3 DEF FoldersTyped, ErrandIs
<1> QED BY <1>1, <1>2, <1>4, QuietStep, NobodysErrand DEF FoldersInv

-----------------------------------------------------------------------------

LEMMA FoldersStart == ASSUME FoldersInit PROVE FoldersInv
<1>1. /\ dir = [s \in Slugs |-> "none"] /\ loose = [s \in Slugs |-> {}] /\ dirt = 0
      /\ containers = [s \in Slugs |-> "down"] /\ saved = [s \in Slugs |-> "none"]
      /\ uncertain = [s \in Slugs |-> FALSE]
      /\ chosen = [w \in Pilots |-> 0] /\ heard = chosen /\ unheard = [w \in Pilots |-> FALSE]
      /\ records = {} /\ errand = [c \in FolderCalls |-> NoErrand] /\ MaxFolders \in Nat
  BY FolderBounds DEF FoldersInit
<1>2. FoldersTyped
  BY <1>1, NobodysErrand DEF FoldersTyped
<1>3. StatusInv /\ SelectInv /\ DeleteInv /\ CloneInv
  BY <1>1, NobodysErrand DEF StatusInv, SelectInv, DeleteInv, CloneInv, Selecting, Acted, At
<1> QED BY <1>2, <1>3 DEF FoldersInv

LEMMA FoldersStep == ASSUME FoldersInv, [FoldersNext]_projects PROVE FoldersInv'
<1>1. CASE CreateFolder
  BY <1>1, CreateKeeps
<1>2. ASSUME NEW w \in Pilots, ActiveRead(w) PROVE FoldersInv'
  BY <1>2, ActiveReadKeeps
<1>3. ASSUME NEW s \in Slugs, AgentWorks(s) \/ ContainerDies(s) PROVE FoldersInv'
  BY <1>3, WorkKeeps, DiesKeeps
<1>4. ASSUME NEW c \in FolderCalls, CloneAsked(c) PROVE FoldersInv'
  BY <1>4, AsksKeep
<1>5. ASSUME NEW c \in FolderCalls, CloneBegins(c) \/ CloneEnds(c) \/ CloneFails(c) PROVE FoldersInv'
  BY <1>5, CloneBeginsKeeps, CloneEndsKeeps
<1>6. ASSUME NEW c \in FolderCalls, GitProbed(c) \/ ChangesRead(c) \/ FolderRemoved(c) \/ CommitEnds(c) PROVE FoldersInv'
  BY <1>6, ProbeKeeps, RemoveKeeps, CommitKeeps
<1>7. ASSUME NEW c \in FolderCalls, DockerActs(c) \/ DockerFails(c) \/ StatusSaved(c) PROVE FoldersInv'
  BY <1>7, DockerKeeps, FailKeeps, SavedKeeps
<1>8. ASSUME NEW c \in FolderCalls, SelectEnds(c) \/ SelectFails(c) PROVE FoldersInv'
  BY <1>8, SelectEndsKeeps
<1>9. ASSUME NEW c \in FolderCalls, Registered(c) \/ SweepStarts(c) \/ SweepEnds(c) PROVE FoldersInv'
  BY <1>9, RegistryKeeps, SweepStartsKeeps
<1>10. ASSUME NEW c \in FolderCalls, NEW s \in Slugs,
              \/ DeleteAsked(c, s) \/ CommitAsked(c, s) \/ RegisterAsked(c, s)
              \/ \E op \in Commands : CommandAsked(c, s, op)
       PROVE  FoldersInv'
  BY <1>10, AsksKeep
<1>11. ASSUME NEW c \in FolderCalls, NEW s \in Slugs, NEW w \in Pilots, NEW quiet \in BOOLEAN,
              SelectAsked(c, w, s, quiet)
       PROVE  FoldersInv'
  BY <1>11, SelectAskedKeeps
<1>12. CASE UNCHANGED projects
  <2>1. /\ UNCHANGED <<containers, saved, uncertain, chosen, heard, unheard, loose, dirt, dir, records, errand>>
        /\ FoldersTyped
    BY <1>12 DEF projects, FoldersInv
  <2>2. FoldersTyped' /\ errand' \in [FolderCalls -> Errands]
    BY <2>1 DEF FoldersTyped
  <2> QED BY <2>1, <2>2, StatusFrame, SelectFrame, DeleteFrame, CloneFrame DEF FoldersInv
<1> QED BY <1>1, <1>2, <1>3, <1>4, <1>5, <1>6, <1>7, <1>8, <1>9, <1>10, <1>11, <1>12 DEF FoldersNext

LEMMA FoldersHold == FoldersSpec => []FoldersInv
<1>1. FoldersInit => FoldersInv
  BY FoldersStart
<1>2. FoldersInv /\ [FoldersNext]_projects => FoldersInv'
  BY FoldersStep
<1> QED BY <1>1, <1>2, PTL DEF FoldersSpec

(* Once a project's commands are recorded, projects.state.json says what   *)
(* docker runs, and with no selection under way the chat heard of the      *)
(* project its prompts go to, unless one of the named things came between. *)
THEOREM ShownStatusIsTrue == FoldersSpec => []ShownIsTrue
<1>1. FoldersInv => ShownIsTrue
  BY DEF FoldersInv, StatusInv, Agrees, SelectInv, ShownIsTrue, SavedStatusIsTrue, ToldOfSelection
<1> QED BY <1>1, FoldersHold, PTL

(* deleteFolder takes no uncommitted work of a repository that was there   *)
(* when it asked git, unless git did not say that it is a repository; and  *)
(* a record leaves projects.json with its folder, or with a writer that    *)
(* had read the file before the record was made.                           *)
THEOREM WorkAndRecordsAreKept == FoldersSpec => FoldersAreKept
<1> DEFINE Kept ==
       /\ \A s \in Slugs : dir[s] = "git" /\ dir'[s] = "none" =>
            \E c \in FolderCalls :
                /\ errand[c].slug = s /\ At(c, "delete", "remove") /\ errand'[c] = NoErrand
                /\ errand[c].repo => (\A e \in loose[s] : e > errand[c].looked)
       /\ \A s \in records \ records' : There(s) =>
            \E c \in FolderCalls :
                errand[c] # errand'[c] /\ errand[c].step = "read" /\ s \notin errand[c].read
<1>1. ASSUME FoldersInv, [FoldersNext]_projects PROVE [Kept]_projects
  <2> SUFFICES ASSUME FoldersNext PROVE Kept
    BY <1>1
  <2> USE <1>1
  <2>1. FoldersTyped
    BY DEF FoldersInv
  <2>2. ASSUME NEW c \in FolderCalls, FolderRemoved(c) PROVE Kept
    <3>1. /\ dir' = [dir EXCEPT ![errand[c].slug] = "none"] /\ records' = records
          /\ At(c, "delete", "remove") /\ errand'[c] = NoErrand
          /\ \A s \in Slugs : s # errand[c].slug => dir'[s] = dir[s]
      BY <2>1, <2>2 DEF FolderRemoved, FoldersTyped
    <3>2. errand[c].repo => \A e \in loose[errand[c].slug] : e > errand[c].looked
      BY <3>1 DEF FoldersInv, DeleteInv, At
    <3> QED BY <3>1, <3>2
  <2>3. ASSUME NEW c \in FolderCalls, Registered(c) \/ SweepEnds(c) PROVE Kept
    <3>1. dir' = dir /\ errand[c].step = "read" /\ errand'[c] = NoErrand
      BY <2>1, <2>3 DEF Registered, SweepEnds, At, Returns, FoldersTyped
    <3>2. errand[c] # errand'[c]
      BY <3>1 DEF NoErrand
    <3>3. \A s \in records \ records' : There(s) => s \notin errand[c].read
      BY <2>3 DEF Registered, SweepEnds
    <3> QED BY <3>1, <3>2, <3>3
  <2>4. ASSUME records' = records, \A s \in Slugs : dir[s] = "git" => dir'[s] # "none" PROVE Kept
    BY <2>4
  <2> HIDE DEF Kept
  <2>5. CASE CreateFolder
    BY <2>1, <2>4, <2>5 DEF CreateFolder, IsFreeName, There, FoldersTyped
  <2>6. ASSUME NEW w \in Pilots, ActiveRead(w) PROVE Kept
    BY <2>4, <2>6 DEF ActiveRead
  <2>7. ASSUME NEW s \in Slugs, AgentWorks(s) \/ ContainerDies(s) PROVE Kept
    <3>1. records' = records /\ (dir' = dir \/ \E d \in {"git", "plain"} : dir' = [dir EXCEPT ![s] = d])
      BY <2>7 DEF AgentWorks, ContainerDies
    <3> QED BY <2>1, <2>4, <3>1 DEF FoldersTyped
  <2>8. ASSUME NEW c \in FolderCalls, CloneAsked(c) \/ GitProbed(c) \/ ChangesRead(c) \/ CommitEnds(c)
                                      \/ DockerActs(c) \/ DockerFails(c) \/ StatusSaved(c)
                                      \/ SelectEnds(c) \/ SelectFails(c) \/ SweepStarts(c)
        PROVE  Kept
    <3>1. records' = records /\ dir' = dir
      BY <2>8 DEF CloneAsked, GitProbed, ChangesRead, CommitEnds, DockerActs, DockerFails, StatusSaved,
                  SelectEnds, SelectFails, SweepStarts
    <3> QED BY <2>4, <3>1
  <2>9. ASSUME NEW c \in FolderCalls, CloneBegins(c) PROVE Kept
    <3>1. errand[c].slug \in Slugs /\ records' = records
      BY <2>1, <2>9, ErrandShape DEF CloneBegins
    <3>2. dir' = dir \/ dir' = [dir EXCEPT ![errand[c].slug] = "cloning"]
      BY <2>9 DEF CloneBegins
    <3> QED BY <2>1, <2>4, <3>1, <3>2 DEF FoldersTyped
  <2>10. ASSUME NEW c \in FolderCalls, CloneEnds(c) PROVE Kept
    BY <2>1, <2>4, <2>10 DEF CloneEnds, FoldersTyped
  <2>11. ASSUME NEW c \in FolderCalls, CloneFails(c) PROVE Kept
    <3>1. records' = records
      BY <2>11 DEF CloneFails
    <3>2. CASE dir' = dir
      BY <2>4, <3>1, <3>2
    <3>3. CASE At(c, "clone", "copying") /\ dir' = [dir EXCEPT ![errand[c].slug] = errand[c].found]
      <4>1. dir[errand[c].slug] = "cloning"
        BY <3>3 DEF FoldersInv, CloneInv
      <4> QED BY <2>1, <2>4, <3>1, <3>3, <4>1 DEF FoldersTyped
    <3> QED BY <2>11, <3>2, <3>3 DEF CloneFails
  <2>12. ASSUME NEW c \in FolderCalls, NEW s \in Slugs,
                \/ DeleteAsked(c, s) \/ CommitAsked(c, s) \/ RegisterAsked(c, s)
                \/ \E op \in Commands : CommandAsked(c, s, op)
                \/ \E w \in Pilots, quiet \in BOOLEAN : SelectAsked(c, w, s, quiet)
         PROVE  Kept
    <3>1. records' = records /\ dir' = dir
      BY <2>12 DEF DeleteAsked, CommitAsked, RegisterAsked, CommandAsked, SelectAsked
    <3> QED BY <2>4, <3>1
  <2> QED BY <2>2, <2>3, <2>5, <2>6, <2>7, <2>8, <2>9, <2>10, <2>11, <2>12 DEF FoldersNext
<1> HIDE DEF Kept
<1> QED BY <1>1, FoldersHold, PTL DEF FoldersSpec, FoldersAreKept, Kept

-----------------------------------------------------------------------------
(* The runtime's images *)

UpdateRequests ==
    [at : {"idle", "asking", "pruning", "pulling", "composing"}, kind : {"none", "check", "update", "rollback"},
     keep : SUBSET Nat, version : Nat, before : Nat, alone : BOOLEAN]

Disks ==
    [env : Nat \ {0}, previous : Nat, images : SUBSET Nat, target : Nat,
     status : {"idle", "available", "updating", "restarting", "completed", "failed"}]

UpdateTyped ==
    /\ disk \in Disks
    /\ memory \in Nat
    /\ releases \in [published : Nat \ {0}, attempts : Nat, crashes : Nat]
    /\ requests \in [Updaters -> UpdateRequests]

(* What an update that was alone began with is in .env.previous, and it    *)
(* keeps the images of both files.                                         *)
AloneInv ==
    \A r \in Updaters : requests[r].alone =>
        /\ requests[r].at \in {"pruning", "pulling"} =>
              requests[r].before = disk.previous /\ disk.previous # NoVersion
        /\ requests[r].at = "pruning" => {disk.env, disk.previous} \subseteq requests[r].keep

UpdateInv == UpdateTyped /\ AloneInv

LEMMA UpdateStarts == ASSUME UpdateInit PROVE UpdateInv
BY DEF UpdateInit, UpdateInv, UpdateTyped, UpdateRequests, Disks, AloneInv, Idle, NoVersion

LEMMA IdleIsAsk == Idle \in UpdateRequests /\ Idle.at = "idle"
BY DEF Idle, UpdateRequests, NoVersion

(* A request that rewrites the files leaves no other one alone. *)
LEMMA WritesLeaves ==
    ASSUME UpdateTyped, NEW r \in Updaters,
           NEW q \in UpdateRequests,
           Writes(r, q)
    PROVE  /\ requests' \in [Updaters -> UpdateRequests]
           /\ \A o \in Updaters \ {r} :
                 /\ requests'[o].at = requests[o].at
                 /\ requests'[o].alone => requests[o].at \in {"idle", "asking"}
           /\ requests'[r].at = q.at /\ requests'[r].before = q.before
           /\ requests'[r].keep = q.keep
<1>1. Idle \in UpdateRequests /\ q \in UpdateRequests /\ \A o \in Updaters : requests[o] \in UpdateRequests
  BY IdleIsAsk DEF UpdateTyped
<1>2. \A b \in BOOLEAN : \A p \in {q} \cup {requests[o] : o \in Updaters} :
         /\ [p EXCEPT !.alone = b] \in UpdateRequests
         /\ [p EXCEPT !.alone = b].at = p.at /\ [p EXCEPT !.alone = b].alone = b
         /\ [p EXCEPT !.alone = b].before = p.before /\ [p EXCEPT !.alone = b].keep = p.keep
  BY DEF UpdateTyped, UpdateRequests, Disks
<1> HIDE DEF UpdateRequests
<1>3. Idle.at = "idle" /\ Idle.before = NoVersion /\ Idle.keep = {} /\ Idle.alone
  BY DEF Idle
<1>4. requests' \in [Updaters -> UpdateRequests]
  BY <1>1, <1>2 DEF Writes
<1>5. \A o \in Updaters \ {r} :
                 /\ requests'[o].at = requests[o].at
                 /\ requests'[o].alone => requests[o].at \in {"idle", "asking"}
  BY <1>1, <1>2 DEF Writes
<1>6. requests'[r] = IF q = Idle THEN Idle ELSE [q EXCEPT !.alone = requests'[r].alone]
  BY <1>1, <1>2 DEF Writes
<1>7. requests'[r].at = q.at /\ requests'[r].before = q.before /\ requests'[r].keep = q.keep
  BY <1>1, <1>2, <1>6, <1>4 DEF UpdateRequests
<1> QED BY <1>4, <1>5, <1>7

LEMMA AskedAsks ==
    ASSUME UpdateTyped, NEW r \in Updaters, Asked(r)
    PROVE  /\ requests' \in [Updaters -> UpdateRequests] /\ requests[r].at = "idle"
           /\ requests'[r].at = "asking" /\ \A o \in Updaters \ {r} : requests'[o] = requests[o]
<1> PICK kind \in {"check", "update"} :
           requests' = [requests EXCEPT ![r].at = "asking", ![r].kind = kind]
  BY DEF Asked
<1> DEFINE x == [requests[r] EXCEPT !.at = "asking", !.kind = kind]
<1>1. x \in UpdateRequests /\ x.at = "asking"
  BY DEF UpdateTyped, UpdateRequests
<1>2. requests' = [requests EXCEPT ![r] = x]
  BY DEF UpdateTyped
<1> HIDE DEF x
<1> QED BY <1>1, <1>2, IdleIsAsk DEF UpdateTyped, Asked, Begins

LEMMA UpdateStep == ASSUME UpdateInv, [UpdateNext]_update PROVE UpdateInv'
<1> USE DEF UpdateInv, NoVersion
<1>1. CASE ReleasePublished \/ StatusRead \/ HelperFails \/ UNCHANGED update
  BY <1>1 DEF ReleasePublished, StatusRead, HelperFails, update, UpdateTyped, UpdateRequests, Disks, AloneInv
<1>2. CASE HelperRestarts \/ BackendCrashes
  <2>1. disk' \in Disks
    BY <1>2 DEF HelperRestarts, BackendCrashes, UpdateTyped, Disks
  <2>2. requests' \in [Updaters -> UpdateRequests] /\ \A o \in Updaters : requests'[o].at = "idle"
    BY <1>2, IdleIsAsk DEF HelperRestarts, BackendCrashes, Forgotten
  <2>3. UpdateTyped'
    BY <1>2, <2>1, <2>2 DEF HelperRestarts, BackendCrashes, Forgotten, UpdateTyped
  <2> QED BY <2>2, <2>3 DEF AloneInv
<1>3. ASSUME NEW r \in Updaters, Asked(r) \/ AskFails(r) \/ Checked(r) \/ Composed(r) \/ ComposeFails(r)
      PROVE  UpdateInv'
  <2>1. disk'.env = disk.env /\ disk'.previous = disk.previous
    BY <1>3 DEF Asked, AskFails, Checked, Composed, ComposeFails, UpdateTyped, UpdateRequests, Disks
  <2>2. UpdateTyped'
    <3>1. disk' \in Disks
      <4>1. disk.images \cup {requests[r].version} \in SUBSET Nat
        BY DEF UpdateTyped, Disks, UpdateRequests
      <4> QED BY <4>1, <1>3 DEF Asked, AskFails, Checked, Composed, ComposeFails, UpdateTyped, Disks
    <3>2. requests' \in [Updaters -> UpdateRequests]
      <4>1. CASE Asked(r)
        BY <4>1, AskedAsks
      <4>2. CASE ~Asked(r)
        BY <4>2, <1>3, IdleIsAsk DEF AskFails, Checked, Composed, ComposeFails, Ends, UpdateTyped
      <4> QED BY <4>1, <4>2
    <3>3. memory' \in Nat /\ releases' \in [published : Nat \ {0}, attempts : Nat, crashes : Nat]
      BY <1>3 DEF Asked, Begins, AskFails, Checked, Composed, ComposeFails, UpdateTyped
    <3> QED BY <3>1, <3>2, <3>3 DEF UpdateTyped
  <2>3. \A o \in Updaters : requests'[o] = requests[o] \/ requests'[o].at \in {"idle", "asking"}
    BY <1>3 DEF Asked, Begins, AskFails, Checked, Composed, ComposeFails, Ends, UpdateTyped, UpdateRequests, Disks, Idle
  <2> QED BY <2>1, <2>2, <2>3 DEF AloneInv
<1>4. ASSUME NEW r \in Updaters, EnvVersioned(r)
      PROVE  UpdateInv'
  <2> DEFINE keep == KeepImages(disk'.env, disk'.previous)
             q == [requests[r] EXCEPT !.at = "pruning", !.keep = keep, !.before = disk.env]
  <2>1. /\ disk'.env = releases.published /\ disk'.previous = disk.env
        /\ disk' \in Disks
    BY <1>4 DEF EnvVersioned, Versioned, UpdateTyped, UpdateRequests, Disks
  <2>0. keep \in SUBSET Nat /\ {disk'.env, disk'.previous} \subseteq keep /\ disk.env \in Nat
    BY <2>1 DEF UpdateTyped, Disks, KeepImages
  <2>3. Writes(r, q)
    BY <1>4 DEF EnvVersioned
  <2> HIDE DEF keep
  <2>2. /\ q \in UpdateRequests
        /\ q.at = "pruning" /\ q.before = disk.env /\ {disk'.env, disk'.previous} \subseteq q.keep
    BY <2>0 DEF UpdateTyped, UpdateRequests
  <2> HIDE DEF q
  <2>4. UpdateTyped'
    BY <1>4, <2>1, <2>2, <2>3, WritesLeaves DEF EnvVersioned, UpdateTyped, UpdateRequests, Disks
  <2>5. AloneInv'
    <3> SUFFICES ASSUME NEW o \in Updaters, requests'[o].alone
                 PROVE  /\ requests'[o].at \in {"pruning", "pulling"} =>
                             requests'[o].before = disk'.previous /\ disk'.previous # NoVersion
                        /\ requests'[o].at = "pruning" =>
                             {disk'.env, disk'.previous} \subseteq requests'[o].keep
      BY DEF AloneInv
    <3>1. CASE o = r
      BY <3>1, <2>1, <2>2, <2>3, WritesLeaves DEF UpdateTyped, UpdateRequests, Disks
    <3>2. CASE o # r
      BY <3>2, <2>2, <2>3, WritesLeaves
    <3> QED BY <3>1, <3>2
  <2> QED BY <2>4, <2>5
<1>5. ASSUME NEW r \in Updaters, Pruned(r) \/ Pulled(r)
      PROVE  UpdateInv'
  <2>1. disk'.env = disk.env /\ disk'.previous = disk.previous
    BY <1>5 DEF Pruned, Pulled, UpdateTyped, UpdateRequests, Disks
  <2>2. UpdateTyped'
    <3>1. disk' \in Disks
      <4>1. /\ {v \in disk.images : v \in requests[r].keep \cup {running.backend, running.services}} \subseteq Nat
            /\ disk.images \cup {requests[r].version} \subseteq Nat
        BY DEF UpdateTyped, Disks, UpdateRequests
      <4> QED BY <4>1, <1>5 DEF Pruned, Pulled, UpdateTyped, Disks
    <3>2. requests' \in [Updaters -> UpdateRequests]
      BY <1>5 DEF Pruned, Pulled, Becomes, UpdateTyped, UpdateRequests, Disks
    <3> QED BY <1>5, <3>1, <3>2 DEF UpdateTyped, Pruned, Pulled
  <2>3. \A o \in Updaters : \/ requests'[o] = requests[o]
                            \/ /\ requests'[o].alone = requests[o].alone
                               /\ requests'[o].at # "pruning"
                               /\ requests[o].at \in {"pruning", "pulling"}
                               /\ requests'[o].before = requests[o].before
    BY <1>5 DEF Pruned, Pulled, Becomes, UpdateTyped, UpdateRequests, Disks
  <2> QED BY <2>1, <2>2, <2>3 DEF AloneInv
<1>6. ASSUME NEW r \in Updaters, FailsBeforeRestart(r)
      PROVE  UpdateInv'
  <2>1. Idle \in UpdateRequests /\ Idle.at = "idle"
    BY DEF Idle, UpdateRequests
  <2>2. UpdateTyped'
    BY <1>6, <2>1, WritesLeaves DEF FailsBeforeRestart, UpdateTyped, UpdateRequests, Disks
  <2>3. \A o \in Updaters : requests'[o].alone => requests'[o].at \in {"idle", "asking"}
    BY <1>6, <2>1, WritesLeaves DEF FailsBeforeRestart
  <2> QED BY <2>2, <2>3 DEF AloneInv
<1>7. ASSUME NEW r \in Updaters, RollsBack(r)
      PROVE  UpdateInv'
  <2> DEFINE q == [Idle EXCEPT !.at = "composing", !.kind = "rollback", !.version = disk.previous]
  <2>1. q \in UpdateRequests /\ q.at = "composing"
    BY DEF Idle, UpdateTyped, UpdateRequests, Disks
  <2>2. Writes(r, q)
    BY <1>7 DEF RollsBack
  <2> HIDE DEF q
  <2>3. UpdateTyped'
    <3>1. disk' \in Disks
      BY <1>7 DEF RollsBack, UpdateTyped, Disks
    <3>2. requests' \in [Updaters -> UpdateRequests]
      BY <2>1, <2>2, WritesLeaves
    <3> QED BY <1>7, <3>1, <3>2 DEF RollsBack, Begins, UpdateTyped
  <2>4. \A o \in Updaters : requests'[o].alone => requests'[o].at \in {"idle", "asking", "composing"}
    BY <2>1, <2>2, WritesLeaves
  <2> QED BY <2>3, <2>4 DEF AloneInv
<1> QED BY <1>1, <1>2, <1>3, <1>4, <1>5, <1>6, <1>7 DEF UpdateNext

LEMMA FailureRestores ==
    ASSUME UpdateInv, [UpdateNext]_update
    PROVE  FailedUpdateRestores
<1> SUFFICES ASSUME NEW r \in Updaters, requests[r].at \in {"pruning", "pulling"}, requests[r].alone,
                    disk.status # "failed", disk'.status = "failed", requests'[r] = Idle
             PROVE  disk'.env = requests[r].before
  BY DEF FailedUpdateRestores
<1>1. \A q \in Updaters : ComposeFails(q) => q # r /\ requests'[r] = requests[r]
  BY DEF ComposeFails, Ends, UpdateInv, UpdateTyped, UpdateRequests, Disks
<1>2. \A q \in Updaters : ~ComposeFails(q)
  BY <1>1 DEF Idle, UpdateRequests
<1>3. PICK q \in Updaters : FailsBeforeRestart(q)
  BY <1>2, ZenonT(60) DEF UpdateNext, update, ReleasePublished, StatusRead, HelperRestarts, HelperFails, BackendCrashes,
              Asked, AskFails, Checked, EnvVersioned, Versioned, Pruned, Pulled, RollsBack, Composed,
              UpdateInv, UpdateTyped, UpdateRequests, Disks
<1> QED BY <1>3 DEF FailsBeforeRestart, UpdateInv, UpdateTyped, UpdateRequests, Disks, AloneInv

LEMMA CleanupKeeps ==
    ASSUME UpdateInv, [UpdateNext]_update
    PROVE  RollbackImageStays
<1> SUFFICES ASSUME NEW r \in Updaters, requests[r].at = "pruning", requests'[r].at = "pulling",
                    requests[r].alone
             PROVE  {disk.env, disk.previous} \cap disk.images \subseteq disk'.images
  BY DEF RollbackImageStays
<1>1. \A q \in Updaters : AskFails(q) \/ Checked(q) \/ Composed(q) \/ ComposeFails(q) \/ Pulled(q)
         => requests'[r] = requests[r] \/ (q = r /\ requests[r].at # "pruning")
  BY DEF AskFails, Checked, Composed, ComposeFails, Pulled, Becomes, Ends, UpdateInv, UpdateTyped
<1>2. \A q \in Updaters : Asked(q) => requests'[r] = requests[r] \/ requests'[r].at = "asking"
  BY AskedAsks DEF UpdateInv
<1>5. \A q \in Updaters : EnvVersioned(q) => requests'[r].at \in {requests[r].at, "pruning"}
  <2> SUFFICES ASSUME NEW q \in Updaters, EnvVersioned(q)
               PROVE  requests'[r].at \in {requests[r].at, "pruning"}
    OBVIOUS
  <2> DEFINE keep == KeepImages(disk'.env, disk'.previous)
             k == [requests[q] EXCEPT !.at = "pruning", !.keep = keep, !.before = disk.env]
  <2>1. keep \in SUBSET Nat
    BY DEF EnvVersioned, Versioned, KeepImages, UpdateInv, UpdateTyped, Disks
  <2>3. disk.env \in Nat
    BY DEF UpdateInv, UpdateTyped, Disks
  <2>4. Writes(q, k)
    BY DEF EnvVersioned
  <2>2. k \in UpdateRequests /\ k.at = "pruning" /\ Writes(q, k)
    <3> HIDE DEF keep
    <3> QED BY <2>1, <2>3, <2>4 DEF UpdateInv, UpdateTyped, UpdateRequests
  <2> HIDE DEF k
  <2> QED BY <2>2, WritesLeaves DEF UpdateInv
<1>6. \A q \in Updaters : FailsBeforeRestart(q) => requests'[r].at \in {requests[r].at, "idle"}
  BY IdleIsAsk, WritesLeaves DEF FailsBeforeRestart, UpdateInv
<1>7. \A q \in Updaters : RollsBack(q) => requests'[r].at \in {requests[r].at, "composing"}
  <2> SUFFICES ASSUME NEW q \in Updaters, RollsBack(q)
               PROVE  requests'[r].at \in {requests[r].at, "composing"}
    OBVIOUS
  <2> DEFINE k == [Idle EXCEPT !.at = "composing", !.kind = "rollback", !.version = disk.previous]
  <2>1. k \in UpdateRequests /\ k.at = "composing" /\ Writes(q, k)
    BY IdleIsAsk DEF RollsBack, UpdateInv, UpdateTyped, UpdateRequests, Disks
  <2> HIDE DEF k
  <2> QED BY <2>1, WritesLeaves DEF UpdateInv
<1>3. PICK q \in Updaters : Pruned(q)
  BY <1>1, <1>2, <1>5, <1>6, <1>7 DEF UpdateNext, update, ReleasePublished, StatusRead, HelperRestarts, HelperFails,
                    BackendCrashes, Forgotten, Idle
<1>4. q = r
  BY <1>3 DEF Pruned, Becomes, UpdateInv, UpdateTyped
<1> QED BY <1>3, <1>4 DEF Pruned, UpdateInv, UpdateTyped, UpdateRequests, Disks, AloneInv

-----------------------------------------------------------------------------
(* OpenCode's releases *)

Scripts == Containers \cup Presses

RuntimeTyped ==
    /\ npm \in Nat \ {0}
    /\ toolbox \in [installed : Nat, cached : Nat, fresh : BOOLEAN, image : Nat \ {0}]
    /\ checks \in [Scripts -> [at : {"off", "read", "resolve", "install"}, current : Nat, latest : Nat]]
    /\ upkeep \in [enabled : BOOLEAN, reboots : Nat, faults : Nat, crossed : BOOLEAN, imaged : BOOLEAN]
    /\ presses \in [Presses -> [at : {"idle", "checking", "exec"}, todo : SUBSET Containers]]

(* What is installed or about to be is no newer than what was looked up    *)
(* last, and the image stays the first one until another one comes.        *)
LookedUpInv ==
    /\ toolbox.installed <= toolbox.cached /\ toolbox.cached <= npm
    /\ toolbox.fresh => toolbox.cached >= 1
    /\ ~upkeep.imaged => toolbox.image = 1
    /\ \A r \in Scripts : checks[r].at = "install" =>
          checks[r].latest >= 1 /\ checks[r].latest <= toolbox.cached

(* Unless runs have overlapped or an image has come there is one, and what it is about to       *)
(* install is no older than what is installed.                             *)
AloneRunInv ==
    ~upkeep.crossed /\ ~upkeep.imaged =>
        /\ \A r, s \in Scripts : Running(r) /\ Running(s) => r = s
        /\ \A r \in Scripts : checks[r].at = "install" => checks[r].latest >= toolbox.installed

RuntimeInv == RuntimeTyped /\ LookedUpInv /\ AloneRunInv

LEMMA RuntimeStarts == ASSUME RuntimeInit PROVE RuntimeInv
BY DEF RuntimeInit, RuntimeInv, RuntimeTyped, LookedUpInv, AloneRunInv, NoCheck, NoPress, Running, Scripts

(* After a restart one more run is under way. *)
LEMMA RestartBegins ==
    ASSUME RuntimeTyped, NEW C \in SUBSET Containers, NEW u, Restarted(C, u),
           u \in [enabled : BOOLEAN, reboots : Nat, faults : Nat, crossed : BOOLEAN, imaged : BOOLEAN]
    PROVE  /\ checks' \in [Scripts -> [at : {"off", "read", "resolve", "install"}, current : Nat, latest : Nat]]
           /\ upkeep' \in [enabled : BOOLEAN, reboots : Nat, faults : Nat, crossed : BOOLEAN, imaged : BOOLEAN]
           /\ upkeep'.imaged = u.imaged
           /\ \A r \in Scripts : checks'[r] = checks[r] \/ checks'[r].at \in {"off", "read"}
           /\ ~upkeep'.crossed => /\ ~u.crossed
                                  /\ \A r \in Scripts \ C : checks'[r].at = "off"
                                  
<1> DEFINE left == [r \in DOMAIN checks |-> IF r \in Killed(C) \cup C THEN NoCheck ELSE checks[r]]
<1>1. left \in [Scripts -> [at : {"off", "read", "resolve", "install"}, current : Nat, latest : Nat]]
  BY DEF RuntimeTyped, NoCheck
<1>2. \A r \in Scripts : left[r] = checks[r] \/ left[r].at = "off"
  BY DEF RuntimeTyped, NoCheck
<1>3. checks' = Begun(left, C) /\ upkeep' = [u EXCEPT !.crossed = @ \/ Beside(left, C)]
  BY DEF Restarted
<1> HIDE DEF left
<1>4. checks' = [r \in Scripts |-> IF r \in C THEN [NoCheck EXCEPT !.at = "read"] ELSE left[r]]
  BY <1>1, <1>3 DEF Begun
<1>5. [NoCheck EXCEPT !.at = "read"] \in [at : {"off", "read", "resolve", "install"}, current : Nat, latest : Nat]
      /\ [NoCheck EXCEPT !.at = "read"].at = "read"
  BY DEF NoCheck
<1>6. ~upkeep'.crossed => ~u.crossed /\ \A r \in Scripts \ C : left[r].at = "off"
  BY <1>1, <1>3 DEF Beside
<1>7. checks' \in [Scripts -> [at : {"off", "read", "resolve", "install"}, current : Nat, latest : Nat]]
  BY <1>1, <1>4, <1>5
<1>8. \A r \in Scripts : checks'[r] = checks[r] \/ checks'[r].at \in {"off", "read"}
  BY <1>2, <1>4, <1>5
<1>9. upkeep' \in [enabled : BOOLEAN, reboots : Nat, faults : Nat, crossed : BOOLEAN, imaged : BOOLEAN]
      /\ upkeep'.imaged = u.imaged
  BY <1>3 DEF Beside
<1>10. \A r \in Scripts \ C : checks'[r] = left[r]
  BY <1>4
<1> QED BY <1>6, <1>7, <1>8, <1>9, <1>10

(* A step after which fewer runs are under way, or one more alone. *)
LEMMA RunFrame ==
    ASSUME RuntimeInv, RuntimeTyped', npm' >= npm, toolbox'.cached >= toolbox.cached, toolbox'.cached <= npm',
           toolbox'.installed = toolbox.installed,
           toolbox'.fresh => toolbox'.cached >= 1, ~upkeep'.imaged => toolbox'.image = 1,
           \A r \in Scripts : checks'[r] = checks[r] \/ checks'[r].at # "install",
           upkeep.imaged => upkeep'.imaged,
           ~upkeep'.crossed /\ ~upkeep'.imaged =>
                ~upkeep.crossed /\ \A r, s \in Scripts : Running(r)' /\ Running(s)' => r = s
    PROVE  RuntimeInv'
<1>1. LookedUpInv'
  BY DEF RuntimeInv, RuntimeTyped, LookedUpInv
<1>2. AloneRunInv'
  BY DEF RuntimeInv, RuntimeTyped, AloneRunInv
<1> QED BY <1>1, <1>2 DEF RuntimeInv

LEMMA RunsKeep ==
    ASSUME RuntimeInv, NEW r \in Scripts,
           ReadsInstalled(r) \/ LatestResolved(r) \/ Installs(r) \/ NpmFails(r)
    PROVE  RuntimeInv'
<1>1. Effective(toolbox) \in Nat
  BY DEF RuntimeInv, RuntimeTyped, Effective
<1>2. CASE ReadsInstalled(r)
  <2>1. RuntimeTyped'
    BY <1>1, <1>2 DEF ReadsInstalled, RuntimeInv, RuntimeTyped, NoCheck
  <2>2. \A s \in Scripts : checks'[s] = checks[s] \/ (s = r /\ checks[s].at = "read" /\ checks'[s].at # "install")
    BY <1>2 DEF ReadsInstalled, RuntimeInv, RuntimeTyped, NoCheck
  <2>3. UNCHANGED <<npm, toolbox, upkeep>>
    BY <1>2 DEF ReadsInstalled
  <2>4. \A s \in Scripts : Running(s)' => Running(s)
    BY <2>2 DEF Running
  <2> QED BY <2>1, <2>2, <2>3, <2>4, RunFrame DEF RuntimeInv, RuntimeTyped, LookedUpInv, AloneRunInv
<1>3. CASE NpmFails(r)
  <2>1. RuntimeTyped'
    <3>1. /\ npm' = npm /\ toolbox' = toolbox /\ upkeep' = Faulted
          /\ checks' = [checks EXCEPT ![r] = NoCheck]
          /\ presses' = presses \/ presses' = [presses EXCEPT ![r] = NoPress]
      BY <1>3 DEF NpmFails
    <3>2. upkeep' \in [enabled : BOOLEAN, reboots : Nat, faults : Nat, crossed : BOOLEAN, imaged : BOOLEAN]
      BY <3>1 DEF Faulted, RuntimeInv, RuntimeTyped
    <3>3. presses' \in [Presses -> [at : {"idle", "checking", "exec"}, todo : SUBSET Containers]]
      BY <3>1 DEF NoPress, RuntimeInv, RuntimeTyped
    <3> QED BY <3>1, <3>2, <3>3 DEF NoCheck, RuntimeInv, RuntimeTyped
  <2>2. /\ \A s \in Scripts : checks'[s] = checks[s] \/ checks'[s].at = "off"
        /\ upkeep'.crossed = upkeep.crossed /\ upkeep'.imaged = upkeep.imaged
    BY <1>3 DEF NpmFails, RuntimeInv, RuntimeTyped, NoCheck, Faulted
  <2> QED BY <1>3, <2>1, <2>2, RunFrame DEF NpmFails, RuntimeInv, RuntimeTyped, LookedUpInv, AloneRunInv, Running
<1>4. CASE Installs(r)
  <2>1. RuntimeTyped'
    BY <1>4 DEF Installs, RuntimeInv, RuntimeTyped, NoCheck
  <2>2. /\ \A s \in Scripts : checks'[s] = checks[s] \/ checks'[s].at = "off"
        /\ checks'[r].at = "off"
        /\ toolbox' = [toolbox EXCEPT !.installed = checks[r].latest]
        /\ UNCHANGED <<npm, upkeep>> /\ checks[r].at = "install"
    BY <1>4 DEF Installs, RuntimeInv, RuntimeTyped, NoCheck
  <2>3. LookedUpInv'
    BY <2>1, <2>2 DEF RuntimeInv, RuntimeTyped, LookedUpInv
  <2>4. AloneRunInv'
    BY <2>1, <2>2 DEF RuntimeInv, RuntimeTyped, AloneRunInv, Running
  <2> QED BY <2>1, <2>3, <2>4 DEF RuntimeInv
<1>5. CASE LatestResolved(r)
  <2> DEFINE latest == IF ~Forced(r) /\ toolbox.fresh THEN toolbox.cached ELSE npm
  <2>0. npm \in Nat /\ npm >= 1 /\ toolbox.installed \in Nat /\ toolbox.cached \in Nat
    BY DEF RuntimeInv, RuntimeTyped
  <2>1. /\ latest \in Nat /\ latest >= 1 /\ latest >= toolbox.installed /\ latest <= toolbox'.cached
        /\ toolbox' \in [installed : Nat, cached : Nat, fresh : BOOLEAN, image : Nat \ {0}]
        /\ toolbox'.installed = toolbox.installed /\ toolbox'.image = toolbox.image
        /\ toolbox'.cached >= toolbox.cached /\ toolbox'.cached <= npm
        /\ toolbox'.fresh => toolbox'.cached >= 1
    <3>1. CASE ~Forced(r) /\ toolbox.fresh
      <4>1. toolbox' = toolbox /\ latest = toolbox.cached
        BY <1>5, <3>1 DEF LatestResolved
      <4> HIDE DEF latest
      <4> QED BY <2>0, <4>1, <3>1 DEF RuntimeInv, RuntimeTyped, LookedUpInv
    <3>2. CASE ~(~Forced(r) /\ toolbox.fresh)
      <4>1. toolbox' = [toolbox EXCEPT !.cached = npm, !.fresh = TRUE] /\ latest = npm
        BY <1>5, <3>2 DEF LatestResolved, Written
      <4> HIDE DEF latest
      <4>2. toolbox \in [installed : Nat, cached : Nat, fresh : BOOLEAN, image : Nat \ {0}]
            /\ toolbox.installed <= toolbox.cached /\ toolbox.cached <= npm
        BY DEF RuntimeInv, RuntimeTyped, LookedUpInv
      <4>3. /\ toolbox'.cached = npm /\ toolbox'.installed = toolbox.installed
            /\ toolbox'.image = toolbox.image
            /\ toolbox' \in [installed : Nat, cached : Nat, fresh : BOOLEAN, image : Nat \ {0}]
        BY <2>0, <4>1, <4>2
      <4> QED BY <2>0, <4>1, <4>2, <4>3
    <3> QED BY <3>1, <3>2
  <2>2. checks' = [checks EXCEPT ![r] = IF latest = @.current THEN NoCheck
                                         ELSE [@ EXCEPT !.at = "install", !.latest = latest]]
    BY <1>5 DEF LatestResolved
  <2> HIDE DEF latest
  <2>3. /\ checks' \in [Scripts -> [at : {"off", "read", "resolve", "install"}, current : Nat, latest : Nat]]
        /\ \A s \in Scripts \ {r} : checks'[s] = checks[s]
        /\ checks'[r].at = "install" => checks'[r].latest = latest
        /\ checks[r].at = "resolve" /\ UNCHANGED <<npm, upkeep>>
    <3>1. checks[r].at = "resolve" /\ UNCHANGED <<npm, upkeep>>
      BY <1>5 DEF LatestResolved
    <3> DEFINE next == IF latest = checks[r].current THEN NoCheck
                       ELSE [checks[r] EXCEPT !.at = "install", !.latest = latest]
    <3>2. /\ next \in [at : {"off", "read", "resolve", "install"}, current : Nat, latest : Nat]
          /\ next.at = "install" => next.latest = latest
      <4>1. checks[r] \in [at : {"off", "read", "resolve", "install"}, current : Nat, latest : Nat]
        BY DEF RuntimeInv, RuntimeTyped
      <4>2. NoCheck \in [at : {"off", "read", "resolve", "install"}, current : Nat, latest : Nat]
            /\ NoCheck.at = "off"
        BY DEF NoCheck
      <4> QED BY <2>1, <4>1, <4>2
    <3>3. checks' = [checks EXCEPT ![r] = next]
      BY <2>2
    <3> HIDE DEF next
    <3> QED BY <3>1, <3>2, <3>3 DEF RuntimeInv, RuntimeTyped
  <2>4. RuntimeTyped'
    <3>1. UNCHANGED presses
      BY <1>5 DEF LatestResolved
    <3> QED BY <2>1, <2>3, <3>1 DEF RuntimeInv, RuntimeTyped
  <2>5. LookedUpInv'
    BY <2>1, <2>3, <2>4 DEF RuntimeInv, RuntimeTyped, LookedUpInv
  <2>6. AloneRunInv'
    <3>1. \A s \in Scripts : Running(s)' => Running(s)
      BY <2>3 DEF Running
    <3>2. ASSUME ~upkeep'.crossed, ~upkeep'.imaged, NEW s \in Scripts, checks'[s].at = "install"
          PROVE  checks'[s].latest >= toolbox'.installed
      <4>1. Running(r) /\ Running(s)
        BY <2>3, <3>1, <3>2 DEF Running
      <4>2. s = r
        BY <2>3, <3>2, <4>1 DEF RuntimeInv, AloneRunInv
      <4> QED BY <2>1, <2>3, <3>2, <4>2
    <3> QED BY <2>3, <3>1, <3>2 DEF RuntimeInv, AloneRunInv
  <2> QED BY <2>4, <2>5, <2>6 DEF RuntimeInv
<1> QED BY <1>2, <1>3, <1>4, <1>5

LEMMA RestartsKeep ==
    ASSUME RuntimeInv, NEW c \in Containers, UNCHANGED <<npm, toolbox>>,
           NEW u \in [enabled : BOOLEAN, reboots : Nat, faults : Nat, crossed : BOOLEAN, imaged : BOOLEAN],
           u.crossed = upkeep.crossed, u.imaged = upkeep.imaged, Restarted({c}, u),
           presses' \in [Presses -> [at : {"idle", "checking", "exec"}, todo : SUBSET Containers]]
    PROVE  RuntimeInv'
<1>1. {c} \in SUBSET Containers
  OBVIOUS
<1>2. /\ checks' \in [Scripts -> [at : {"off", "read", "resolve", "install"}, current : Nat, latest : Nat]]
      /\ upkeep' \in [enabled : BOOLEAN, reboots : Nat, faults : Nat, crossed : BOOLEAN, imaged : BOOLEAN]
      /\ upkeep'.imaged = u.imaged
      /\ \A r \in Scripts : checks'[r] = checks[r] \/ checks'[r].at \in {"off", "read"}
      /\ ~upkeep'.crossed => /\ ~u.crossed
                             /\ \A r \in Scripts \ {c} : checks'[r].at = "off"
  BY <1>1, RestartBegins DEF RuntimeInv
<1>3. RuntimeTyped'
  BY <1>2 DEF RuntimeInv, RuntimeTyped
<1>4. \A r \in Scripts : checks'[r] = checks[r] \/ checks'[r].at # "install"
  BY <1>2
<1>5. ~upkeep'.crossed => ~upkeep.crossed /\ \A r, s \in Scripts : Running(r)' /\ Running(s)' => r = s
  BY <1>2 DEF Running
<1> QED BY <1>2, <1>3, <1>4, <1>5, RunFrame DEF RuntimeInv, RuntimeTyped, LookedUpInv

LEMMA ImageCounted ==
    ASSUME NEW v \in [enabled : BOOLEAN, reboots : Nat, faults : Nat, crossed : BOOLEAN, imaged : BOOLEAN],
           NEW n \in Nat, NEW w, w = [v EXCEPT !.reboots = n, !.imaged = TRUE]
    PROVE  /\ w \in [enabled : BOOLEAN, reboots : Nat, faults : Nat, crossed : BOOLEAN, imaged : BOOLEAN]
           /\ w.crossed = v.crossed /\ w.imaged
OBVIOUS

LEMMA RuntimeStep == ASSUME RuntimeInv, [RuntimeNext]_runtime PROVE RuntimeInv'
<1>1. CASE \E r \in Containers \cup Presses : ReadsInstalled(r) \/ LatestResolved(r) \/ Installs(r) \/ NpmFails(r)
  BY <1>1, RunsKeep DEF Scripts
<1>2. ASSUME NEW c \in Containers, Reboots(c) PROVE RuntimeInv'
  <2>1. /\ [upkeep EXCEPT !.reboots = @ + 1] \in
              [enabled : BOOLEAN, reboots : Nat, faults : Nat, crossed : BOOLEAN, imaged : BOOLEAN]
        /\ [upkeep EXCEPT !.reboots = @ + 1].crossed = upkeep.crossed
        /\ [upkeep EXCEPT !.reboots = @ + 1].imaged = upkeep.imaged
    BY DEF RuntimeInv, RuntimeTyped
  <2>2. presses' \in [Presses -> [at : {"idle", "checking", "exec"}, todo : SUBSET Containers]]
    BY <1>2 DEF Reboots, RuntimeInv, RuntimeTyped, NoPress
  <2> QED BY <1>2, <2>1, <2>2, RestartsKeep DEF Reboots
<1>3. ASSUME NEW b \in Presses, UpdatePressed(b) PROVE RuntimeInv'
  <2>1. /\ UNCHANGED <<npm, toolbox, checks, upkeep>>
        /\ presses' \in [Presses -> [at : {"idle", "checking", "exec"}, todo : SUBSET Containers]]
    BY <1>3 DEF UpdatePressed, RuntimeInv, RuntimeTyped
  <2> QED BY <2>1, RunFrame DEF RuntimeInv, RuntimeTyped, LookedUpInv, AloneRunInv, Running
<1>4. ASSUME NEW b \in Presses, StatusChecked(b) PROVE RuntimeInv'
  <2>1. CASE Effective(toolbox) = npm
    <3>1. /\ UNCHANGED <<npm, toolbox, checks, upkeep>>
          /\ presses' \in [Presses -> [at : {"idle", "checking", "exec"}, todo : SUBSET Containers]]
      BY <1>4, <2>1 DEF StatusChecked, RuntimeInv, RuntimeTyped, NoPress
    <3> QED BY <3>1, RunFrame DEF RuntimeInv, RuntimeTyped, LookedUpInv, AloneRunInv, Running
  <2>2. CASE Effective(toolbox) # npm
    <3>1. /\ checks' = [r \in Scripts |-> IF r = b THEN [NoCheck EXCEPT !.at = "read"] ELSE checks[r]]
          /\ upkeep' = [upkeep EXCEPT !.crossed = @ \/ Beside(checks, {b})]
          /\ UNCHANGED <<npm, toolbox>>
          /\ presses' \in [Presses -> [at : {"idle", "checking", "exec"}, todo : SUBSET Containers]]
      BY <1>4, <2>2 DEF StatusChecked, Begun, RuntimeInv, RuntimeTyped
    <3>2. RuntimeTyped'
      BY <3>1 DEF RuntimeInv, RuntimeTyped, NoCheck, Beside
    <3>3. \A r \in Scripts : checks'[r] = checks[r] \/ checks'[r].at # "install"
      BY <3>1 DEF NoCheck
    <3>4. ~upkeep'.crossed => ~upkeep.crossed /\ \A r \in Scripts \ {b} : checks'[r].at = "off"
      BY <3>1 DEF Beside, RuntimeInv, RuntimeTyped
    <3>5. ~upkeep'.crossed => ~upkeep.crossed /\ \A r, s \in Scripts : Running(r)' /\ Running(s)' => r = s
      BY <3>4 DEF Running
    <3>6. upkeep'.imaged = upkeep.imaged
      BY <3>1 DEF RuntimeInv, RuntimeTyped
    <3>7. /\ npm' >= npm /\ toolbox'.cached >= toolbox.cached /\ toolbox'.cached <= npm'
          /\ toolbox'.installed = toolbox.installed /\ (toolbox'.fresh => toolbox'.cached >= 1)
          /\ (~upkeep'.imaged => toolbox'.image = 1) /\ (upkeep.imaged => upkeep'.imaged)
      BY <3>1, <3>6 DEF RuntimeInv, RuntimeTyped, LookedUpInv
    <3> QED BY <3>2, <3>3, <3>5, <3>7, RunFrame
  <2> QED BY <2>1, <2>2
<1>5. ASSUME NEW b \in Presses, RestartsNext(b) PROVE RuntimeInv'
  <2> PICK c \in presses[b].todo : Restarted({c}, upkeep) /\ UNCHANGED <<npm, toolbox>>
    BY <1>5 DEF RestartsNext
  <2>1. c \in Containers
    BY DEF RuntimeInv, RuntimeTyped
  <2>2. presses' \in [Presses -> [at : {"idle", "checking", "exec"}, todo : SUBSET Containers]]
    <3>1. NoPress \in [at : {"idle", "checking", "exec"}, todo : SUBSET Containers]
      BY DEF NoPress
    <3>2. \A e \in Containers : [presses[b] EXCEPT !.todo = @ \ {e}] \in
                                    [at : {"idle", "checking", "exec"}, todo : SUBSET Containers]
      BY DEF RuntimeInv, RuntimeTyped
    <3> QED BY <1>5, <3>1, <3>2 DEF RestartsNext, RuntimeInv, RuntimeTyped
  <2> QED BY <2>1, <2>2, RestartsKeep DEF RuntimeInv, RuntimeTyped
<1>6. CASE ImageArrives
  <2> DEFINE u == [upkeep EXCEPT !.reboots = @ + 1, !.imaged = TRUE]
  <2>1. u \in [enabled : BOOLEAN, reboots : Nat, faults : Nat, crossed : BOOLEAN, imaged : BOOLEAN]
        /\ u.crossed = upkeep.crossed /\ u.imaged
    <3>1. upkeep \in [enabled : BOOLEAN, reboots : Nat, faults : Nat, crossed : BOOLEAN, imaged : BOOLEAN]
      BY DEF RuntimeInv, RuntimeTyped
    <3>2. upkeep.reboots + 1 \in Nat
      BY <3>1
    <3> QED BY <3>1, <3>2, ImageCounted
  <2>2. Restarted(Containers, u) /\ toolbox' = [toolbox EXCEPT !.image = npm] /\ UNCHANGED npm
    BY <1>6 DEF ImageArrives
  <2> HIDE DEF u
  <2>3. /\ checks' \in [Scripts -> [at : {"off", "read", "resolve", "install"}, current : Nat, latest : Nat]]
        /\ upkeep' \in [enabled : BOOLEAN, reboots : Nat, faults : Nat, crossed : BOOLEAN, imaged : BOOLEAN]
        /\ upkeep'.imaged
        /\ \A r \in Scripts : checks'[r] = checks[r] \/ checks'[r].at \in {"off", "read"}
        /\ ~upkeep'.crossed => ~upkeep.crossed
    BY <2>1, <2>2, RestartBegins, Containers \in SUBSET Containers DEF RuntimeInv
  <2>4. presses' \in [Presses -> [at : {"idle", "checking", "exec"}, todo : SUBSET Containers]]
    BY <1>6 DEF ImageArrives, RuntimeInv, RuntimeTyped, NoPress
  <2>5. RuntimeTyped'
    BY <2>2, <2>3, <2>4 DEF RuntimeInv, RuntimeTyped
  <2>6. toolbox'.cached = toolbox.cached /\ toolbox'.installed = toolbox.installed
        /\ toolbox'.fresh = toolbox.fresh
    BY <2>2 DEF RuntimeInv, RuntimeTyped
  <2> QED BY <2>2, <2>3, <2>5, <2>6, RunFrame DEF RuntimeInv, RuntimeTyped, LookedUpInv
<1>7. CASE OpenCodeReleased \/ CacheExpires \/ UNCHANGED runtime
  <2>1. RuntimeTyped'
    <3>1. CASE OpenCodeReleased
      BY <3>1 DEF OpenCodeReleased, RuntimeInv, RuntimeTyped
    <3>2. CASE CacheExpires
      BY <3>2 DEF CacheExpires, RuntimeInv, RuntimeTyped
    <3>3. CASE UNCHANGED runtime
      BY <3>3 DEF runtime, RuntimeInv, RuntimeTyped
    <3> QED BY <1>7, <3>1, <3>2, <3>3
  <2>2. /\ UNCHANGED <<checks, upkeep>> /\ npm' >= npm
        /\ toolbox'.cached = toolbox.cached /\ toolbox'.installed = toolbox.installed
        /\ (toolbox'.fresh => toolbox.fresh) /\ toolbox'.image = toolbox.image
    BY <1>7 DEF OpenCodeReleased, CacheExpires, runtime, RuntimeInv, RuntimeTyped
  <2> QED BY <2>1, <2>2, RunFrame DEF RuntimeInv, RuntimeTyped, LookedUpInv, AloneRunInv, Running
<1> QED BY <1>1, <1>2, <1>3, <1>4, <1>5, <1>6, <1>7 DEF RuntimeNext

LEMMA StepIsForward ==
    ASSUME RuntimeInv, [RuntimeNext]_runtime, ~upkeep'.crossed, ~upkeep.imaged
    PROVE  Effective(toolbox') >= Effective(toolbox)
<1>1. /\ toolbox.installed \in Nat /\ toolbox.image \in Nat /\ npm \in Nat
      /\ Effective(toolbox) \in Nat
  BY DEF RuntimeInv, RuntimeTyped, Effective
<1>2. ASSUME NEW r \in Scripts, Installs(r) PROVE Effective(toolbox') >= Effective(toolbox)
  <2>1. toolbox' = [toolbox EXCEPT !.installed = checks[r].latest] /\ UNCHANGED upkeep
    BY <1>2 DEF Installs
  <2>2. checks[r].latest \in Nat /\ checks[r].latest >= 1 /\ checks[r].latest >= toolbox.installed
    BY <1>2, <2>1 DEF Installs, RuntimeInv, RuntimeTyped, LookedUpInv, AloneRunInv
  <2>3. toolbox.installed = 0 => toolbox.image = 1
    BY DEF RuntimeInv, LookedUpInv
  <2> QED BY <1>1, <2>1, <2>2, <2>3 DEF Effective, RuntimeInv, RuntimeTyped
<1>3. CASE toolbox'.installed = toolbox.installed /\ toolbox'.image >= toolbox.image
  BY <1>1, <1>3 DEF Effective
<1>4. ASSUME NEW r \in Scripts, LatestResolved(r)
      PROVE  toolbox'.installed = toolbox.installed /\ toolbox'.image >= toolbox.image
  BY <1>1, <1>4 DEF LatestResolved, Written, RuntimeInv, RuntimeTyped
<1>5. ASSUME ImageArrives PROVE toolbox'.installed = toolbox.installed /\ toolbox'.image >= toolbox.image
  BY <1>1, <1>5 DEF ImageArrives, RuntimeInv, RuntimeTyped
<1>6. ASSUME CacheExpires PROVE toolbox'.installed = toolbox.installed /\ toolbox'.image >= toolbox.image
  BY <1>1, <1>6 DEF CacheExpires, RuntimeInv, RuntimeTyped
<1>7. ASSUME UNCHANGED toolbox PROVE toolbox'.installed = toolbox.installed /\ toolbox'.image >= toolbox.image
  BY <1>1, <1>7
<1>8. \/ \E r \in Scripts : Installs(r)
      \/ \E r \in Scripts : LatestResolved(r)
      \/ ImageArrives \/ CacheExpires \/ UNCHANGED toolbox
  BY DEF RuntimeNext, Scripts, ReadsInstalled, NpmFails, Reboots, UpdatePressed, StatusChecked, RestartsNext,
         OpenCodeReleased, runtime
<1> QED BY <1>2, <1>3, <1>4, <1>5, <1>6, <1>7, <1>8

(* An update of the runtime that fails before the restart leaves what it   *)
(* found, when no other one ran meanwhile, and the image to go back to     *)
(* survives the cleanup (RuntimeUpdateService.startUpdate, rollback).      *)
THEOREM UpdatesGoBack == UpdateSpec => UpdatesAreReversible
<1>1. UpdateInit => UpdateInv
  BY UpdateStarts
<1>2. UpdateInv /\ [UpdateNext]_update => UpdateInv' /\ FailedUpdateRestores /\ RollbackImageStays
  BY UpdateStep, FailureRestores, CleanupKeeps
<1> QED BY <1>1, <1>2, PTL DEF UpdateSpec, UpdatesAreReversible

(* As long as its update scripts do not overlap and no image comes from    *)
(* outside, the release of OpenCode that runs never gets older             *)
(* (OpenCodeRuntimeService, update-opencode-runtime.sh).                   *)
THEOREM ReleasesGoForward == RuntimeInit /\ [][RuntimeNext]_runtime => OnlyForward
<1>1. RuntimeInit => RuntimeInv
  BY RuntimeStarts
<1>2. RuntimeInv /\ [RuntimeNext]_runtime
        => RuntimeInv' /\ (~upkeep'.crossed /\ ~upkeep.imaged => Effective(toolbox') >= Effective(toolbox))
  BY RuntimeStep, StepIsForward
<1> QED BY <1>1, <1>2, PTL DEF OnlyForward

-----------------------------------------------------------------------------
(* The board's file *)

(* Prefixes *)

LEMMA PrefixOfItself == ASSUME NEW S, NEW s \in Seq(S) PROVE IsPrefix(s, s)
BY LenProperties DEF IsPrefix

LEMMA PrefixOfLonger ==
    ASSUME NEW S, NEW s \in Seq(S), NEW t \in Seq(S), NEW e \in S, IsPrefix(s, t)
    PROVE  IsPrefix(s, Append(t, e))
<1>1. /\ Len(s) \in Nat /\ Len(t) \in Nat /\ Len(s) <= Len(t)
      /\ SubSeq(s, 1, Len(s)) = SubSeq(t, 1, Len(s))
  BY LenProperties DEF IsPrefix
<1>2. /\ Append(t, e) \in Seq(S) /\ Len(Append(t, e)) = Len(t) + 1
      /\ \A i \in 1 .. Len(t) : Append(t, e)[i] = t[i]
  BY AppendProperties
<1>3. /\ \A i \in 1 .. Len(s) : t[i] \in S /\ Append(t, e)[i] = t[i]
  BY <1>1, <1>2, ElementOfSeq
<1>4. /\ SubSeq(t, 1, Len(s)) \in Seq(S)
      /\ Len(SubSeq(t, 1, Len(s))) = Len(s)
      /\ \A i \in 1 .. Len(s) : SubSeq(t, 1, Len(s))[i] = t[i]
  BY <1>1, <1>3, SubSeqProperties
<1>5. /\ SubSeq(Append(t, e), 1, Len(s)) \in Seq(S)
      /\ Len(SubSeq(Append(t, e), 1, Len(s))) = Len(s)
      /\ \A i \in 1 .. Len(s) : SubSeq(Append(t, e), 1, Len(s))[i] = Append(t, e)[i]
  BY <1>1, <1>3, SubSeqProperties
<1>6. SubSeq(Append(t, e), 1, Len(s)) = SubSeq(t, 1, Len(s))
  BY <1>1, <1>3, <1>4, <1>5, SeqEqual
<1> QED BY <1>1, <1>2, <1>6 DEF IsPrefix

(* The first of a queue stays the first when another one joins. *)
LEMMA HeadStays ==
    ASSUME NEW S, NEW s \in Seq(S), s # <<>>, NEW e \in S
    PROVE  Append(s, e) # <<>> /\ Head(Append(s, e)) = Head(s)
<1>1. Len(s) \in Nat \ {0}
  BY EmptySeq
<1> QED BY <1>1, AppendProperties

-----------------------------------------------------------------------------

CallKinds == {"none", "transact", "read", "backup"}
CallPlaces == {"idle", "queued", "operating", "writing", "renamed", "waiting", "looked", "pruning"}
StoreCalls == [kind : CallKinds, at : CallPlaces, ahead : SUBSET Clients, draft : Seq(Clients)]

StoreTyped ==
    /\ file \in Seq(Clients)
    /\ backups \in Seq(Seq(Clients))
    /\ queue \in [{"write", "backup"} -> Seq(Clients)]
    /\ call \in [Clients -> StoreCalls]

(* A call that has its turn is the first of its queue, a transaction's     *)
(* draft is the file until it is renamed, and nobody holds a draft before  *)
(* they looked.                                                            *)
CallOK(c) ==
    \/ call[c] = NoCallYet
    \/ /\ call[c].kind = "transact" /\ call[c].at \in {"queued", "operating", "writing", "renamed"}
       /\ call[c].at # "queued" => HasTurn("write", c)
       /\ call[c].at \in {"operating", "writing"} => call[c].draft = file
    \/ /\ call[c].kind = "read" /\ call[c].at \in {"waiting", "looked"}
       /\ call[c].at = "waiting" => call[c].draft = <<>>
    \/ /\ call[c].kind = "backup" /\ call[c].at \in {"queued", "waiting", "looked", "pruning"}
       /\ call[c].at # "queued" => HasTurn("backup", c)
       /\ call[c].at \in {"queued", "waiting"} => call[c].draft = <<>>

CallsInv == \A c \in Clients : CallOK(c)

(* The backups grow towards the file, and what is being backed up lies     *)
(* between them and the file.                                              *)
BackupsInv ==
    /\ BackupsGrow
    /\ \A i \in DOMAIN backups : IsPrefix(backups[i], file)
    /\ \A c \in Clients : call[c].kind = "backup" /\ call[c].at = "looked" =>
          /\ IsPrefix(call[c].draft, file)
          /\ \A i \in DOMAIN backups : IsPrefix(backups[i], call[c].draft)

StoreInv == StoreTyped /\ CallsInv /\ BackupsInv

LEMMA StoreStarts == ASSUME StoreInit PROVE StoreInv
<1>1. /\ <<>> \in Seq(Clients) /\ <<>> \in Seq(Seq(Clients)) /\ DOMAIN <<>> = {}
  BY EmptySeq, LenProperties
<1>2. NoCallYet \in StoreCalls /\ NoCallYet.kind = "none"
  BY <1>1 DEF NoCallYet, StoreCalls, CallKinds, CallPlaces
<1>3. StoreTyped
  BY <1>1, <1>2 DEF StoreInit, StoreTyped
<1>4. CallsInv
  BY DEF StoreInit, CallsInv, CallOK
<1>5. BackupsInv
  BY <1>1, <1>2 DEF StoreInit, BackupsInv, BackupsGrow
<1> QED BY <1>3, <1>4, <1>5 DEF StoreInv

LEMMA EmptyCall ==
    ASSUME NEW w \in StoreCalls, w.kind = "none", w.at = "idle", w.ahead = {}, w.draft = <<>>
    PROVE  w = NoCallYet
BY DEF StoreCalls, NoCallYet

(* A step of c leaves the others as they were. *)
LEMMA OtherCallOK ==
    ASSUME NEW d \in Clients, CallOK(d), call'[d] = NoCallYet \/ call[d] # NoCallYet,
           call'[d].kind = call[d].kind, call'[d].at = call[d].at, call'[d].draft = call[d].draft,
           call[d] = NoCallYet => call'[d] = NoCallYet,
           call[d].kind = "transact" /\ HasTurn("write", d) => HasTurn("write", d)',
           call[d].kind = "backup" /\ HasTurn("backup", d) => HasTurn("backup", d)',
           call[d].kind = "transact" /\ call[d].at \in {"operating", "writing"} => file' = file
    PROVE  CallOK(d)'
BY DEF CallOK

LEMMA JoinsKeepsTurns ==
    ASSUME StoreTyped, NEW q \in {"write", "backup"}, NEW c \in Clients, Joins(q, c)
    PROVE  /\ queue' \in [{"write", "backup"} -> Seq(Clients)]
           /\ \A r \in {"write", "backup"}, d \in Clients : HasTurn(r, d) => HasTurn(r, d)'
<1>1. queue[q] \in Seq(Clients) /\ Append(queue[q], c) \in Seq(Clients)
  BY AppendProperties DEF StoreTyped
<1>2. queue' = [queue EXCEPT ![q] = Append(queue[q], c)]
  BY DEF Joins
<1>3. ASSUME NEW r \in {"write", "backup"}, NEW d \in Clients, HasTurn(r, d) PROVE HasTurn(r, d)'
  BY <1>1, <1>2, <1>3, HeadStays DEF HasTurn, StoreTyped
<1> QED BY <1>1, <1>2, <1>3 DEF StoreTyped

LEMMA MoveKeepsCalls ==
    ASSUME StoreInv, NEW c \in Clients, NEW x \in StoreCalls, call' = [call EXCEPT ![c] = x],
           file' = file \/ (HasTurn("write", c) /\ file' \in Seq(Clients)),
           \/ UNCHANGED queue
           \/ \E q \in {"write", "backup"} : Joins(q, c),
           CallOK(c)'
    PROVE  /\ file' \in Seq(Clients)
           /\ queue' \in [{"write", "backup"} -> Seq(Clients)]
           /\ call' \in [Clients -> StoreCalls]
           /\ CallsInv'
<1>1. /\ queue' \in [{"write", "backup"} -> Seq(Clients)]
      /\ \A r \in {"write", "backup"}, d \in Clients : HasTurn(r, d) => HasTurn(r, d)'
  BY JoinsKeepsTurns DEF StoreInv, StoreTyped, HasTurn
<1>2. ASSUME NEW d \in Clients, d # c PROVE CallOK(d)'
  <2>1. call'[d] = call[d] /\ CallOK(d)
    BY <1>2 DEF StoreInv, StoreTyped, CallsInv
  <2>2. ASSUME call[d].kind = "transact", call[d].at \in {"operating", "writing"} PROVE file' = file
    <3>1. HasTurn("write", d)
      BY <2>1, <2>2 DEF CallOK, NoCallYet
    <3> QED BY <3>1, <1>2 DEF HasTurn
  <2> QED BY <1>1, <2>1, <2>2, OtherCallOK
<1> QED BY <1>1, <1>2 DEF StoreInv, StoreTyped, CallsInv

LEMMA SettleKeepsCalls ==
    ASSUME StoreInv, NEW q \in {"write", "backup"}, NEW c \in Clients, HasTurn(q, c), Settles(q, c), UNCHANGED file
    PROVE  /\ queue' \in [{"write", "backup"} -> Seq(Clients)]
           /\ call' \in [Clients -> StoreCalls]
           /\ CallsInv'
           /\ call'[c] = NoCallYet
           /\ \A d \in Clients \ {c} : /\ call'[d].kind = call[d].kind /\ call'[d].at = call[d].at
                                       /\ call'[d].draft = call[d].draft
<1> DEFINE cut(d) == [call[d] EXCEPT !.ahead = @ \ {c}]
<1>1. \A d \in Clients : /\ cut(d) \in StoreCalls /\ cut(d).kind = call[d].kind /\ cut(d).at = call[d].at
                         /\ cut(d).draft = call[d].draft
                         /\ (call[d] = NoCallYet => cut(d) = NoCallYet)
  <2> TAKE d \in Clients
  <2>1. call[d] \in StoreCalls
    BY DEF StoreInv, StoreTyped
  <2>2. cut(d) \in StoreCalls /\ cut(d).kind = call[d].kind /\ cut(d).at = call[d].at /\ cut(d).draft = call[d].draft
    BY <2>1 DEF StoreCalls
  <2>3. call[d] = NoCallYet => cut(d) = NoCallYet
    <3>1. cut(d).ahead = call[d].ahead \ {c}
      BY <2>1 DEF StoreCalls
    <3> HIDE DEF cut
    <3> QED BY <2>2, <3>1, EmptyCall DEF NoCallYet
  <2> QED BY <2>2, <2>3
<1>2. NoCallYet \in StoreCalls /\ call[c] \in StoreCalls
  BY EmptySeq DEF NoCallYet, StoreCalls, CallKinds, CallPlaces, StoreInv, StoreTyped
<1>3. \A d \in Clients : IF d = c THEN call'[d] = NoCallYet ELSE call'[d] = cut(d) \/ call'[d] = call[d]
  BY DEF Settles
<1>4. call' \in [Clients -> StoreCalls]
  <2>1. call' = [d \in Clients |-> IF d = c THEN NoCallYet ELSE IF q = "write" THEN cut(d) ELSE call[d]]
    BY DEF Settles
  <2> HIDE DEF cut
  <2> QED BY <1>1, <1>2, <2>1 DEF StoreInv, StoreTyped
<1> HIDE DEF cut
<1>5. queue' = [queue EXCEPT ![q] = Tail(queue[q])] /\ queue[q] # <<>> /\ Head(queue[q]) = c
  BY DEF Settles, HasTurn
<1>6. queue' \in [{"write", "backup"} -> Seq(Clients)]
  BY <1>5, HeadTailProperties DEF StoreInv, StoreTyped
<1>7. \A d \in Clients \ {c} : /\ call'[d].kind = call[d].kind /\ call'[d].at = call[d].at
                               /\ call'[d].draft = call[d].draft
                               /\ call[d] = NoCallYet => call'[d] = NoCallYet
  BY <1>1, <1>3
<1>8. ASSUME NEW d \in Clients \ {c} PROVE CallOK(d)'
  <2>1. \A r \in {"write", "backup"} : HasTurn(r, d) => HasTurn(r, d)'
    BY <1>5 DEF HasTurn, StoreInv, StoreTyped
  <2>2. CallOK(d)
    BY DEF StoreInv, CallsInv
  <2>3. call'[d] = NoCallYet \/ call[d] # NoCallYet
    BY <1>7
  <2> QED BY <1>7, <2>1, <2>2, <2>3, OtherCallOK
<1>9. CallOK(c)'
  BY <1>3 DEF CallOK
<1> QED BY <1>3, <1>4, <1>6, <1>7, <1>8, <1>9 DEF CallsInv

(* A step that writes no backup. *)
LEMMA BackupsKept ==
    ASSUME StoreInv, UNCHANGED backups,
           file' = file \/ \E c \in Clients : file' = Append(file, c),
           \A d \in Clients : call'[d].kind = "backup" /\ call'[d].at = "looked" =>
              \/ call[d].kind = "backup" /\ call[d].at = "looked" /\ call'[d].draft = call[d].draft
              \/ call'[d].draft = file /\ file' = file
    PROVE  BackupsInv'
<1>1. /\ file \in Seq(Clients) /\ \A i \in DOMAIN backups : backups[i] \in Seq(Clients)
      /\ \A d \in Clients : call[d].draft \in Seq(Clients)
  BY ElementOfSeq, LenProperties DEF StoreInv, StoreTyped, StoreCalls
<1>2. ASSUME NEW s \in Seq(Clients), IsPrefix(s, file) PROVE IsPrefix(s, file')
  BY <1>1, <1>2, PrefixOfLonger
<1>3. IsPrefix(file, file)
  BY <1>1, PrefixOfItself
<1> QED BY <1>1, <1>2, <1>3 DEF StoreInv, BackupsInv, BackupsGrow

(* A step that writes the draft of c, which had looked. *)
LEMMA BackupAdded ==
    ASSUME StoreInv, NEW c \in Clients, call[c].kind = "backup", call[c].at = "looked", UNCHANGED file,
           backups' = Append(backups, call[c].draft),
           \A d \in Clients : call'[d].kind = "backup" /\ call'[d].at = "looked" =>
              d # c /\ call'[d] = call[d]
    PROVE  backups' \in Seq(Seq(Clients)) /\ BackupsInv'
<1>1. /\ call[c].draft \in Seq(Clients) /\ backups \in Seq(Seq(Clients)) /\ Len(backups) \in Nat
      /\ IsPrefix(call[c].draft, call[c].draft)
  BY PrefixOfItself, LenProperties DEF StoreInv, StoreTyped, StoreCalls
<1>2. /\ backups' \in Seq(Seq(Clients)) /\ DOMAIN backups' = 1 .. Len(backups) + 1
      /\ \A i \in 1 .. Len(backups) : backups'[i] = backups[i]
      /\ backups'[Len(backups) + 1] = call[c].draft
      /\ DOMAIN backups = 1 .. Len(backups)
  BY <1>1, AppendProperties, LenProperties
<1>3. BackupsGrow'
  BY <1>1, <1>2 DEF StoreInv, BackupsInv, BackupsGrow
<1>4. \A d \in Clients : ~(call'[d].kind = "backup" /\ call'[d].at = "looked")
  <2>1. ASSUME NEW d \in Clients, d # c, call[d].kind = "backup", call[d].at = "looked" PROVE FALSE
    <3>1. HasTurn("backup", c) /\ HasTurn("backup", d)
      BY <2>1 DEF StoreInv, CallsInv, CallOK, NoCallYet
    <3> QED BY <2>1, <3>1 DEF HasTurn
  <2> QED BY <2>1
<1>5. \A i \in DOMAIN backups' : IsPrefix(backups'[i], file')
  BY <1>1, <1>2 DEF StoreInv, BackupsInv
<1> QED BY <1>2, <1>3, <1>4, <1>5 DEF BackupsInv

(* Cutting the oldest backups off leaves the order of the others. *)
LEMMA BackupsPruned ==
    ASSUME StoreInv, NEW n \in Nat, backups' = Newest(n), UNCHANGED file,
           \A d \in Clients : call'[d].kind = "backup" /\ call'[d].at = "looked" =>
              call[d].kind = "backup" /\ call[d].at = "looked" /\ call'[d].draft = call[d].draft
    PROVE  backups' \in Seq(Seq(Clients)) /\ BackupsInv'
<1> DEFINE a == IF Len(backups) > n THEN Len(backups) - n + 1 ELSE 1
<1>1. /\ backups \in Seq(Seq(Clients)) /\ Len(backups) \in Nat /\ DOMAIN backups = 1 .. Len(backups)
      /\ \A i \in DOMAIN backups : backups[i] \in Seq(Clients)
  BY LenProperties, ElementOfSeq DEF StoreInv, StoreTyped
<1>2. a \in Nat /\ a >= 1
  BY <1>1
<1>3. backups' = SubSeq(backups, a, Len(backups))
  BY DEF Newest
<1> HIDE DEF a
<1>4. /\ backups' \in Seq(Seq(Clients))
      /\ Len(backups') = IF a <= Len(backups) THEN Len(backups) - a + 1 ELSE 0
      /\ \A i \in 1 .. Len(backups) - a + 1 : backups'[i] = backups[a + i - 1]
  BY <1>1, <1>2, <1>3, SubSeqProperties
<1>5. DOMAIN backups' = 1 .. Len(backups')
  BY <1>4, LenProperties
<1>6. \A i \in DOMAIN backups' : a + i - 1 \in DOMAIN backups /\ backups'[i] = backups[a + i - 1]
  <2> TAKE i \in DOMAIN backups'
  <2>1. i \in Nat /\ i >= 1 /\ i <= Len(backups')
    BY <1>4, <1>5
  <2>2. a <= Len(backups) /\ i <= Len(backups) - a + 1
    BY <1>1, <1>2, <1>4, <2>1
  <2>3. a + i - 1 \in 1 .. Len(backups) /\ i \in 1 .. Len(backups) - a + 1
    BY <1>1, <1>2, <2>1, <2>2
  <2> QED BY <1>1, <1>4, <2>3
<1>7. BackupsGrow'
  <2> SUFFICES ASSUME NEW i \in DOMAIN backups', NEW j \in DOMAIN backups', i <= j
               PROVE  IsPrefix(backups'[i], backups'[j])
    BY DEF BackupsGrow
  <2>1. i \in Nat /\ j \in Nat /\ a + i - 1 <= a + j - 1
    BY <1>2, <1>4, <1>5
  <2> QED BY <1>6, <2>1 DEF StoreInv, BackupsInv, BackupsGrow
<1> QED BY <1>4, <1>6, <1>7 DEF StoreInv, BackupsInv

(* The first steps of calls *)
LEMMA CallsBegin ==
    ASSUME StoreInv, NEW c \in Clients, Transact(c) \/ Read(c) \/ WriteTaskCompletionBackup(c)
    PROVE  StoreInv'
<1> USE DEF CallKinds, CallPlaces
<1>1. Ahead \in SUBSET Clients
  BY LenProperties, ElementOfSeq DEF Ahead, ToSet, StoreInv, StoreTyped
<1>2. PICK x \in StoreCalls : /\ call' = [call EXCEPT ![c] = x] /\ x.draft = <<>>
                             /\ \/ x.kind \in {"transact", "backup"} /\ x.at = "queued"
                                \/ x.kind = "read" /\ x.at = "waiting"
  <2>1. CASE Transact(c)
    <3> DEFINE x == [NoCallYet EXCEPT !.kind = "transact", !.at = "queued"]
    <3>0. x = [NoCallYet EXCEPT !.kind = "transact", !.at = "queued"]
      OBVIOUS
    <3>2. call' = [call EXCEPT ![c] = x]
      BY <2>1 DEF Transact
    <3> HIDE DEF x
    <3>1. x \in StoreCalls /\ x.kind = "transact" /\ x.at = "queued" /\ x.draft = <<>>
      BY <1>1, <3>0, EmptySeq DEF NoCallYet, StoreCalls
    <3> QED BY <3>1, <3>2
  <2>2. CASE WriteTaskCompletionBackup(c)
    <3> DEFINE x == [NoCallYet EXCEPT !.kind = "backup", !.at = "queued"]
    <3>0. x = [NoCallYet EXCEPT !.kind = "backup", !.at = "queued"]
      OBVIOUS
    <3>2. call' = [call EXCEPT ![c] = x]
      BY <2>2 DEF WriteTaskCompletionBackup
    <3> HIDE DEF x
    <3>1. x \in StoreCalls /\ x.kind = "backup" /\ x.at = "queued" /\ x.draft = <<>>
      BY <1>1, <3>0, EmptySeq DEF NoCallYet, StoreCalls
    <3> QED BY <3>1, <3>2
  <2>3. CASE Read(c)
    <3> DEFINE x == [NoCallYet EXCEPT !.kind = "read", !.at = "waiting", !.ahead = Ahead]
    <3>0. x = [NoCallYet EXCEPT !.kind = "read", !.at = "waiting", !.ahead = Ahead]
      OBVIOUS
    <3>2. call' = [call EXCEPT ![c] = x]
      BY <2>3 DEF Read
    <3> HIDE DEF x
    <3>1. x \in StoreCalls /\ x.kind = "read" /\ x.at = "waiting" /\ x.draft = <<>>
      BY <1>1, <3>0, EmptySeq DEF NoCallYet, StoreCalls
    <3> QED BY <3>1, <3>2
  <2> QED BY <2>1, <2>2, <2>3
<1>3. /\ file' = file /\ UNCHANGED backups
      /\ \/ UNCHANGED queue
         \/ \E q \in {"write", "backup"} : Joins(q, c)
  BY DEF Transact, Read, WriteTaskCompletionBackup
<1>4. call'[c] = x /\ \A d \in Clients \ {c} : call'[d] = call[d]
  BY <1>2 DEF StoreInv, StoreTyped
<1>5. CallOK(c)'
  BY <1>2, <1>4 DEF CallOK
<1>6. StoreTyped' /\ CallsInv'
  BY <1>2, <1>3, <1>5, MoveKeepsCalls DEF StoreInv, StoreTyped
<1>7. BackupsInv'
  BY <1>2, <1>3, <1>4, BackupsKept
<1> QED BY <1>6, <1>7 DEF StoreInv

(* The steps of calls that hold their place in the queue *)
LEMMA CallsGoOn ==
    ASSUME StoreInv, NEW c \in Clients, ReadRaw(c) \/ Operated(c) \/ Renamed(c) \/ BackupBegins(c) \/ Looks(c)
    PROVE  StoreInv'
<1> USE DEF CallKinds, CallPlaces
<1>1. /\ Ahead \in SUBSET Clients /\ call[c] \in StoreCalls /\ file \in Seq(Clients) /\ CallOK(c)
      /\ call[c].draft \in Seq(Clients)
  BY LenProperties, ElementOfSeq DEF Ahead, ToSet, StoreInv, StoreTyped, CallsInv, StoreCalls
<1>2. CASE Operated(c) \/ Renamed(c)
  <2>1. PICK p \in {"writing", "renamed"} : Goes(c, p) /\ (Renamed(c) => p = "renamed") /\ (Operated(c) => p = "writing")
    BY <1>2 DEF Operated, Renamed
  <2> DEFINE x == [call[c] EXCEPT !.at = p]
  <2>0. x = [call[c] EXCEPT !.at = p]
    OBVIOUS
  <2>3. call' = [call EXCEPT ![c] = x]
    BY <2>1 DEF Goes
  <2> HIDE DEF x
  <2>2. /\ x \in StoreCalls /\ x.kind = call[c].kind /\ x.at = p /\ x.draft = call[c].draft
    BY <1>1, <2>0 DEF StoreCalls
  <2>4. call'[c] = x /\ \A d \in Clients \ {c} : call'[d] = call[d]
    BY <2>2, <2>3 DEF StoreInv, StoreTyped
  <2>5. /\ call[c].kind = "transact" /\ HasTurn("write", c) /\ UNCHANGED <<queue, backups>>
        /\ \/ Operated(c) /\ file' = file /\ call[c].draft = file
           \/ Renamed(c) /\ file' = Append(file, c)
    BY <1>1, <1>2 DEF Operated, Renamed, CallOK, NoCallYet
  <2>6. CallOK(c)'
    BY <2>1, <2>2, <2>4, <2>5 DEF CallOK, HasTurn
  <2>7. file' \in Seq(Clients)
    BY <1>1, <2>5, AppendProperties
  <2>8. StoreTyped' /\ CallsInv'
    BY <2>2, <2>3, <2>5, <2>6, <2>7, MoveKeepsCalls DEF StoreInv, StoreTyped
  <2>9. BackupsInv'
    BY <2>2, <2>4, <2>5, BackupsKept
  <2> QED BY <2>8, <2>9 DEF StoreInv
<1>3. CASE ReadRaw(c) \/ Looks(c)
  <2>1. PICK p \in {"operating", "looked"} : /\ call' = [call EXCEPT ![c].at = p, ![c].draft = file]
                                            /\ (ReadRaw(c) => p = "operating") /\ (Looks(c) => p = "looked")
    BY <1>3 DEF ReadRaw, Looks
  <2> DEFINE x == [call[c] EXCEPT !.at = p, !.draft = file]
  <2>0. x = [call[c] EXCEPT !.at = p, !.draft = file]
    OBVIOUS
  <2>3. call' = [call EXCEPT ![c] = x]
    BY <2>1
  <2> HIDE DEF x
  <2>2. /\ x \in StoreCalls /\ x.kind = call[c].kind /\ x.at = p /\ x.draft = file
    BY <1>1, <2>0 DEF StoreCalls
  <2>4. call'[c] = x /\ \A d \in Clients \ {c} : call'[d] = call[d]
    BY <2>2, <2>3 DEF StoreInv, StoreTyped
  <2>5. /\ UNCHANGED <<file, queue, backups>>
        /\ \/ call[c].kind = "transact" /\ HasTurn("write", c) /\ p = "operating"
           \/ call[c].kind = "read" /\ p = "looked"
           \/ call[c].kind = "backup" /\ HasTurn("backup", c) /\ p = "looked"
    BY <1>1, <1>3, <2>1 DEF ReadRaw, Looks, CallOK, NoCallYet
  <2>6. CallOK(c)'
    BY <2>2, <2>4, <2>5 DEF CallOK, HasTurn
  <2>7. StoreTyped' /\ CallsInv'
    BY <2>2, <2>3, <2>5, <2>6, MoveKeepsCalls DEF StoreInv, StoreTyped
  <2>8. BackupsInv'
    BY <2>2, <2>4, <2>5, BackupsKept
  <2> QED BY <2>7, <2>8 DEF StoreInv
<1>4. CASE BackupBegins(c)
  <2> DEFINE x == [call[c] EXCEPT !.at = "waiting", !.ahead = Ahead]
  <2>0. x = [call[c] EXCEPT !.at = "waiting", !.ahead = Ahead]
    OBVIOUS
  <2>2. call' = [call EXCEPT ![c] = x]
    BY <1>4 DEF BackupBegins
  <2> HIDE DEF x
  <2>1. /\ x \in StoreCalls /\ x.kind = call[c].kind /\ x.at = "waiting" /\ x.draft = call[c].draft
    BY <1>1, <2>0 DEF StoreCalls
  <2>3. call'[c] = x /\ \A d \in Clients \ {c} : call'[d] = call[d]
    BY <2>1, <2>2 DEF StoreInv, StoreTyped
  <2>4. /\ UNCHANGED <<file, queue, backups>> /\ call[c].kind = "backup" /\ HasTurn("backup", c)
        /\ call[c].draft = <<>>
    BY <1>1, <1>4 DEF BackupBegins, CallOK, NoCallYet
  <2>5. CallOK(c)'
    BY <2>1, <2>3, <2>4 DEF CallOK, HasTurn
  <2>6. StoreTyped' /\ CallsInv'
    BY <2>1, <2>2, <2>4, <2>5, MoveKeepsCalls DEF StoreInv, StoreTyped
  <2>7. BackupsInv'
    BY <2>1, <2>3, <2>4, BackupsKept
  <2> QED BY <2>6, <2>7 DEF StoreInv
<1> QED BY <1>2, <1>3, <1>4

(* A backup is written, and a call ends. *)
LEMMA CallsEnd ==
    ASSUME StoreInv, NEW c \in Clients,
           TransactEnds(c) \/ TransactFails(c) \/ ReadEnds(c) \/ BackupWritten(c) \/ PruneOldBackups(c) \/ BackupFails(c)
    PROVE  StoreInv'
<1> USE DEF CallKinds, CallPlaces
<1>1. call[c] \in StoreCalls /\ CallOK(c) /\ NoCallYet \in StoreCalls /\ NoCallYet.kind = "none"
      /\ call[c].draft \in Seq(Clients)
  BY EmptySeq DEF StoreInv, StoreTyped, CallsInv, NoCallYet, StoreCalls
<1>2. CASE TransactEnds(c) \/ TransactFails(c) \/ PruneOldBackups(c) \/ BackupFails(c)
  <2>1. PICK q \in {"write", "backup"} : Settles(q, c) /\ HasTurn(q, c) /\ UNCHANGED file
    BY <1>1, <1>2 DEF TransactEnds, TransactFails, PruneOldBackups, BackupFails, CallOK, NoCallYet
  <2>2. /\ queue' \in [{"write", "backup"} -> Seq(Clients)] /\ call' \in [Clients -> StoreCalls] /\ CallsInv'
        /\ \A d \in Clients : call'[d].kind = "backup" /\ call'[d].at = "looked" =>
              call[d].kind = "backup" /\ call[d].at = "looked" /\ call'[d].draft = call[d].draft
    BY <1>1, <2>1, SettleKeepsCalls
  <2>3. backups' \in Seq(Seq(Clients)) /\ BackupsInv'
    <3>1. CASE UNCHANGED backups
      BY <2>1, <2>2, <3>1, BackupsKept DEF StoreInv, StoreTyped
    <3>2. CASE backups' = Newest(MaxBackups)
      <4>1. MaxBackups \in Nat
        BY StoreBounds
      <4> QED BY <2>1, <2>2, <3>2, <4>1, BackupsPruned
    <3> QED BY <1>2, <3>1, <3>2 DEF TransactEnds, TransactFails, PruneOldBackups, BackupFails
  <2> QED BY <2>1, <2>2, <2>3 DEF StoreInv, StoreTyped
<1>3. CASE ReadEnds(c)
  <2>1. call' = [call EXCEPT ![c] = NoCallYet] /\ UNCHANGED <<file, backups, queue>>
    BY <1>3 DEF ReadEnds
  <2>2. call'[c] = NoCallYet /\ \A d \in Clients \ {c} : call'[d] = call[d]
    BY <2>1 DEF StoreInv, StoreTyped
  <2>3. CallOK(c)'
    BY <2>2 DEF CallOK
  <2>4. StoreTyped' /\ CallsInv'
    BY <1>1, <2>1, <2>3, MoveKeepsCalls DEF StoreInv, StoreTyped
  <2>5. BackupsInv'
    BY <1>1, <2>1, <2>2, BackupsKept
  <2> QED BY <2>4, <2>5 DEF StoreInv
<1>4. CASE BackupWritten(c)
  <2> DEFINE x == [call[c] EXCEPT !.at = "pruning"]
  <2>0. x = [call[c] EXCEPT !.at = "pruning"]
    OBVIOUS
  <2>2. call' = [call EXCEPT ![c] = x]
    BY <1>4 DEF BackupWritten, Goes
  <2> HIDE DEF x
  <2>1. /\ x \in StoreCalls /\ x.kind = call[c].kind /\ x.at = "pruning" /\ x.draft = call[c].draft
    BY <1>1, <2>0 DEF StoreCalls
  <2>3. call'[c] = x /\ \A d \in Clients \ {c} : call'[d] = call[d]
    BY <2>1, <2>2 DEF StoreInv, StoreTyped
  <2>4. /\ UNCHANGED <<file, queue>> /\ call[c].kind = "backup" /\ call[c].at = "looked" /\ HasTurn("backup", c)
        /\ backups' = Append(backups, call[c].draft)
    BY <1>1, <1>4 DEF BackupWritten, CallOK, NoCallYet
  <2>5. CallOK(c)'
    BY <2>1, <2>3, <2>4 DEF CallOK, HasTurn
  <2>6. /\ file' \in Seq(Clients) /\ queue' \in [{"write", "backup"} -> Seq(Clients)]
        /\ call' \in [Clients -> StoreCalls] /\ CallsInv'
    BY <2>1, <2>2, <2>4, <2>5, MoveKeepsCalls
  <2>7. backups' \in Seq(Seq(Clients)) /\ BackupsInv'
    BY <2>1, <2>3, <2>4, BackupAdded
  <2> QED BY <2>6, <2>7 DEF StoreInv, StoreTyped
<1> QED BY <1>2, <1>3, <1>4

LEMMA StoreStep == ASSUME StoreInv, [StoreNext]_store PROVE StoreInv'
<1>1. CASE Crashes
  <2>1. /\ NoCallYet \in StoreCalls /\ NoCallYet.kind = "none" /\ <<>> \in Seq(Clients)
    BY EmptySeq DEF NoCallYet, StoreCalls, CallKinds, CallPlaces
  <2>2. /\ call' = [c \in Clients |-> NoCallYet] /\ UNCHANGED <<file, backups>>
        /\ queue' = [q \in {"write", "backup"} |-> <<>>]
    BY <1>1 DEF Crashes
  <2>3. StoreTyped'
    BY <2>1, <2>2 DEF StoreInv, StoreTyped
  <2>4. CallsInv'
    BY <2>2 DEF CallsInv, CallOK
  <2>5. BackupsInv'
    BY <2>1, <2>2, BackupsKept
  <2> QED BY <2>3, <2>4, <2>5 DEF StoreInv
<1>2. CASE UNCHANGED store
  BY <1>2 DEF store, StoreInv, StoreTyped, CallsInv, CallOK, HasTurn, BackupsInv, BackupsGrow
<1> QED BY <1>1, <1>2, CallsBegin, CallsGoOn, CallsEnd DEF StoreNext

-----------------------------------------------------------------------------
(* The board is atomic *)

(* What AtomicBoard sees of a call. *)
StateOf(r) ==
    [at |-> CASE r.kind = "none" -> "idle"
              [] r.kind = "transact" -> IF r.at = "renamed" THEN "wrote" ELSE "write"
              [] OTHER -> IF r.at \in {"looked", "pruning"} THEN "saw" ELSE "read",
     seen |-> IF r.kind = "transact" THEN <<>> ELSE r.draft]

LEMMA StatesOfCalls ==
    ASSUME NEW r
    PROVE  /\ r = NoCallYet => StateOf(r) = Atomic!NoCall
           /\ r.kind = "transact" /\ r.at = "renamed" => StateOf(r) = [at |-> "wrote", seen |-> <<>>]
           /\ r.kind = "transact" /\ r.at # "renamed" => StateOf(r) = [at |-> "write", seen |-> <<>>]
           /\ r.kind \in {"read", "backup"} /\ r.at \in {"looked", "pruning"} =>
                 StateOf(r) = [at |-> "saw", seen |-> r.draft]
           /\ r.kind \in {"read", "backup"} /\ r.at \notin {"looked", "pruning"} =>
                 StateOf(r) = [at |-> "read", seen |-> r.draft]
           /\ \A x : x.kind = r.kind /\ x.at = r.at /\ x.draft = r.draft => StateOf(x) = StateOf(r)
BY DEF StateOf, NoCallYet, Atomic!NoCall

(* A step of one call is a step of that call in AtomicBoard, or none.      *)
LEMMA OneCallMoves ==
    ASSUME NEW c \in Clients, \A d \in Clients \ {c} : StateOf(call'[d]) = StateOf(call[d]),
           \/ /\ StateOf(call'[c]) = StateOf(call[c]) /\ file' = file
           \/ /\ StateOf(call[c]).at = "write" /\ StateOf(call'[c]) = [at |-> "wrote", seen |-> <<>>]
              /\ file' = Append(file, c)
           \/ /\ StateOf(call[c]).at = "idle" /\ file' = file
              /\ StateOf(call'[c]) \in {[at |-> "write", seen |-> <<>>], [at |-> "read", seen |-> <<>>]}
           \/ /\ StateOf(call[c]).at = "read" /\ StateOf(call'[c]) = [at |-> "saw", seen |-> file]
              /\ file' = file
           \/ /\ StateOf(call[c]).at \in {"write", "wrote", "read", "saw"}
              /\ StateOf(call'[c]) = Atomic!NoCall /\ file' = file
    PROVE  [Atomic!AtomicNext]_(Atomic!abstract)
<1> DEFINE now == [d \in Clients |-> StateOf(call[d])]
           next == [d \in Clients |-> StateOf(call'[d])]
<1>1. /\ now = [d \in Clients |-> CallState(d)]
      /\ next = [d \in Clients |-> CallState(d)]'
  BY DEF CallState, StateOf
<1>2. next = [now EXCEPT ![c] = StateOf(call'[c])]
  OBVIOUS
<1>3. now[c] = StateOf(call[c]) /\ next[c] = StateOf(call'[c])
  OBVIOUS
<1>4. Atomic!NoCall.at = "idle" /\ Atomic!NoCall = [at |-> "idle", seen |-> <<>>]
  BY DEF Atomic!NoCall
<1> HIDE DEF now, next
<1> SUFFICES ASSUME file' # file \/ next # now PROVE Atomic!AtomicNext
  BY <1>1 DEF Atomic!abstract
<1>5. next # now
  BY <1>3
<1>6. CASE now[c].at = "write" /\ next[c] = [at |-> "wrote", seen |-> <<>>] /\ file' = Append(file, c)
  BY <1>1, <1>2, <1>3, <1>5, <1>6 DEF Atomic!AtomicNext, Atomic!Changed, Atomic!Moves
<1>7. CASE now[c].at = "idle" /\ next[c] = [at |-> "write", seen |-> <<>>] /\ file' = file
  BY <1>1, <1>2, <1>3, <1>5, <1>7 DEF Atomic!AtomicNext, Atomic!Called, Atomic!Moves
<1>8. CASE now[c].at = "idle" /\ next[c] = [at |-> "read", seen |-> <<>>] /\ file' = file
  BY <1>1, <1>2, <1>3, <1>5, <1>8 DEF Atomic!AtomicNext, Atomic!Called, Atomic!Moves
<1>9. CASE now[c].at = "read" /\ next[c] = [at |-> "saw", seen |-> file] /\ file' = file
  BY <1>1, <1>2, <1>3, <1>5, <1>9 DEF Atomic!AtomicNext, Atomic!Seen, Atomic!Moves
<1>10. CASE now[c].at \in {"write", "wrote", "read", "saw"} /\ next[c] = Atomic!NoCall /\ file' = file
  BY <1>1, <1>2, <1>3, <1>4, <1>5, <1>10 DEF Atomic!AtomicNext, Atomic!Returned, Atomic!Moves
<1>11. CASE next[c] = now[c] /\ file' = file
  BY <1>2, <1>3, <1>5, <1>11 DEF now
<1> QED BY <1>3, <1>6, <1>7, <1>8, <1>9, <1>10, <1>11

(* How each step changes the call that takes it. *)
LEMMA FieldsChange ==
    ASSUME StoreInv, NEW c \in Clients, NEW x, call' = [call EXCEPT ![c] = x]
    PROVE  call'[c] = x /\ \A d \in Clients \ {c} : call'[d] = call[d]
BY DEF StoreInv, StoreTyped

LEMMA StoreStepIsAtomic ==
    ASSUME StoreInv, [StoreNext]_store PROVE [Atomic!AtomicNext]_(Atomic!abstract)
<1>1. ASSUME NEW c \in Clients, Transact(c) PROVE [Atomic!AtomicNext]_(Atomic!abstract)
  <2> DEFINE x == [NoCallYet EXCEPT !.kind = "transact", !.at = "queued"]
  <2>0. x = [NoCallYet EXCEPT !.kind = "transact", !.at = "queued"]
    OBVIOUS
  <2>1. call' = [call EXCEPT ![c] = x] /\ call[c] = NoCallYet /\ file' = file
    BY <1>1 DEF Transact
  <2> HIDE DEF x
  <2>2. x.kind = "transact" /\ x.at = "queued"
    BY <2>0 DEF NoCallYet
  <2>3. StateOf(x) = [at |-> "write", seen |-> <<>>] /\ StateOf(call[c]).at = "idle"
    BY <2>1, <2>2, StatesOfCalls DEF Atomic!NoCall
  <2> QED BY <2>1, <2>3, FieldsChange, OneCallMoves
<1>2. ASSUME NEW c \in Clients, Read(c) \/ WriteTaskCompletionBackup(c) PROVE [Atomic!AtomicNext]_(Atomic!abstract)
  <2>1. PICK x : /\ call' = [call EXCEPT ![c] = x] /\ x.kind \in {"read", "backup"} /\ x.draft = <<>>
                 /\ x.at \in {"waiting", "queued"}
    <3>1. CASE Read(c)
      <4> DEFINE x == [NoCallYet EXCEPT !.kind = "read", !.at = "waiting", !.ahead = Ahead]
      <4>0. x = [NoCallYet EXCEPT !.kind = "read", !.at = "waiting", !.ahead = Ahead]
        OBVIOUS
      <4>1. call' = [call EXCEPT ![c] = x]
        BY <3>1 DEF Read
      <4> HIDE DEF x
      <4>2. x.kind = "read" /\ x.at = "waiting" /\ x.draft = <<>>
        BY <4>0 DEF NoCallYet
      <4> QED BY <4>1, <4>2
    <3>2. CASE WriteTaskCompletionBackup(c)
      <4> DEFINE x == [NoCallYet EXCEPT !.kind = "backup", !.at = "queued"]
      <4>0. x = [NoCallYet EXCEPT !.kind = "backup", !.at = "queued"]
        OBVIOUS
      <4>1. call' = [call EXCEPT ![c] = x]
        BY <3>2 DEF WriteTaskCompletionBackup
      <4> HIDE DEF x
      <4>2. x.kind = "backup" /\ x.at = "queued" /\ x.draft = <<>>
        BY <4>0 DEF NoCallYet
      <4> QED BY <4>1, <4>2
    <3> QED BY <1>2, <3>1, <3>2
  <2>2. StateOf(x) = [at |-> "read", seen |-> <<>>]
    BY <2>1, StatesOfCalls
  <2>3. StateOf(call[c]).at = "idle" /\ file' = file
    BY <1>2, StatesOfCalls DEF Read, WriteTaskCompletionBackup, Atomic!NoCall
  <2> QED BY <2>1, <2>2, <2>3, FieldsChange, OneCallMoves
<1>3. ASSUME NEW c \in Clients, ReadRaw(c) \/ Operated(c) \/ Renamed(c) PROVE [Atomic!AtomicNext]_(Atomic!abstract)
  <2>1. PICK x : /\ call' = [call EXCEPT ![c] = x] /\ x.kind = call[c].kind
                 /\ x.at = "renamed" <=> Renamed(c)
    <3>1. CASE ReadRaw(c)
      <4> DEFINE x == [call[c] EXCEPT !.at = "operating", !.draft = file]
      <4>0. x = [call[c] EXCEPT !.at = "operating", !.draft = file]
        OBVIOUS
      <4>1. call' = [call EXCEPT ![c] = x]
        BY <3>1 DEF ReadRaw
      <4> HIDE DEF x
      <4>2. x.kind = call[c].kind /\ x.at = "operating" /\ ~Renamed(c)
        BY <3>1, <4>0 DEF StoreInv, StoreTyped, StoreCalls, ReadRaw, Renamed
      <4> QED BY <4>1, <4>2
    <3>2. CASE Operated(c) \/ Renamed(c)
      <4>1. PICK p \in {"writing", "renamed"} : Goes(c, p) /\ (p = "renamed" <=> Renamed(c))
        BY <3>2 DEF Operated, Renamed
      <4> DEFINE x == [call[c] EXCEPT !.at = p]
      <4>2. call' = [call EXCEPT ![c] = x]
        BY <4>1 DEF Goes
      <4>3. x.kind = call[c].kind /\ x.at = p
        BY DEF StoreInv, StoreTyped, StoreCalls
      <4> HIDE DEF x
      <4> QED BY <4>1, <4>2, <4>3
    <3> QED BY <1>3, <3>1, <3>2
  <2>2. CallOK(c) /\ call[c].kind = "transact" /\ call[c].at # "renamed"
    BY <1>3 DEF StoreInv, CallsInv, CallOK, NoCallYet, ReadRaw, Operated, Renamed
  <2>3. StateOf(call[c]) = [at |-> "write", seen |-> <<>>]
    BY <2>2, StatesOfCalls
  <2>4. CASE Renamed(c)
    <3>1. file' = Append(file, c)
      BY <2>2, <2>4 DEF Renamed, CallOK, NoCallYet
    <3>2. x.kind = "transact" /\ x.at = "renamed"
      BY <2>1, <2>2, <2>4
    <3>3. StateOf(x) = [at |-> "wrote", seen |-> <<>>]
      BY <3>2, StatesOfCalls
    <3>4. call'[c] = x /\ \A d \in Clients \ {c} : call'[d] = call[d]
      BY <2>1, FieldsChange
    <3>5. /\ \A d \in Clients \ {c} : StateOf(call'[d]) = StateOf(call[d])
          /\ StateOf(call'[c]) = [at |-> "wrote", seen |-> <<>>] /\ StateOf(call[c]).at = "write"
      BY <2>3, <3>3, <3>4
    <3> QED BY <3>1, <3>5, OneCallMoves
  <2>5. CASE ~Renamed(c)
    <3>1. file' = file
      BY <1>3, <2>5 DEF ReadRaw, Operated
    <3>2. StateOf(x) = [at |-> "write", seen |-> <<>>]
      BY <2>1, <2>2, <2>5, StatesOfCalls
    <3> QED BY <2>1, <2>3, <3>1, <3>2, FieldsChange, OneCallMoves
  <2> QED BY <2>4, <2>5
<1>4. ASSUME NEW c \in Clients, Looks(c) PROVE [Atomic!AtomicNext]_(Atomic!abstract)
  <2> DEFINE x == [call[c] EXCEPT !.at = "looked", !.draft = file]
  <2>0. x = [call[c] EXCEPT !.at = "looked", !.draft = file]
    OBVIOUS
  <2>1. call' = [call EXCEPT ![c] = x] /\ file' = file
    BY <1>4 DEF Looks
  <2> HIDE DEF x
  <2>2. x.kind = call[c].kind /\ x.at = "looked" /\ x.draft = file
    BY <2>0 DEF StoreInv, StoreTyped, StoreCalls
  <2>3. call[c].kind \in {"read", "backup"} /\ call[c].at = "waiting"
    BY <1>4 DEF Looks, StoreInv, CallsInv, CallOK, NoCallYet
  <2>4. StateOf(call[c]).at = "read" /\ StateOf(x) = [at |-> "saw", seen |-> file]
    BY <2>2, <2>3, StatesOfCalls
  <2> QED BY <2>1, <2>4, FieldsChange, OneCallMoves
<1>5. ASSUME NEW c \in Clients, BackupBegins(c) \/ BackupWritten(c) PROVE [Atomic!AtomicNext]_(Atomic!abstract)
  <2>1. PICK x : /\ call' = [call EXCEPT ![c] = x] /\ x.kind = call[c].kind /\ x.draft = call[c].draft
                 /\ \/ call[c].at = "queued" /\ x.at = "waiting"
                    \/ call[c].at = "looked" /\ x.at = "pruning"
    <3>1. CASE BackupBegins(c)
      <4> DEFINE x == [call[c] EXCEPT !.at = "waiting", !.ahead = Ahead]
      <4>0. x = [call[c] EXCEPT !.at = "waiting", !.ahead = Ahead]
        OBVIOUS
      <4>1. call' = [call EXCEPT ![c] = x] /\ call[c].at = "queued"
        BY <3>1 DEF BackupBegins
      <4> HIDE DEF x
      <4>2. x.kind = call[c].kind /\ x.at = "waiting" /\ x.draft = call[c].draft
        BY <4>0 DEF StoreInv, StoreTyped, StoreCalls
      <4> QED BY <4>1, <4>2
    <3>2. CASE BackupWritten(c)
      <4> DEFINE x == [call[c] EXCEPT !.at = "pruning"]
      <4>1. call' = [call EXCEPT ![c] = x] /\ call[c].at = "looked"
        BY <3>2 DEF BackupWritten, Goes
      <4>2. x.kind = call[c].kind /\ x.at = "pruning" /\ x.draft = call[c].draft
        BY DEF StoreInv, StoreTyped, StoreCalls
      <4> HIDE DEF x
      <4> QED BY <4>1, <4>2
    <3> QED BY <1>5, <3>1, <3>2
  <2>2. call[c].kind = "backup" /\ file' = file
    BY <1>5 DEF BackupBegins, BackupWritten
  <2>3. StateOf(x) = StateOf(call[c])
    BY <2>1, <2>2, StatesOfCalls
  <2> QED BY <2>1, <2>2, <2>3, FieldsChange, OneCallMoves
<1>6. ASSUME NEW c \in Clients, ReadEnds(c) PROVE [Atomic!AtomicNext]_(Atomic!abstract)
  <2>1. call' = [call EXCEPT ![c] = NoCallYet] /\ file' = file
    BY <1>6 DEF ReadEnds
  <2>2. StateOf(call[c]).at = "saw" /\ StateOf(NoCallYet) = Atomic!NoCall
    BY <1>6, StatesOfCalls DEF ReadEnds
  <2> QED BY <2>1, <2>2, FieldsChange, OneCallMoves
<1>7. ASSUME NEW c \in Clients, TransactEnds(c) \/ TransactFails(c) \/ PruneOldBackups(c) \/ BackupFails(c)
      PROVE  [Atomic!AtomicNext]_(Atomic!abstract)
  <2>1. PICK q \in {"write", "backup"} : Settles(q, c) /\ HasTurn(q, c) /\ UNCHANGED file
    BY <1>7 DEF TransactEnds, TransactFails, PruneOldBackups, BackupFails, StoreInv, CallsInv, CallOK, NoCallYet
  <2>2. /\ call'[c] = NoCallYet
        /\ \A d \in Clients \ {c} : StateOf(call'[d]) = StateOf(call[d])
    BY <2>1, SettleKeepsCalls, StatesOfCalls
  <2>3. StateOf(call[c]).at \in {"write", "wrote", "read", "saw"}
    BY <1>7, StatesOfCalls DEF TransactEnds, TransactFails, PruneOldBackups, BackupFails,
                               StoreInv, CallsInv, CallOK, NoCallYet
  <2>4. StateOf(call'[c]) = Atomic!NoCall
    BY <2>2, StatesOfCalls
  <2> QED BY <2>1, <2>2, <2>3, <2>4, OneCallMoves
<1>8. CASE Crashes
  <2>1. call' = [c \in Clients |-> NoCallYet] /\ file' = file
    BY <1>8 DEF Crashes
  <2>2. \A c \in Clients : CallState(c)' = Atomic!NoCall
    BY <2>1, StatesOfCalls DEF CallState, StateOf
  <2>3. [c \in Clients |-> CallState(c)]' = [c \in Clients |-> Atomic!NoCall]
    BY <2>2
  <2> QED BY <2>1, <2>3 DEF Atomic!AtomicNext, Atomic!abstract
<1>9. CASE UNCHANGED store
  BY <1>9 DEF store, Atomic!abstract, CallState
<1> QED BY <1>1, <1>2, <1>3, <1>4, <1>5, <1>6, <1>7, <1>8, <1>9 DEF StoreNext

LEMMA StoreStartsAtomic == ASSUME StoreInit PROVE Atomic!AtomicInit
<1>1. \A c \in Clients : CallState(c) = Atomic!NoCall
  BY StatesOfCalls DEF StoreInit, CallState, StateOf
<1> QED BY <1>1 DEF StoreInit, Atomic!AtomicInit

THEOREM BoardStoreIsAtomic == StoreSpec => KeepsBoard
<1>1. StoreInit => StoreInv /\ Atomic!AtomicInit
  BY StoreStarts, StoreStartsAtomic
<1>2. StoreInv /\ [StoreNext]_store => StoreInv' /\ [Atomic!AtomicNext]_(Atomic!abstract)
  BY StoreStep, StoreStepIsAtomic
<1>3. StoreInv => BackupsGrow
  BY DEF StoreInv, BackupsInv
<1> QED BY <1>1, <1>2, <1>3, PTL DEF StoreSpec, KeepsBoard, Atomic!AtomicSpec

-----------------------------------------------------------------------------
(* Folders made known to OpenCode *)

(* A set of numbers with an element has a least one. *)
LEMMA MinIsLeast ==
    ASSUME NEW S, S \subseteq Nat, S # {}
    PROVE  Min(S) \in S /\ \A k \in S : Min(S) <= k
<1>1. \E x \in S : \A y \in S : ~(<<y, x>> \in OpToRel(<, Nat))
  BY WFMin, NatLessThanWellFounded
<1>2. PICK x \in S : \A y \in S : ~(<<y, x>> \in OpToRel(<, Nat))
  BY <1>1
<1>3. \A y \in S : x <= y
  <2> SUFFICES ASSUME NEW y \in S PROVE x <= y
    OBVIOUS
  <2>1. x \in Nat /\ y \in Nat
    OBVIOUS
  <2>2. ~(y < x)
    BY <1>2, <2>1 DEF OpToRel
  <2> QED BY <2>1, <2>2
<1> QED BY <1>3 DEF Min

Bootstraps == [of : Nat, title : {"none", "Bootstrap", "Home"}, by : SyncPasses \cup Warmers \cup {"none"}, after : Nat]
Passes == [at : {"idle", "create", "find", "patch", "drop", "done", "aborted"}, of : Nat,
           session : Bootstraps, named : BOOLEAN, counted : SUBSET Dirs]

SyncTyped ==
    /\ record \in [Dirs -> {"none", "stale", "good", "broken"}]
    /\ derived \in [Dirs -> {"none", "plain", "named", "global"}]
    /\ opened \in SUBSET Bootstraps
    /\ pass \in [SyncPasses -> Passes]
    /\ warming \in [Warmers -> [at : {"idle", "look", "make", "done"}, of : Nat]]
    /\ syncFaults \in [count : Nat, spoiled : BOOLEAN]

(* Unless a call was cut off, the Bootstrap sessions are those of passes.  *)
OwnedInv ==
    syncFaults.spoiled \/
        \A s \in opened : s.title = "Bootstrap" => \E p \in SyncPasses : s = pass[p].session

(* A pass at a folder has its record, has named it once it counts it, and  *)
(* holds a session exactly while it has one to drop.                       *)
PassOK(x) ==
    /\ x.at \notin {"find", "patch", "drop"} => x.session = NoBootstrap
    /\ x.at \in {"create", "find", "patch", "drop"} => x.of \in Dirs /\ record[x.of] = "good"
    /\ x.at = "drop" /\ x.named => derived[x.of] \in {"named", "global"}
    /\ \A w \in x.counted : derived[w] \in {"named", "global"} /\ record[w] = "good"

SyncInv == SyncTyped /\ OwnedInv /\ \A p \in SyncPasses : PassOK(pass[p])

LEMMA SyncStarting == ASSUME SyncInit PROVE SyncInv
BY DEF SyncInit, SyncInv, SyncTyped, OwnedInv, PassOK, NoPass, NoWarming, NoBootstrap, Passes, Bootstraps

(* Steps that take no record, name or counted folder away. *)
LEMMA PassesFollow ==
    ASSUME SyncInv, NEW p \in SyncPasses,
           \A w \in Dirs : record[w] = "good" => record'[w] = "good",
           \A w \in Dirs : derived[w] \in {"named", "global"} => derived'[w] \in {"named", "global"},
           pass'[p] = pass[p]
    PROVE  PassOK(pass[p])'
<1>1. pass[p] \in Passes /\ PassOK(pass[p])
  BY DEF SyncInv, SyncTyped
<1> QED BY <1>1 DEF PassOK, Passes

(* What going on to the next folder leaves. *)
LEMMA Onwards ==
    ASSUME SyncInv, NEW p \in SyncPasses, NEW k \in Nat \ {0}, NEW counted \in SUBSET Dirs,
           GoesOn(p, k, counted)
    PROVE  /\ pass' \in [SyncPasses -> Passes]
           /\ \A q \in SyncPasses : q # p => pass'[q] = pass[q]
           /\ pass'[p].session = NoBootstrap /\ pass'[p].named = FALSE /\ pass'[p].counted = counted
           /\ pass'[p].at \in {"create", "done", "aborted"}
           /\ pass'[p].at = "create" => pass'[p].of \in Dirs /\ record'[pass'[p].of] = "good"
           /\ record' \in [Dirs -> {"none", "stale", "good", "broken"}]
           /\ \A w \in Dirs : record[w] = "good" => record'[w] = "good"
<1> USE SyncBounds
<1> DEFINE stops == {w \in Dirs : w >= k /\ (w \in GitDirs \/ record[w] = "broken")}
           last == IF stops = {} THEN MaxDirs ELSE Min(stops)
           aborted == stops # {} /\ record[last] = "broken"
           x == [NoPass EXCEPT !.at = IF aborted THEN "aborted"
                                      ELSE IF stops = {} THEN "done" ELSE "create",
                               !.of = IF aborted \/ stops = {} THEN 0 ELSE last,
                               !.counted = counted]
<1>1. /\ record' = [w \in Dirs |-> IF w \in k .. last /\ record[w] # "broken" THEN "good" ELSE record[w]]
      /\ pass' = [pass EXCEPT ![p] = x]
  BY DEF GoesOn
<1>2. stops # {} => last \in stops
  BY MinIsLeast DEF Dirs
<1>3. stops # {} => last \in Dirs /\ last \in k .. last
  BY <1>2 DEF Dirs
<1>4. /\ record' \in [Dirs -> {"none", "stale", "good", "broken"}]
      /\ \A w \in Dirs : record[w] = "good" => record'[w] = "good"
      /\ ~aborted /\ stops # {} => record'[last] = "good"
  BY <1>1, <1>3 DEF SyncInv, SyncTyped
<1>5. last \in Nat
  BY <1>3 DEF Dirs
<1> HIDE DEF stops, last, aborted
<1>6. x \in Passes /\ x.session = NoBootstrap /\ x.named = FALSE /\ x.counted = counted
  BY <1>5 DEF NoPass, NoBootstrap, Passes, Bootstraps
<1>7. x.at = IF aborted THEN "aborted" ELSE IF stops = {} THEN "done" ELSE "create"
  BY DEF NoPass
<1>8. x.of = IF aborted \/ stops = {} THEN 0 ELSE last
  BY DEF NoPass
<1> HIDE DEF x
<1>9. /\ pass' \in [SyncPasses -> Passes]
      /\ \A q \in SyncPasses : pass'[q] = IF q = p THEN x ELSE pass[q]
  BY <1>1, <1>6 DEF SyncInv, SyncTyped
<1> QED BY <1>3, <1>4, <1>6, <1>7, <1>8, <1>9

(* Going on, when the pass held no session or its loss is booked. *)
LEMMA GoesOnKeeps ==
    ASSUME SyncInv, NEW p \in SyncPasses, NEW k \in Nat \ {0}, NEW counted \in SUBSET Dirs,
           GoesOn(p, k, counted), UNCHANGED <<derived, warming>>,
           \A w \in counted : derived[w] \in {"named", "global"} /\ record[w] = "good",
           opened' \in SUBSET Bootstraps,
           syncFaults' \in [count : Nat, spoiled : BOOLEAN],
           \/ syncFaults'.spoiled
           \/ /\ ~syncFaults.spoiled \/ syncFaults'.spoiled
              /\ \A s \in opened' : s \in opened /\ (s # pass[p].session \/ s.title # "Bootstrap")
    PROVE  SyncInv'
<1>1. /\ pass' \in [SyncPasses -> Passes]
      /\ \A q \in SyncPasses : q # p => pass'[q] = pass[q]
      /\ pass'[p].session = NoBootstrap /\ pass'[p].named = FALSE /\ pass'[p].counted = counted
      /\ pass'[p].at \in {"create", "done", "aborted"}
      /\ pass'[p].at = "create" => pass'[p].of \in Dirs /\ record'[pass'[p].of] = "good"
      /\ record' \in [Dirs -> {"none", "stale", "good", "broken"}]
      /\ \A w \in Dirs : record[w] = "good" => record'[w] = "good"
  BY Onwards
<1>2. SyncTyped'
  BY <1>1 DEF SyncInv, SyncTyped
<1>4. OwnedInv'
  BY <1>1 DEF SyncInv, OwnedInv
<1>5. ASSUME NEW q \in SyncPasses PROVE PassOK(pass[q])'
  <2>1. CASE q = p
    <3>2. \A w \in counted : w \in Dirs
      OBVIOUS
    <3> QED BY <1>1, <2>1, <3>2 DEF PassOK
  <2>2. CASE q # p
    BY <1>1, <2>2, PassesFollow
  <2> QED BY <2>1, <2>2
<1> QED BY <1>2, <1>4, <1>5 DEF SyncInv

(* A step of a pass at its folder. *)
LEMMA StandsKeeps ==
    ASSUME SyncInv, NEW p \in SyncPasses, NEW x \in Passes, pass' = [pass EXCEPT ![p] = x],
           x.counted = pass[p].counted, x.at \in {"find", "patch", "drop"},
           x.of = pass[p].of, pass[p].at \in {"create", "find", "patch", "drop"},
           x.at = "drop" /\ x.named => derived'[x.of] \in {"named", "global"},
           derived' \in [Dirs -> {"none", "plain", "named", "global"}],
           \A w \in Dirs : derived[w] \in {"named", "global"} => derived'[w] \in {"named", "global"},
           UNCHANGED <<record, warming>>,
           opened' \in SUBSET Bootstraps,
           \A s \in opened' : s \in opened \/ s = x.session,
           pass[p].session \in {x.session, NoBootstrap},
           syncFaults' \in [count : Nat, spoiled : BOOLEAN], syncFaults'.spoiled = syncFaults.spoiled
    PROVE  SyncInv'
<1>1. SyncTyped'
  BY DEF SyncInv, SyncTyped
<1>2. \A q \in SyncPasses : pass'[q] = IF q = p THEN x ELSE pass[q]
  BY DEF SyncInv, SyncTyped
<1>3. OwnedInv'
  BY <1>2 DEF SyncInv, OwnedInv, NoBootstrap
<1>4. ASSUME NEW q \in SyncPasses PROVE PassOK(pass[q])'
  <2>1. CASE q = p
    <3>1. pass'[q] = x /\ PassOK(pass[p]) /\ pass[p] \in Passes
      BY <1>2, <2>1 DEF SyncInv, SyncTyped
    <3> QED BY <3>1 DEF PassOK, Passes
  <2>2. CASE q # p
    BY <1>2, <2>2, PassesFollow
  <2> QED BY <2>1, <2>2
<1> QED BY <1>1, <1>3, <1>4 DEF SyncInv

(* Steps of sync passes. *)
LEMMA PassesTurn ==
    ASSUME SyncInv, NEW p \in SyncPasses,
           \/ SyncStarts(p) \/ BootstrapOpened(p) \/ BootstrapFails(p) \/ DerivedFound(p)
           \/ DerivedNamed(p) \/ NamingFails(p) \/ BootstrapDropped(p) \/ DropFails(p)
    PROVE  SyncInv'
<1> USE SyncBounds
<1>1. /\ pass[p] \in Passes /\ PassOK(pass[p]) /\ syncFaults \in [count : Nat, spoiled : BOOLEAN]
      /\ opened \in SUBSET Bootstraps /\ derived \in [Dirs -> {"none", "plain", "named", "global"}]
      /\ syncFaults.count + 1 \in Nat
  BY DEF SyncInv, SyncTyped
<1>2. pass[p].of \in Nat /\ pass[p].of + 1 \in Nat \ {0} /\ pass[p].counted \in SUBSET Dirs
  BY <1>1 DEF Passes
<1>3. \A b \in BOOLEAN : SyncFault(b) => /\ syncFaults' \in [count : Nat, spoiled : BOOLEAN]
                                         /\ syncFaults'.spoiled = (syncFaults.spoiled \/ b)
  BY <1>1 DEF SyncFault
<1>4. pass[p].at = "create" => BootstrapOf(p) \in Bootstraps
  BY <1>1, <1>2 DEF BootstrapOf, SessionOf, Bootstraps
<1>5. pass[p].at \in {"idle", "create"} => \A s : s.title = "Bootstrap" => s # NoBootstrap
  BY DEF NoBootstrap
<1>6. CASE SyncStarts(p)
  <2>1. GoesOn(p, 1, {}) /\ UNCHANGED <<derived, opened, warming, syncFaults>> /\ pass[p].at = "idle"
    BY <1>6 DEF SyncStarts
  <2>2. {} \in SUBSET Dirs /\ 1 \in Nat \ {0}
    OBVIOUS
  <2>3. pass[p].session = NoBootstrap
    BY <1>1, <2>1 DEF PassOK
  <2>4. \A s \in opened : s # pass[p].session \/ s.title # "Bootstrap"
    BY <2>3 DEF NoBootstrap
  <2> QED BY <1>1, <2>1, <2>2, <2>4, GoesOnKeeps
<1>7. CASE BootstrapOpened(p)
  <2> DEFINE s == BootstrapOf(p)
  <2>1. /\ pass[p].at = "create" /\ opened' = opened \cup {s} /\ UNCHANGED <<record, warming, syncFaults>>
        /\ \/ /\ derived' = [derived EXCEPT ![pass[p].of] = IF @ = "none" THEN "plain" ELSE @]
              /\ pass' = [pass EXCEPT ![p].at = "find", ![p].named = FALSE, ![p].session = s]
           \/ /\ derived' = [derived EXCEPT ![pass[p].of] = "global"]
              /\ pass' = [pass EXCEPT ![p].at = "drop", ![p].named = TRUE, ![p].session = s]
    BY <1>7 DEF BootstrapOpened, OpensBootstrap
  <2>2. s \in Bootstraps /\ pass[p].session = NoBootstrap /\ pass[p].of \in Dirs
    BY <1>1, <1>4, <2>1 DEF PassOK
  <2> HIDE DEF s
  <2>3. ASSUME NEW at \in {"find", "drop"}, NEW named \in BOOLEAN,
               pass' = [pass EXCEPT ![p].at = at, ![p].named = named, ![p].session = s],
               derived' \in [Dirs -> {"none", "plain", "named", "global"}],
               \A w \in Dirs : derived[w] \in {"named", "global"} => derived'[w] \in {"named", "global"},
               at = "drop" => derived'[pass[p].of] \in {"named", "global"}
        PROVE  SyncInv'
    <3> DEFINE x == [pass[p] EXCEPT !.at = at, !.named = named, !.session = s]
    <3>1. pass' = [pass EXCEPT ![p] = x]
      BY <2>3 DEF SyncInv, SyncTyped
    <3>2. /\ x \in Passes /\ x.at = at /\ x.named = named /\ x.session = s
          /\ x.of = pass[p].of /\ x.counted = pass[p].counted
      BY <1>1, <2>2 DEF Passes
    <3> HIDE DEF x
    <3>3. opened' \in SUBSET Bootstraps /\ \A y \in opened' : y \in opened \/ y = x.session
      BY <1>1, <2>1, <2>2, <3>2
    <3>4. /\ UNCHANGED <<record, warming>> /\ syncFaults' \in [count : Nat, spoiled : BOOLEAN]
          /\ syncFaults'.spoiled = syncFaults.spoiled
          /\ pass[p].at \in {"create", "find", "patch", "drop"} /\ pass[p].session \in {x.session, NoBootstrap}
      BY <1>1, <2>1, <2>2
    <3>5. x.at \in {"find", "patch", "drop"} /\ (x.at = "drop" /\ x.named => derived'[x.of] \in {"named", "global"})
      BY <2>3, <3>2
    <3> QED BY <2>3, <3>1, <3>2, <3>3, <3>4, <3>5, StandsKeeps
  <2> QED BY <1>1, <2>1, <2>2, <2>3
<1>8. CASE BootstrapFails(p)
  <2>1. /\ GoesOn(p, pass[p].of + 1, pass[p].counted) /\ UNCHANGED <<derived, warming>> /\ SyncFault(TRUE)
        /\ opened' \in {opened, opened \cup {BootstrapOf(p)}} /\ pass[p].at = "create"
    BY <1>8 DEF BootstrapFails
  <2>2. opened' \in SUBSET Bootstraps
    BY <1>1, <1>4, <2>1
  <2>3. \A w \in pass[p].counted : derived[w] \in {"named", "global"} /\ record[w] = "good"
    BY <1>1 DEF PassOK
  <2> QED BY <1>2, <1>3, <2>1, <2>2, <2>3, GoesOnKeeps
<1>9. ASSUME NEW at \in {"patch", "drop"}, NEW named \in BOOLEAN, Stands(p, at, named),
             pass[p].at \in {"find", "patch"},
             derived' \in [Dirs -> {"none", "plain", "named", "global"}],
             \A w \in Dirs : derived[w] \in {"named", "global"} => derived'[w] \in {"named", "global"},
             at = "drop" /\ named => derived'[pass[p].of] \in {"named", "global"},
             UNCHANGED <<record, opened, warming>>,
             syncFaults' \in [count : Nat, spoiled : BOOLEAN], syncFaults'.spoiled = syncFaults.spoiled
      PROVE  SyncInv'
  <2> DEFINE x == [pass[p] EXCEPT !.at = at, !.named = named]
  <2>1. pass' = [pass EXCEPT ![p] = x]
    BY <1>9 DEF Stands, SyncInv, SyncTyped
  <2>2. /\ x \in Passes /\ x.at = at /\ x.named = named /\ x.session = pass[p].session
        /\ x.of = pass[p].of /\ x.counted = pass[p].counted
    BY <1>1 DEF Passes
  <2> HIDE DEF x
  <2> QED BY <1>1, <1>9, <2>1, <2>2, StandsKeeps
<1>10. CASE DerivedFound(p)
  BY <1>1, <1>9, <1>10 DEF DerivedFound
<1>11. CASE DerivedNamed(p)
  <2>1. /\ pass[p].at = "patch" /\ derived' = [derived EXCEPT ![pass[p].of] = "named"]
        /\ Stands(p, "drop", TRUE) /\ UNCHANGED <<record, opened, warming, syncFaults>>
    BY <1>11 DEF DerivedNamed
  <2>2. pass[p].of \in Dirs
    BY <1>1, <2>1 DEF PassOK
  <2> QED BY <1>1, <1>9, <2>1, <2>2
<1>12. CASE NamingFails(p)
  BY <1>1, <1>3, <1>9, <1>12 DEF NamingFails
<1>13. CASE BootstrapDropped(p)
  <2> DEFINE counted == pass[p].counted \cup IF pass[p].named THEN {pass[p].of} ELSE {}
  <2>1. /\ pass[p].at = "drop" /\ opened' = opened \ {pass[p].session}
        /\ GoesOn(p, pass[p].of + 1, counted) /\ UNCHANGED <<derived, warming, syncFaults>>
    BY <1>13 DEF BootstrapDropped
  <2>2. /\ counted \in SUBSET Dirs
        /\ \A w \in counted : derived[w] \in {"named", "global"} /\ record[w] = "good"
    BY <1>1, <1>2, <2>1 DEF PassOK
  <2> HIDE DEF counted
  <2> QED BY <1>1, <1>2, <2>1, <2>2, GoesOnKeeps
<1>14. CASE DropFails(p)
  <2>1. /\ GoesOn(p, pass[p].of + 1, pass[p].counted) /\ UNCHANGED <<derived, opened, warming>> /\ SyncFault(TRUE)
    BY <1>14 DEF DropFails
  <2>2. \A w \in pass[p].counted : derived[w] \in {"named", "global"} /\ record[w] = "good"
    BY <1>1 DEF PassOK
  <2> QED BY <1>1, <1>2, <1>3, <2>1, <2>2, GoesOnKeeps
<1> QED BY <1>6, <1>7, <1>8, <1>10, <1>11, <1>12, <1>13, <1>14

(* Steps of warming passes, and crashes. *)
LEMMA WarmersTurn ==
    ASSUME SyncInv, NEW m \in Warmers, WarmStarts(m) \/ Looked(m) \/ HomeOpened(m) \/ WarmFails(m)
    PROVE  SyncInv'
<1> USE SyncBounds
<1>1. /\ warming[m] \in [at : {"idle", "look", "make", "done"}, of : Nat]
      /\ warming[m].of \in Nat /\ warming[m].of + 1 \in Nat
      /\ syncFaults \in [count : Nat, spoiled : BOOLEAN] /\ syncFaults.count + 1 \in Nat
  BY DEF SyncInv, SyncTyped
<1>2. /\ warming' \in [Warmers -> [at : {"idle", "look", "make", "done"}, of : Nat]]
      /\ UNCHANGED <<record, derived, pass>>
  <2>1. ASSUME NEW k \in Nat, WarmNext(m, k)
        PROVE  warming' \in [Warmers -> [at : {"idle", "look", "make", "done"}, of : Nat]]
    BY <2>1 DEF WarmNext, SyncInv, SyncTyped
  <2>2. 1 \in Nat
    OBVIOUS
  <2>3. warming' = [warming EXCEPT ![m].at = "make"]
          => warming' \in [Warmers -> [at : {"idle", "look", "make", "done"}, of : Nat]]
    BY <1>1 DEF SyncInv, SyncTyped
  <2> QED BY <1>1, <2>1, <2>2, <2>3 DEF WarmStarts, Looked, HomeOpened, WarmFails
<1>3. /\ syncFaults' \in [count : Nat, spoiled : BOOLEAN]
      /\ syncFaults'.spoiled = syncFaults.spoiled
  BY <1>1 DEF WarmStarts, Looked, HomeOpened, WarmFails, SyncFault
<1>4. opened' \in SUBSET Bootstraps /\ \A s \in opened' : s \in opened \/ s.title = "Home"
  <2>1. SessionOf(warming[m].of, "Home", m) \in Bootstraps
    BY <1>1 DEF SessionOf, Bootstraps
  <2>2. SessionOf(warming[m].of, "Home", m).title = "Home"
    BY DEF SessionOf
  <2> QED BY <2>1, <2>2 DEF WarmStarts, Looked, HomeOpened, WarmFails, SyncInv, SyncTyped
<1>5. OwnedInv'
  BY <1>2, <1>3, <1>4 DEF SyncInv, OwnedInv
<1>6. \A p \in SyncPasses : PassOK(pass[p])'
  BY <1>2, PassesFollow
<1> QED BY <1>2, <1>3, <1>4, <1>5, <1>6 DEF SyncInv, SyncTyped

LEMMA SyncStep == ASSUME SyncInv, [SyncNext]_sync PROVE SyncInv'
<1>1. CASE SyncCrash
  <2>1. syncFaults' \in [count : Nat, spoiled : BOOLEAN] /\ syncFaults'.spoiled
    <3>1. syncFaults.count + 1 \in Nat
      BY DEF SyncInv, SyncTyped
    <3> QED BY <1>1, <3>1 DEF SyncCrash, SyncFault
  <2>2. NoPass \in Passes /\ NoPass.counted = {} /\ NoPass.at = "idle"
    BY DEF NoPass, NoBootstrap, Passes, Bootstraps
  <2>3. /\ pass' = [p \in SyncPasses |-> NoPass] /\ warming' = [m \in Warmers |-> NoWarming]
        /\ UNCHANGED <<record, derived, opened>>
    BY <1>1 DEF SyncCrash
  <2>4. SyncTyped' /\ OwnedInv'
    BY <2>1, <2>2, <2>3 DEF SyncInv, SyncTyped, OwnedInv, NoWarming
  <2>5. \A p \in SyncPasses : PassOK(pass[p])'
    <3>1. NoPass.session = NoBootstrap
      BY DEF NoPass
    <3> QED BY <2>2, <2>3, <3>1 DEF PassOK
  <2> QED BY <2>4, <2>5 DEF SyncInv
<1>2. CASE UNCHANGED sync
  BY <1>2 DEF sync, SyncInv, SyncTyped, OwnedInv, PassOK
<1> QED BY <1>1, <1>2, PassesTurn, WarmersTurn DEF SyncNext

LEMMA PassesOwnBootstraps == ASSUME SyncInv PROVE BootstrapsAreDropped
BY DEF SyncInv, OwnedInv, PassOK, BootstrapsAreDropped

-----------------------------------------------------------------------------
(* Tools of sessions on the board *)

(* The board's task is one that session w executes. *)
Mine(w) ==
    /\ It.status \in {"in_progress", "blocked"}
    /\ It.lease = "live" /\ It.executionSessionId = w

TicketOK == /\ ticket \in [B!Tasks -> B!Task]
            /\ ticketId = 1 => It.status = "absent"

(* Only starting and claiming make the task a session's own. *)
ToolStates == {c \in [name : ToolNames \cup {"none"}, mine : BOOLEAN,
                 step : {"sent", "patch", "ok", "empty", "conflict", "error", "told"}] :
             c.mine => c.name \in {"start", "claim"}}

(* A session that was told, or will be told, that the task is its own has  *)
(* it, unless its lease ended or the task left execution since.            *)
HoldInv ==
    \A w \in Workers :
        ~over[w] /\ (holds[w] \/ (tool[w].mine /\ tool[w].step \in {"ok", "patch"})) => Mine(w)

ToldOff ==
    \A w \in Workers : tool[w].step = "conflict" /\ tool[w].name # "start" => ~holds[w] \/ over[w]

ToolInv ==
    /\ TicketOK
    /\ tool \in [Workers -> ToolStates]
    /\ holds \in [Workers -> BOOLEAN] /\ over \in [Workers -> BOOLEAN]
    /\ HoldInv /\ ToldOff

(* A step of the board takes the task from nobody but by what is           *)
(* remembered.                                                             *)
BoardKeeps ==
    /\ TicketOK'
    /\ \A w \in Workers : Mine(w) => \/ Mine(w)'
                                     \/ It'.lease = "expired"
                                     \/ It'.status \notin {"in_progress", "blocked"}

LEMMA OneTask == B!Tasks = {1}
BY DEF B!Tasks

LEMMA SavedTicket ==
    ASSUME TicketOK, NEW r \in B!Task, B!Save([ticket EXCEPT ![1] = r])
    PROVE  ticket' \in [B!Tasks -> B!Task] /\ It' = r
BY OneTask DEF TicketOK, B!Save, It

LEMMA TicketTyped == ASSUME TicketOK PROVE It \in B!Task
BY OneTask DEF TicketOK, It

LEMMA EmptyTyped ==
    /\ B!NoTask \in B!Task /\ B!NoTask.status = "absent"
    /\ \A s \in B!Statuses, c \in B!Checklist :
          [B!NoTask EXCEPT !.status = B!Resolve(s, c), !.acceptanceCriteria = c] \in B!Task
BY DEF B!NoTask, B!Task, B!Checklist, B!Resolve, B!Statuses, B!Resumes

LEMMA FreshTyped == FreshMarks \in B!Checklist
BY DEF FreshMarks, B!Checklist

LEMMA TicketCreated ==
    ASSUME TicketOK, NEW s \in B!Statuses, NEW c \in B!Checklist, ticketId = 1, B!CreateTask(s, c)
    PROVE  BoardKeeps
<1> DEFINE r == [B!NoTask EXCEPT !.status = B!Resolve(s, c), !.acceptanceCriteria = c]
<1>1. r \in B!Task
  BY EmptyTyped
<1>2. B!Save([ticket EXCEPT ![1] = r]) /\ ticketId' = 2
  BY DEF B!CreateTask
<1> HIDE DEF r
<1>3. ticket' \in [B!Tasks -> B!Task]
  BY <1>1, <1>2, SavedTicket
<1> QED BY <1>2, <1>3 DEF BoardKeeps, TicketOK, Mine

(* Taking the owner off where it has to go. *)
LEMMA IdleDisowned ==
    ASSUME NEW r \in B!Task
    PROVE  /\ B!Disowned(r) \in B!Task /\ B!Disowned(r).status = r.status
           /\ B!DisownedIfIdle(r) \in B!Task /\ B!DisownedIfIdle(r).status = r.status
           /\ r.status \in {"in_progress", "blocked"} => B!DisownedIfIdle(r) = r
BY DEF B!Disowned, B!DisownedIfIdle, B!Task

LEMMA RestingPoint ==
    ASSUME NEW r \in B!Task, r.status # "absent"
    PROVE  B!ResumePoint(r) \in B!Resumes
BY DEF B!Task, B!ResumePoint, B!Resumes, B!Statuses

(* A record with another status and checklist, saved. *)
LEMMA RewrittenKeeps ==
    ASSUME TicketOK, It.status # "absent", UNCHANGED ticketId,
           NEW q \in B!Task, q.status # "absent",
           q.lease = It.lease, q.executionSessionId = It.executionSessionId,
           \/ B!Save([ticket EXCEPT ![1] = q])
           \/ B!Save([ticket EXCEPT ![1] = B!DisownedIfIdle(q)])
    PROVE  BoardKeeps
<1>1. CASE B!Save([ticket EXCEPT ![1] = q])
  BY <1>1, SavedTicket DEF BoardKeeps, TicketOK, Mine
<1>2. CASE B!Save([ticket EXCEPT ![1] = B!DisownedIfIdle(q)])
  <2>1. ticket' \in [B!Tasks -> B!Task] /\ It' = B!DisownedIfIdle(q)
    BY <1>2, SavedTicket, IdleDisowned
  <2> QED BY <2>1, IdleDisowned DEF BoardKeeps, TicketOK, Mine
<1> QED BY <1>1, <1>2

LEMMA UpdateKeeps ==
    ASSUME TicketOK, NEW s \in B!Statuses \cup {"absent"}, NEW c \in B!Checklist,
           s = "absent" => s = It.status, B!UpdateTask(1, s, c)
    PROVE  BoardKeeps
<1> DEFINE v == B!Resolve(s, c)
           p == IF v = "blocked" THEN B!ResumePoint(It) ELSE "none"
           q == [It EXCEPT !.acceptanceCriteria = c, !.status = v, !.blockedResumeStatus = p]
<1>1. It \in B!Task /\ It.status # "absent"
  BY TicketTyped DEF B!UpdateTask, It
<1>2. v \in B!Statuses /\ p \in B!Resumes
  BY <1>1, RestingPoint DEF B!Resolve, B!Statuses, B!Resumes
<1>3. B!Save([ticket EXCEPT ![1] = B!DisownedIfIdle(q)]) /\ UNCHANGED ticketId
  BY DEF B!UpdateTask, B!Patched, It
<1> HIDE DEF v, p
<1>4. /\ q \in B!Task /\ q.status = v
      /\ q.lease = It.lease /\ q.executionSessionId = It.executionSessionId
  BY <1>1, <1>2 DEF B!Task
<1>5. q.status # "absent"
  BY <1>2, <1>4 DEF B!Statuses
<1> HIDE DEF q
<1> QED BY <1>1, <1>3, <1>4, <1>5, RewrittenKeeps

LEMMA CriterionKeeps ==
    ASSUME TicketOK, NEW k \in Marks, NEW s \in {"pending", "done", "blocked"}, B!UpdateCriterion(1, k, s)
    PROVE  BoardKeeps
<1> DEFINE c == [It.acceptanceCriteria EXCEPT ![k] = s]
           v == B!Resolve(B!Requested(1), c)
           q1 == [It EXCEPT !.acceptanceCriteria = c, !.status = "blocked",
                            !.blockedResumeStatus = B!ResumePoint(It)]
           q2 == [It EXCEPT !.acceptanceCriteria = c, !.status = "blocked"]
           q3 == [It EXCEPT !.acceptanceCriteria = c, !.status = v, !.blockedResumeStatus = "none"]
<1>1. It \in B!Task /\ It.status # "absent"
  BY TicketTyped DEF B!UpdateCriterion, B!CanPatchCriterion, It
<1>2. c \in B!Checklist
  BY <1>1 DEF B!Task, B!Checklist
<1>3. B!Requested(1) \in B!Statuses
  BY <1>1 DEF B!Requested, B!Fallback, B!Task, B!Statuses, B!Resumes, It
<1>4. v \in B!Statuses
  BY <1>3 DEF B!Resolve, B!Statuses
<1>5. /\ UNCHANGED ticketId
      /\ \/ B!Save([ticket EXCEPT ![1] = q1])
         \/ B!Save([ticket EXCEPT ![1] = q2])
         \/ B!Save([ticket EXCEPT ![1] = B!DisownedIfIdle(q3)])
  <2>1. B!Save([ticket EXCEPT ![1] = B!CriterionPatched(1, k, s)]) /\ UNCHANGED ticketId
    BY DEF B!UpdateCriterion
  <2>2. B!CriterionPatched(1, k, s) \in {q1, q2, B!DisownedIfIdle(q3)}
    <3>1. CASE s = "blocked"
      BY <3>1 DEF B!CriterionPatched, It
    <3>2. CASE s # "blocked" /\ v = "blocked"
      BY <3>2 DEF B!CriterionPatched, It
    <3>3. CASE s # "blocked" /\ v # "blocked"
      BY <3>3 DEF B!CriterionPatched, It
    <3> QED BY <3>1, <3>2, <3>3
  <2> QED BY <2>1, <2>2
<1>6. B!ResumePoint(It) \in B!Resumes
  BY <1>1, RestingPoint
<1> HIDE DEF c, v
<1>7. /\ q1 \in B!Task /\ q1.status = "blocked"
      /\ q1.lease = It.lease /\ q1.executionSessionId = It.executionSessionId
  BY <1>1, <1>2, <1>6 DEF B!Task, B!Statuses
<1>8. /\ q2 \in B!Task /\ q2.status = "blocked"
      /\ q2.lease = It.lease /\ q2.executionSessionId = It.executionSessionId
  BY <1>1, <1>2 DEF B!Task, B!Statuses
<1>9. /\ q3 \in B!Task /\ q3.status # "absent"
      /\ q3.lease = It.lease /\ q3.executionSessionId = It.executionSessionId
  BY <1>1, <1>2, <1>4 DEF B!Task, B!Statuses, B!Resumes
<1> HIDE DEF q1, q2, q3
<1> QED BY <1>1, <1>5, <1>7, <1>8, <1>9, RewrittenKeeps

LEMMA DeleteKeeps == ASSUME TicketOK, B!DeleteTask(1) PROVE BoardKeeps
<1>1. ticket' \in [B!Tasks -> B!Task] /\ It' = B!NoTask
  BY EmptyTyped, SavedTicket DEF B!DeleteTask
<1> QED BY <1>1, EmptyTyped DEF BoardKeeps, TicketOK

LEMMA LeaseKeeps == ASSUME TicketOK, B!LeaseEnds(1) PROVE BoardKeeps
<1>1. It \in B!Task /\ It.lease = "live"
  BY TicketTyped DEF B!LeaseEnds, It
<1> DEFINE r == [It EXCEPT !.lease = "expired"]
<1>2. r \in B!Task /\ r.lease = "expired" /\ r.status = It.status
  BY <1>1 DEF B!Task
<1>3. ticket' = [ticket EXCEPT ![1] = r] /\ UNCHANGED ticketId
  BY DEF B!LeaseEnds, It
<1> HIDE DEF r
<1>4. ticket' \in [B!Tasks -> B!Task] /\ It' = r
  BY <1>2, <1>3, OneTask DEF TicketOK, It
<1> QED BY <1>2, <1>3, <1>4 DEF BoardKeeps, TicketOK

(* What the release of leases that ended leaves of the task. *)
LEMMA ReleasedTicket ==
    ASSUME TicketOK
    PROVE  /\ B!Released(ticket) \in [B!Tasks -> B!Task]
           /\ B!Released(ticket)[1].status = "absent" <=> It.status = "absent"
           /\ B!Expired(It) => B!Released(ticket)[1].status = "queued"
           /\ ~B!Expired(It) => B!Released(ticket)[1] = It
<1> DEFINE q == [It EXCEPT !.status = "queued"]
<1>1. It \in B!Task
  BY TicketTyped
<1>2. q \in B!Task /\ q.status = "queued"
  BY <1>1 DEF B!Task, B!Statuses
<1>3. B!Released(ticket) = [t \in B!Tasks |-> IF B!Expired(It) THEN B!Disowned(q) ELSE It]
  BY OneTask DEF B!Released, It
<1>4. B!Expired(It) => It.status = "in_progress"
  BY DEF B!Expired
<1> HIDE DEF q
<1> QED BY <1>1, <1>2, <1>3, <1>4, IdleDisowned, OneTask

LEMMA ReleaseKeeps ==
    ASSUME TicketOK, UNCHANGED ticketId, B!Save(B!Released(ticket))
    PROVE  BoardKeeps
<1>1. ticket' = B!Released(ticket) /\ It' = B!Released(ticket)[1]
  BY DEF B!Save, It
<1> QED BY <1>1, ReleasedTicket DEF BoardKeeps, TicketOK, Mine

(* A task that is started or claimed was queued, or of who starts it. *)
LEMMA StartKeeps ==
    ASSUME TicketOK, NEW a \in B!Actor, NoWorker \notin Workers,
           B!StartTaskExecution(1, a) \/ B!ClaimNextTask(1, a)
    PROVE  /\ BoardKeeps
           /\ \A w \in Workers : Mine(w) => a.sessionId = w
           /\ a.sessionId \in Workers => Mine(a.sessionId)'
<1> DEFINE b == B!Released(ticket)
           r == b[1]
           s == B!Started(r, a)
           c == [s EXCEPT !.executionSessionId = a.sessionId]
<1>0. a.agentId \in {DEFAULT_AGENT_ID, "kanban-runner"} /\ a.sessionId \in Workers \cup {NoWorker}
      /\ a.source \in {"session", "runner"}
  BY DEF B!Actor
<1>1. r \in B!Task
  BY ReleasedTicket, OneTask
<1>2. /\ s \in B!Task /\ s.status = "in_progress" /\ s.lease = "live"
      /\ s.executionSessionId = IF a.sessionId # NoWorker THEN a.sessionId ELSE r.executionSessionId
  BY <1>0, <1>1, ZenonT(60) DEF B!Task, B!Started, B!Statuses
<1>3. c \in B!Task /\ c.status = "in_progress" /\ c.lease = "live" /\ c.executionSessionId = a.sessionId
  <2> HIDE DEF s
  <2> QED BY <1>0, <1>2 DEF B!Task
<1>4. PICK x \in {s, c} : ticket' = [b EXCEPT ![1] = x] /\ UNCHANGED ticketId
  BY DEF B!StartTaskExecution, B!ClaimNextTask, B!Save
<1>5. B!CanStart(r, a)
  BY DEF B!StartTaskExecution, B!ClaimNextTask, B!CanStart
<1>6. It.status # "absent"
  BY <1>5, ReleasedTicket DEF B!CanStart
<1>7. ticket' \in [B!Tasks -> B!Task] /\ It' = x
  <2> HIDE DEF s, c, b
  <2>1. b \in [B!Tasks -> B!Task]
    BY ReleasedTicket DEF b
  <2> QED BY <1>2, <1>3, <1>4, <2>1, OneTask DEF It
<1>8. ASSUME NEW w \in Workers, Mine(w)
      PROVE  a.sessionId = w
  <2>1. r = It
    BY <1>8, ReleasedTicket DEF Mine, B!Expired
  <2> HIDE DEF r
  <2> QED BY <1>5, <1>8, <2>1 DEF Mine, B!CanStart, B!IsOwner
<1>9. a.sessionId \in Workers => Mine(a.sessionId)'
  <2> HIDE DEF s, c
  <2> QED BY <1>2, <1>3, <1>7 DEF Mine
<1>10. TicketOK'
  BY <1>4, <1>6, <1>7 DEF TicketOK
<1> QED BY <1>8, <1>9, <1>10 DEF BoardKeeps

LEMMA OthersRemembered ==
    ASSUME ToolInv, NEW new, Remembered(new), BoardKeeps
    PROVE  /\ over' \in [Workers -> BOOLEAN]
           /\ \A w \in Workers \ new : ~over'[w] => ~over[w] /\ (Mine(w) => Mine(w)')
<1>1. \A w \in Workers : over'[w] = (w \notin new /\
         (over[w] \/ It'.lease = "expired" \/ It'.status \notin {"in_progress", "blocked"}))
  BY DEF Remembered
<1>2. over' \in [Workers -> BOOLEAN]
  BY <1>1, Zenon DEF Remembered
<1> QED BY <1>1, <1>2 DEF BoardKeeps

LEMMA MineAlone ==
    ASSUME NEW v \in Workers, NEW w \in Workers, Mine(v), Mine(w)
    PROVE  v = w
BY DEF Mine

(* A step of the board for nobody. *)
LEMMA NobodyGains ==
    ASSUME ToolInv, BoardKeeps, Remembered({}), UNCHANGED holds, NEW w \in Workers,
           NEW x \in ToolStates, tool' = [tool EXCEPT ![w] = x],
           x.step \in {"ok", "patch"} /\ x.mine => tool[w].mine /\ tool[w].step \in {"ok", "patch"},
           x.step # "conflict"
    PROVE  ToolInv'
<1>1. /\ over' \in [Workers -> BOOLEAN]
      /\ \A v \in Workers : ~over'[v] => ~over[v] /\ (Mine(v) => Mine(v)')
  BY OthersRemembered
<1>2. tool' \in [Workers -> ToolStates] /\ \A v \in Workers : tool'[v] = IF v = w THEN x ELSE tool[v]
  BY DEF ToolInv
<1>3. HoldInv'
  <2> SUFFICES ASSUME NEW v \in Workers, ~over'[v],
                      holds'[v] \/ (tool'[v].mine /\ tool'[v].step \in {"ok", "patch"})
               PROVE  Mine(v)'
    BY DEF HoldInv
  <2>1. ~over[v] /\ (Mine(v) => Mine(v)')
    BY <1>1
  <2>2. holds[v] \/ (tool[v].mine /\ tool[v].step \in {"ok", "patch"})
    <3>1. CASE holds'[v]
      BY <3>1, Zenon
    <3>2. CASE tool'[v].mine /\ tool'[v].step \in {"ok", "patch"} /\ v = w
      BY <1>2, <3>2
    <3>3. CASE tool'[v].mine /\ tool'[v].step \in {"ok", "patch"} /\ v # w
      BY <1>2, <3>3
    <3> QED BY <3>1, <3>2, <3>3
  <2> QED BY <2>1, <2>2 DEF HoldInv, ToolInv
<1>4. ToldOff'
  BY <1>1, <1>2 DEF ToldOff, ToolInv
<1> QED BY <1>1, <1>2, <1>3, <1>4 DEF ToolInv, BoardKeeps

(* A step that gives w the task. *)
LEMMA OneGains ==
    ASSUME ToolInv, BoardKeeps, NEW w \in Workers, Remembered({w}), UNCHANGED holds,
           NEW x \in ToolStates, tool' = [tool EXCEPT ![w] = x], x.step # "conflict",
           \A v \in Workers : Mine(v) => v = w, Mine(w)'
    PROVE  ToolInv'
<1>1. /\ over' \in [Workers -> BOOLEAN]
      /\ \A v \in Workers \ {w} : ~over'[v] => ~over[v] /\ (Mine(v) => Mine(v)')
  BY OthersRemembered
<1>2. tool' \in [Workers -> ToolStates] /\ \A v \in Workers : tool'[v] = IF v = w THEN x ELSE tool[v]
  BY DEF ToolInv
<1>3. HoldInv'
  BY <1>1, <1>2 DEF HoldInv, ToolInv
<1>4. ToldOff'
  BY <1>1, <1>2 DEF ToldOff, ToolInv
<1> QED BY <1>1, <1>2, <1>3, <1>4 DEF ToolInv, BoardKeeps

LEMMA StillKeeps ==
    ASSUME TicketOK, UNCHANGED <<ticket, ticketId>>
    PROVE  BoardKeeps
BY DEF BoardKeeps, TicketOK, Mine, It

(* Only the call of w goes on, for the board is not asked. *)
LEMMA CallMoves ==
    ASSUME ToolInv, UNCHANGED <<ticket, ticketId, over>>, NEW w \in Workers,
           NEW x \in ToolStates, tool' = [tool EXCEPT ![w] = x],
           NEW h \in BOOLEAN, holds' = [holds EXCEPT ![w] = h],
           ~over[w] /\ (h \/ (x.mine /\ x.step \in {"ok", "patch"})) => Mine(w),
           x.step = "conflict" /\ x.name # "start" => ~h \/ over[w]
    PROVE  ToolInv'
<1>1. BoardKeeps /\ \A v \in Workers : Mine(v)' <=> Mine(v)
  BY StillKeeps DEF ToolInv, Mine, It
<1>2. tool' \in [Workers -> ToolStates] /\ \A v \in Workers : tool'[v] = IF v = w THEN x ELSE tool[v]
  BY DEF ToolInv
<1>3. holds' \in [Workers -> BOOLEAN] /\ \A v \in Workers : holds'[v] = IF v = w THEN h ELSE holds[v]
  BY DEF ToolInv
<1>4. HoldInv'
  BY <1>1, <1>2, <1>3 DEF HoldInv, ToolInv
<1>5. ToldOff'
  BY <1>1, <1>2, <1>3 DEF ToldOff, ToolInv
<1> QED BY <1>1, <1>2, <1>3, <1>4, <1>5 DEF ToolInv, BoardKeeps

LEMMA SelfActs == ASSUME NEW w \in Workers PROVE Me(w) \in B!Actor /\ Me(w).sessionId = w
BY DEF Me, B!Actor

LEMMA PatchesTyped == ASSUME TicketOK PROVE B!Patches(1) \subseteq B!Checklist
BY TicketTyped, FreshTyped DEF B!Patches, B!Task, It

(* ToolStates that the board answers. *)
LEMMA BoardTurn ==
    ASSUME ToolInv, NEW w \in Workers,
           \/ StartsTask(w) \/ PatchesToo(w) \/ Claims(w)
           \/ NothingToClaim(w) \/ Lists(w) \/ Works(w)
    PROVE  ToolInv'
<1> USE ToolBounds
<1>0. TicketOK /\ tool[w] \in ToolStates
  BY DEF ToolInv
<1>1. ASSUME NEW step \in {"ok", "empty", "patch"}, NEW mine \in BOOLEAN,
             mine => tool[w].name \in {"start", "claim"}
      PROVE  /\ [tool[w] EXCEPT !.step = step, !.mine = mine] \in ToolStates
             /\ [tool[w] EXCEPT !.step = step, !.mine = mine].step = step
             /\ [tool[w] EXCEPT !.step = step, !.mine = mine].mine = mine
  <2> DEFINE c == [tool[w] EXCEPT !.step = step, !.mine = mine]
  <2>1. /\ c \in [name : ToolNames \cup {"none"}, mine : BOOLEAN,
                  step : {"sent", "patch", "ok", "empty", "conflict", "error", "told"}]
        /\ c.step = step /\ c.mine = mine /\ c.name = tool[w].name
    BY <1>0 DEF ToolStates
  <2> HIDE DEF c
  <2>2. c \in ToolStates
    BY <1>1, <2>1 DEF ToolStates
  <2> QED BY <2>1, <2>2 DEF c
<1>2. ASSUME NEW step \in {"ok", "patch"}, Done(w, step, TRUE), tool[w].name \in {"start", "claim"},
             B!StartTaskExecution(1, Me(w)) \/ B!ClaimNextTask(1, Me(w))
      PROVE  ToolInv'
  <2> DEFINE x == [tool[w] EXCEPT !.step = step, !.mine = TRUE]
  <2>1. x \in ToolStates /\ x.step = step
    BY <1>1, <1>2
  <2>2. tool' = [tool EXCEPT ![w] = x] /\ Remembered({w}) /\ UNCHANGED holds
    BY <1>0, <1>2 DEF Done, ToolInv
  <2>3. BoardKeeps /\ (\A v \in Workers : Mine(v) => v = w) /\ Mine(w)'
    <3>1. Me(w) \in B!Actor /\ Me(w).sessionId = w
      BY SelfActs
    <3>2. /\ BoardKeeps /\ \A v \in Workers : Mine(v) => Me(w).sessionId = v
          /\ Me(w).sessionId \in Workers => Mine(Me(w).sessionId)'
      BY <1>0, <1>2, <3>1, StartKeeps
    <3> QED BY <3>1, <3>2
  <2> HIDE DEF x
  <2> QED BY <2>1, <2>2, <2>3, OneGains
<1>3. ASSUME NEW step \in {"ok", "empty"}, Done(w, step, FALSE), BoardKeeps
      PROVE  ToolInv'
  <2> DEFINE x == [tool[w] EXCEPT !.step = step, !.mine = FALSE]
  <2>1. x \in ToolStates /\ x.step = step /\ ~x.mine
    BY <1>1
  <2>2. tool' = [tool EXCEPT ![w] = x] /\ Remembered({}) /\ UNCHANGED holds
    BY <1>0, <1>3 DEF Done, ToolInv
  <2> HIDE DEF x
  <2> QED BY <1>3, <2>1, <2>2, NobodyGains
<1>4. CASE StartsTask(w)
  BY <1>2, <1>4 DEF StartsTask
<1>5. CASE Claims(w)
  BY <1>2, <1>5 DEF Claims
<1>6. CASE PatchesToo(w)
  <2> DEFINE x == [tool[w] EXCEPT !.step = "ok"]
  <2>1. x \in ToolStates /\ x.step = "ok" /\ x.mine = tool[w].mine
    BY <1>0 DEF ToolStates
  <2>2. /\ tool' = [tool EXCEPT ![w] = x] /\ Remembered({}) /\ UNCHANGED holds
        /\ tool[w].step = "patch"
    BY <1>0, <1>6 DEF PatchesToo, ToolInv
  <2>3. BoardKeeps
    <3>1. PICK c \in B!Patches(1) : B!UpdateTask(1, It.status, c)
      BY <1>6 DEF PatchesToo, B!UpdateTaskFromExecution
    <3>2. It.status \in B!Statuses \cup {"absent"} /\ c \in B!Checklist
      BY <1>0, TicketTyped, PatchesTyped DEF B!Task
    <3> QED BY <1>0, <3>1, <3>2, UpdateKeeps
  <2> HIDE DEF x
  <2> QED BY <2>1, <2>2, <2>3, NobodyGains
<1>7. CASE NothingToClaim(w)
  <2>1. BoardKeeps
    BY <1>0, <1>7, ReleaseKeeps, StillKeeps DEF NothingToClaim
  <2> QED BY <1>3, <1>7, <2>1 DEF NothingToClaim
<1>8. CASE Lists(w)
  <2>1. BoardKeeps
    BY <1>0, <1>8, ReleaseKeeps, StillKeeps DEF Lists, B!ListTasks
  <2> QED BY <1>3, <1>8, <2>1 DEF Lists
<1>9. CASE Works(w)
  <2>1. ASSUME NEW s \in B!Statuses, NEW c \in {FreshMarks}, ticketId = 1, B!CreateTask(s, c)
        PROVE  BoardKeeps
    BY <1>0, <2>1, FreshTyped, TicketCreated
  <2>2. ASSUME NEW s \in B!Statuses, NEW c \in B!Patches(1) \cup {It.acceptanceCriteria},
               B!UpdateTaskFromExecution(1, Me(w), s, c)
        PROVE  BoardKeeps
    <3>1. B!UpdateTask(1, s, c)
      BY <2>2 DEF B!UpdateTaskFromExecution
    <3>2. c \in B!Checklist /\ s # "absent"
      BY <1>0, PatchesTyped, TicketTyped DEF B!Statuses, B!Task
    <3> QED BY <1>0, <3>1, <3>2, UpdateKeeps
  <2>3. ASSUME NEW k \in Marks, NEW s \in {"pending", "done", "blocked"},
               B!UpdateCriterionFromExecution(1, Me(w), k, s)
        PROVE  BoardKeeps
    BY <1>0, <2>3, CriterionKeeps DEF B!UpdateCriterionFromExecution
  <2>4. {"done", "blocked"} \subseteq B!Statuses
    BY DEF B!Statuses
  <2>5. BoardKeeps
    BY <1>9, <2>1, <2>2, <2>3, <2>4 DEF Works
  <2> QED BY <1>3, <1>9, <2>5 DEF Works
<1> QED BY <1>4, <1>5, <1>6, <1>7, <1>8, <1>9

(* ToolStates that the board is not changed by. *)
LEMMA CallTurn ==
    ASSUME ToolInv, NEW w \in Workers,
           \/ \E name \in ToolNames : CallsTool(w, name)
           \/ Conflicts(w) \/ ToolRefused(w) \/ Unheard(w) \/ ToolTold(w)
    PROVE  ToolInv'
<1> USE ToolBounds
<1>0. /\ tool[w] \in ToolStates /\ holds[w] \in BOOLEAN /\ holds = [holds EXCEPT ![w] = holds[w]]
      /\ ~over[w] /\ (holds[w] \/ (tool[w].mine /\ tool[w].step \in {"ok", "patch"})) => Mine(w)
      /\ UNCHANGED <<ticket, ticketId, over>>
  BY DEF ToolInv, HoldInv, CallsTool, Conflicts, ToolRefused, Unheard, ToolTold
<1>1. ASSUME NEW name \in ToolNames, CallsTool(w, name)
      PROVE  ToolInv'
  <2> DEFINE x == [name |-> name, step |-> "sent", mine |-> FALSE]
  <2>1. x \in ToolStates /\ x.step = "sent" /\ ~x.mine
    BY DEF ToolStates
  <2>2. tool' = [tool EXCEPT ![w] = x] /\ holds' = [holds EXCEPT ![w] = holds[w]]
    BY <1>0, <1>1 DEF CallsTool
  <2> HIDE DEF x
  <2> QED BY <1>0, <2>1, <2>2, CallMoves
<1>2. ASSUME ToolRefused(w) \/ Unheard(w)
      PROVE  ToolInv'
  <2> DEFINE x == [tool[w] EXCEPT !.step = "error"]
  <2>1. x \in ToolStates /\ x.step = "error"
    BY <1>0 DEF ToolStates
  <2>2. tool' = [tool EXCEPT ![w] = x] /\ holds' = [holds EXCEPT ![w] = holds[w]]
    BY <1>0, <1>2 DEF ToolRefused, Unheard, ToolInv
  <2> HIDE DEF x
  <2> QED BY <1>0, <2>1, <2>2, CallMoves
<1>3. CASE Conflicts(w)
  <2> DEFINE x == [tool[w] EXCEPT !.step = "conflict"]
  <2>1. x \in ToolStates /\ x.step = "conflict" /\ x.name = tool[w].name
    BY <1>0 DEF ToolStates
  <2>2. tool' = [tool EXCEPT ![w] = x] /\ holds' = [holds EXCEPT ![w] = holds[w]]
    BY <1>0, <1>3 DEF Conflicts, ToolInv
  <2>3. tool[w].name # "start" => ~Mine(w)
    <3> SUFFICES ASSUME tool[w].name # "start", Mine(w) PROVE FALSE
      OBVIOUS
    <3>1. ~B!IsOwner(It, Me(w))
      BY <1>3 DEF Conflicts
    <3> QED BY <3>1, SelfActs DEF B!IsOwner, Mine
  <2> HIDE DEF x
  <2>4. x.name # "start" => ~holds[w] \/ over[w]
    <3>1. ~over[w] /\ holds[w] => Mine(w)
      BY <1>0, Zenon
    <3> QED BY <2>1, <2>3, <3>1, Zenon
  <2>5. ~over[w] /\ (holds[w] \/ (x.mine /\ x.step \in {"ok", "patch"})) => Mine(w)
    BY <1>0, <2>1
  <2> QED BY <1>0, <2>1, <2>2, <2>4, <2>5, CallMoves
<1>4. CASE ToolTold(w)
  <2> DEFINE h == IF tool[w].step = "ok" /\ tool[w].mine THEN TRUE
                  ELSE IF \/ tool[w].step = "ok" /\ tool[w].name \in {"complete", "block"}
                          \/ tool[w].step = "conflict" THEN FALSE
                  ELSE holds[w]
  <2>1. NoTool \in ToolStates /\ ~NoTool.mine /\ NoTool.step = "told"
    BY DEF NoTool, ToolStates
  <2>2. tool' = [tool EXCEPT ![w] = NoTool] /\ holds' = [holds EXCEPT ![w] = h]
    BY <1>4 DEF ToolTold, ToolInv
  <2>3. \/ tool[w].step = "ok" /\ tool[w].mine /\ h = TRUE
        \/ h = holds[w]
        \/ h = FALSE
    <3>1. CASE tool[w].step = "ok" /\ tool[w].mine
      <4>1. ~(tool[w].name \in {"complete", "block"}) /\ tool[w].step # "conflict"
        BY <1>0, <3>1 DEF ToolStates
      <4>2. h = TRUE
        BY <3>1, <4>1, Zenon
      <4> HIDE DEF h
      <4> QED BY <3>1, <4>2
    <3>2. CASE tool[w].step # "ok" /\ tool[w].step # "conflict"
      BY <3>2
    <3>3. CASE tool[w].step = "conflict"
      BY <3>3
    <3>4. CASE tool[w].step = "ok" /\ ~tool[w].mine /\ tool[w].name \in {"complete", "block"}
      BY <3>4
    <3>5. CASE tool[w].step = "ok" /\ ~tool[w].mine /\ tool[w].name \notin {"complete", "block"}
      BY <3>5
    <3> QED BY <3>1, <3>2, <3>3, <3>4, <3>5
  <2> HIDE DEF h
  <2>4. h \in BOOLEAN
    BY <1>0, <2>3
  <2>5. ~over[w] /\ h => Mine(w)
    <3>1. CASE tool[w].step = "ok" /\ tool[w].mine
      BY <1>0, <3>1
    <3>2. CASE h = holds[w]
      <4>1. ~over[w] /\ holds[w] => Mine(w)
        BY <1>0, Zenon
      <4> QED BY <3>2, <4>1, Zenon
    <3>3. CASE h = FALSE
      BY <3>3, Zenon
    <3> QED BY <2>3, <3>1, <3>2, <3>3, Zenon
  <2> QED BY <1>0, <2>1, <2>2, <2>4, <2>5, CallMoves
<1> QED BY <1>1, <1>2, <1>3, <1>4

LEMMA MeddlesKeep == ASSUME ToolInv, Meddles PROVE ToolInv'
<1> USE ToolBounds
<1>0. TicketOK /\ Remembered({}) /\ UNCHANGED <<tool, holds>>
  BY DEF ToolInv, Meddles
<1>1. BoardKeeps
  <2>1. CASE B!App(1)
    <3>1. CASE 1 = ticketId /\ \E s \in B!Statuses, c \in {FreshMarks} : B!CreateTask(s, c)
      BY <1>0, <3>1, FreshTyped, TicketCreated
    <3>2. CASE \E s \in B!Statuses, c \in B!Patches(1) : B!UpdateTask(1, s, c)
      <4>1. \A s \in B!Statuses : s # "absent"
        BY DEF B!Statuses
      <4> QED BY <1>0, <3>2, <4>1, PatchesTyped, UpdateKeeps
    <3>3. CASE \E k \in Marks, s \in {"pending", "done", "blocked"} : B!UpdateCriterion(1, k, s)
      BY <1>0, <3>3, CriterionKeeps
    <3> QED BY <1>0, <2>1, <3>1, <3>2, <3>3, DeleteKeeps DEF B!App
  <2>2. CASE \E a \in B!RunnerActors : B!StartTaskExecution(1, a) \/ B!ClaimNextTask(1, a)
    BY <1>0, <2>2, StartKeeps DEF B!RunnerActors
  <2> QED BY <1>0, <2>1, <2>2, LeaseKeeps DEF Meddles
<1>2. /\ over' \in [Workers -> BOOLEAN]
      /\ \A v \in Workers : ~over'[v] => ~over[v] /\ (Mine(v) => Mine(v)')
  BY <1>0, <1>1, OthersRemembered
<1> QED BY <1>0, <1>1, <1>2 DEF ToolInv, HoldInv, ToldOff, BoardKeeps

LEMMA ToolsStart == ASSUME ToolsInit PROVE ToolInv
<1>1. /\ ticket \in [B!Tasks -> B!Task] /\ (ticketId = 1 => It.status = "absent")
  <2>1. CASE B!BoardInit
    BY <2>1, EmptyTyped, OneTask DEF B!BoardInit, It
  <2>2. CASE ~B!BoardInit
    <3> DEFINE r == [B!NoTask EXCEPT !.status = "queued", !.acceptanceCriteria = FreshMarks]
    <3>1. r \in B!Task
      BY EmptyTyped, FreshTyped, ZenonT(60) DEF B!Task, B!Statuses
    <3>2. ticket = [t \in B!Tasks |-> r] /\ ticketId = 2
      BY <2>2 DEF ToolsInit
    <3> HIDE DEF r
    <3> QED BY <3>1, <3>2
  <2> QED BY <2>1, <2>2
<1>2. NoTool \in ToolStates /\ ~NoTool.mine /\ NoTool.step = "told"
  BY DEF NoTool, ToolStates
<1> QED BY <1>1, <1>2 DEF ToolsInit, ToolInv, TicketOK, HoldInv, ToldOff

LEMMA ToolsStep == ASSUME ToolInv, [ToolsNext]_tools PROVE ToolInv'
<1>1. CASE UNCHANGED tools
  BY <1>1 DEF tools, ToolInv, TicketOK, HoldInv, ToldOff, Mine, It
<1>2. ASSUME NEW w \in Workers,
             \/ \E name \in ToolNames : CallsTool(w, name)
             \/ StartsTask(w) \/ PatchesToo(w) \/ Claims(w) \/ NothingToClaim(w) \/ Lists(w) \/ Works(w)
             \/ Conflicts(w) \/ ToolRefused(w) \/ Unheard(w) \/ ToolTold(w)
      PROVE  ToolInv'
  <2>1. CASE \E name \in ToolNames : CallsTool(w, name)
    BY <2>1, CallTurn
  <2>2. CASE Conflicts(w) \/ ToolRefused(w) \/ Unheard(w) \/ ToolTold(w)
    BY <2>2, CallTurn
  <2> QED BY <1>2, <2>1, <2>2, BoardTurn
<1>3. CASE ToolsNext
  <2>1. CASE Meddles
    BY <2>1, MeddlesKeep
  <2>2. CASE ~Meddles
    BY <1>2, <1>3, <2>2, Zenon DEF ToolsNext
  <2> QED BY <2>1, <2>2
<1> QED BY <1>1, <1>3

LEMMA HoldersDiffer == ASSUME ToolInv PROVE OneWorks
<1>1. ASSUME NEW v \in Workers, NEW w \in Workers, v # w, holds[v], holds[w], ~over[v], ~over[w]
      PROVE  FALSE
  <2>1. Mine(v) /\ Mine(w)
    BY <1>1, Zenon DEF ToolInv, HoldInv
  <2> QED BY <1>1, <2>1, MineAlone
<1>2. ToldOff
  BY DEF ToolInv
<1> QED BY <1>1, <1>2, Zenon DEF ToldOff, OneWorks

-----------------------------------------------------------------------------
(* Prompts in OpenCode's sessions *)

CallRecords == [at : {"idle", "checking", "aborting", "creating", "posting", "waiting", "settling"},
                session : Nat, call : Nat, outcome : {"none", "done", "partial", "failed"}]
RunRecords == [session : Nat, caller : Callers \cup {"runner"}, call : Nat]

(* Where a call has not sent its message yet. *)
NotPosted == {"checking", "aborting", "creating", "posting"}

(* A run that goes on belongs to a call that began, in its session and     *)
(* after its message was sent; a call under way has no outcome.            *)
RunsInv ==
    \A c \in Callers :
        /\ \A r \in agent.runs : r.caller = c => r.call <= calls[c].call
        /\ calls[c].at \in NotPosted => ~Runs(c)
        /\ \A r \in agent.runs : r.caller = c /\ r.call = calls[c].call => r.session = calls[c].session
        /\ calls[c].at # "idle" => calls[c].outcome = "none"

TalkTyped ==
    /\ agent \in [made : Nat, runs : SUBSET RunRecords]
    /\ client \in [selected : Nat, routes : SUBSET Nat]
    /\ calls \in [Callers -> CallRecords]

TalkInv == TalkTyped /\ RunsInv /\ DoneIsOver

LEMMA TalkStarts == ASSUME SessionsInit PROVE TalkInv
BY DEF SessionsInit, TalkInv, TalkTyped, RunsInv, DoneIsOver, Runs, CallRecords, RunRecords, NoSession

(* Runs that end disturb nothing. *)
LEMMA FewerRuns ==
    ASSUME TalkInv, agent' \in [made : Nat, runs : SUBSET RunRecords],
           \A r \in agent'.runs : r \in agent.runs \/ r.caller = "runner",
           client' \in [selected : Nat, routes : SUBSET Nat], NEW c \in Callers, NEW x \in CallRecords,
           calls' = [calls EXCEPT ![c] = x],
           x.call = calls[c].call,
           x.at \in NotPosted => calls[c].at \in NotPosted,
           x.session = calls[c].session \/ calls[c].at \in NotPosted,
           x.at # "idle" => x.outcome = "none",
           x.outcome = "done" => ~Runs(c) \/ calls[c].outcome = "done"
    PROVE  TalkInv'
<1>1. calls' \in [Callers -> CallRecords] /\ \A d \in Callers : calls'[d] = IF d = c THEN x ELSE calls[d]
  BY DEF TalkInv, TalkTyped
<1>2. \A d \in Callers : Runs(d)' => Runs(d)
  BY <1>1 DEF Runs, Callers
<1>3. \A r \in agent'.runs, d \in Callers : r.caller = d => r \in agent.runs
  BY DEF Callers
<1>4. RunsInv'
  <2> SUFFICES ASSUME NEW d \in Callers
               PROVE  /\ \A r \in agent'.runs : r.caller = d => r.call <= calls'[d].call
                      /\ calls'[d].at \in NotPosted => ~Runs(d)'
                      /\ \A r \in agent'.runs : r.caller = d /\ r.call = calls'[d].call => r.session = calls'[d].session
                      /\ calls'[d].at # "idle" => calls'[d].outcome = "none"
    BY DEF RunsInv
  <2>1. /\ \A r \in agent.runs : r.caller = d => r.call <= calls[d].call
        /\ calls[d].at \in NotPosted => ~Runs(d)
        /\ \A r \in agent.runs : r.caller = d /\ r.call = calls[d].call => r.session = calls[d].session
        /\ calls[d].at # "idle" => calls[d].outcome = "none"
    BY DEF TalkInv, RunsInv
  <2>2. calls[d].at \in NotPosted => \A r \in agent.runs : ~(r.caller = d /\ r.call = calls[d].call)
    BY <2>1 DEF Runs
  <2> QED BY <1>1, <1>2, <1>3, <2>1, <2>2
<1>5. DoneIsOver'
  BY <1>1, <1>2 DEF TalkInv, DoneIsOver
<1> QED BY <1>1, <1>4, <1>5 DEF TalkInv, TalkTyped

LEMMA CallsSame ==
    ASSUME TalkInv, UNCHANGED calls
    PROVE  \E c \in Callers : calls[c] \in CallRecords /\ calls' = [calls EXCEPT ![c] = calls[c]]
<1>1. "queue" \in Callers
  BY DEF Callers
<1> QED BY <1>1 DEF TalkInv, TalkTyped

LEMMA OthersTalk ==
    ASSUME TalkInv,
           \/ RunEnds \/ StartNewSession \/ SelectSession \/ StopActiveSession
           \/ RepairBegins \/ RepairAborts \/ RepairEnds \/ RunnerTakesSession
    PROVE  TalkInv'
<1> USE SessionBounds
<1>0. agent \in [made : Nat, runs : SUBSET RunRecords] /\ client \in [selected : Nat, routes : SUBSET Nat]
  BY DEF TalkInv, TalkTyped
<1>1. /\ agent' \in [made : Nat, runs : SUBSET RunRecords]
      /\ \A r \in agent'.runs : r \in agent.runs \/ r.caller = "runner"
  <2>1. CASE RunnerTakesSession
    <3> DEFINE r == [session |-> agent.made + 1, caller |-> "runner", call |-> 0]
    <3>1. agent.made + 1 \in Nat
      BY <1>0
    <3>2. r \in RunRecords /\ r.caller = "runner"
      BY <3>1 DEF RunRecords
    <3>3. agent' = [made |-> agent.made + 1, runs |-> agent.runs \cup {r}]
      BY <2>1 DEF RunnerTakesSession
    <3> HIDE DEF r
    <3> QED BY <1>0, <3>1, <3>2, <3>3
  <2>2. CASE StartNewSession
    BY <1>0, <2>2 DEF StartNewSession, Make
  <2>3. CASE RunEnds
    BY <1>0, <2>3 DEF RunEnds
  <2>4. CASE StopActiveSession \/ RepairAborts
    BY <1>0, <2>4 DEF StopActiveSession, RepairAborts, Without
  <2>5. CASE SelectSession \/ RepairBegins \/ RepairEnds
    BY <1>0, <2>5 DEF SelectSession, RepairBegins, RepairEnds
  <2> QED BY <2>1, <2>2, <2>3, <2>4, <2>5
<1>2. client' \in [selected : Nat, routes : SUBSET Nat]
  <2>1. CASE RepairEnds
    <3> DEFINE s == IF client.selected \in repair.aborted THEN NoSession ELSE client.selected
    <3>1. s \in Nat
      BY <1>0 DEF NoSession
    <3>2. client' = [client EXCEPT !.selected = s]
      BY <2>1 DEF RepairEnds
    <3> HIDE DEF s
    <3> QED BY <1>0, <3>1, <3>2
  <2>2. CASE SelectSession
    <3>1. PICK s \in 1 .. agent.made : client' = [selected |-> s, routes |-> client.routes \cup {s}]
      BY <2>2 DEF SelectSession, Selected
    <3>2. s \in Nat
      BY <1>0
    <3> QED BY <1>0, <3>1, <3>2
  <2>3. CASE StartNewSession \/ RunnerTakesSession
    BY <1>0, <1>1, <2>3 DEF StartNewSession, RunnerTakesSession, Selected
  <2> QED BY <1>0, <2>1, <2>2, <2>3 DEF RunEnds, StopActiveSession, RepairBegins, RepairAborts
<1>3. UNCHANGED calls
  BY DEF RunEnds, StartNewSession, SelectSession, StopActiveSession, RepairBegins, RepairAborts,
         RepairEnds, RunnerTakesSession
<1>4. PICK c \in Callers : calls[c] \in CallRecords /\ calls' = [calls EXCEPT ![c] = calls[c]]
  BY <1>3, CallsSame
<1>5. (calls[c].outcome = "done" => ~Runs(c)) /\ (calls[c].at # "idle" => calls[c].outcome = "none")
  BY DEF TalkInv, DoneIsOver, RunsInv
<1> QED BY <1>1, <1>2, <1>4, <1>5, FewerRuns

LEMMA CallersTalk ==
    ASSUME TalkInv, NEW c \in Callers,
           \/ CallBegins(c) \/ BusyChecked(c) \/ BusyAborted(c) \/ SessionMade(c)
           \/ RequestFails(c) \/ Posted(c) \/ Answered(c) \/ EmptyAnswer(c)
           \/ FetchFails(c) \/ RunSettles(c) \/ SettleTimesOut(c)
    PROVE  TalkInv'
<1> USE SessionBounds
<1>0. /\ agent \in [made : Nat, runs : SUBSET RunRecords] /\ client \in [selected : Nat, routes : SUBSET Nat]
      /\ calls[c] \in CallRecords /\ calls \in [Callers -> CallRecords]
  BY DEF TalkInv, TalkTyped
<1>1. /\ calls[c].at \in NotPosted => ~Runs(c)
      /\ calls[c].at # "idle" => calls[c].outcome = "none"
  BY DEF TalkInv, RunsInv
<1>2. CASE CallBegins(c)
  <2> DEFINE n == calls[c].call + 1
             x == [at |-> IF client.selected = NoSession THEN "creating" ELSE "checking",
                   session |-> client.selected, call |-> n, outcome |-> "none"]
  <2>1. calls' = [calls EXCEPT ![c] = x] /\ UNCHANGED <<agent, client>>
    BY <1>2 DEF CallBegins
  <2>2. n \in Nat /\ n > calls[c].call
    BY <1>0 DEF CallRecords
  <2>3. x \in CallRecords /\ x.call = n /\ x.outcome = "none" /\ x.at # "idle"
    <3> HIDE DEF n
    <3> QED BY <1>0, <2>2 DEF CallRecords
  <2> HIDE DEF x, n
  <2>4. calls' \in [Callers -> CallRecords] /\ \A d \in Callers : calls'[d] = IF d = c THEN x ELSE calls[d]
    BY <1>0, <2>1, <2>3
  <2>5. \A r \in agent.runs : r.caller = c => r.call <= calls[c].call /\ r.call \in Nat
    BY <1>0 DEF TalkInv, RunsInv, RunRecords
  <2>6. \A r \in agent.runs : r.caller = c => r.call # n /\ r.call <= n
    <3>1. calls[c].call \in Nat
      BY <1>0 DEF CallRecords
    <3> QED BY <2>2, <2>5, <3>1
  <2>7. ~Runs(c)' /\ \A d \in Callers : d # c => (Runs(d)' <=> Runs(d))
    BY <2>1, <2>3, <2>4, <2>6 DEF Runs
  <2>8. RunsInv'
    <3> SUFFICES ASSUME NEW d \in Callers
               PROVE  /\ \A r \in agent'.runs : r.caller = d => r.call <= calls'[d].call
                      /\ calls'[d].at \in NotPosted => ~Runs(d)'
                      /\ \A r \in agent'.runs : r.caller = d /\ r.call = calls'[d].call => r.session = calls'[d].session
                      /\ calls'[d].at # "idle" => calls'[d].outcome = "none"
      BY DEF RunsInv
    <3>1. CASE d = c
      BY <2>1, <2>3, <2>4, <2>6, <2>7, <3>1
    <3>2. CASE d # c
      <4>1. /\ \A r \in agent.runs : r.caller = d => r.call <= calls[d].call
            /\ calls[d].at \in NotPosted => ~Runs(d)
            /\ \A r \in agent.runs : r.caller = d /\ r.call = calls[d].call => r.session = calls[d].session
            /\ calls[d].at # "idle" => calls[d].outcome = "none"
        BY DEF TalkInv, RunsInv
      <4>2. calls'[d] = calls[d] /\ agent' = agent
        BY <2>1, <2>4, <3>2
      <4> QED BY <2>7, <3>2, <4>1, <4>2
    <3> QED BY <3>1, <3>2
  <2>9. DoneIsOver'
    BY <2>3, <2>4, <2>7 DEF TalkInv, DoneIsOver
  <2> QED BY <1>0, <2>1, <2>4, <2>8, <2>9 DEF TalkInv, TalkTyped
<1>3. CASE Posted(c)
  <2> DEFINE r == [session |-> calls[c].session, caller |-> c, call |-> calls[c].call]
             x == [calls[c] EXCEPT !.at = "waiting"]
  <2>1. /\ calls[c].at = "posting" /\ agent' = [agent EXCEPT !.runs = @ \cup {r}]
        /\ calls' = [calls EXCEPT ![c] = x] /\ UNCHANGED client
    BY <1>0, <1>3 DEF Posted, CallGoes
  <2>2. /\ r \in RunRecords /\ r.caller = c /\ r.session = calls[c].session /\ r.call = calls[c].call
    BY <1>0 DEF RunRecords, CallRecords
  <2>3. /\ x \in CallRecords /\ x.at = "waiting" /\ x.call = calls[c].call
        /\ x.session = calls[c].session /\ x.outcome = calls[c].outcome
    BY <1>0 DEF CallRecords
  <2> HIDE DEF r, x
  <2>4. calls' \in [Callers -> CallRecords] /\ \A d \in Callers : calls'[d] = IF d = c THEN x ELSE calls[d]
    BY <1>0, <2>1, <2>3
  <2>5. agent' \in [made : Nat, runs : SUBSET RunRecords] /\ agent'.runs = agent.runs \cup {r}
    BY <1>0, <2>1, <2>2
  <2>6. \A d \in Callers : d # c => (Runs(d)' <=> Runs(d))
    BY <2>2, <2>4, <2>5 DEF Runs
  <2>7. calls[c].call \in Nat
    BY <1>0 DEF CallRecords
  <2>8. RunsInv'
    <3> SUFFICES ASSUME NEW d \in Callers
               PROVE  /\ \A k \in agent'.runs : k.caller = d => k.call <= calls'[d].call
                      /\ calls'[d].at \in NotPosted => ~Runs(d)'
                      /\ \A k \in agent'.runs : k.caller = d /\ k.call = calls'[d].call => k.session = calls'[d].session
                      /\ calls'[d].at # "idle" => calls'[d].outcome = "none"
      BY DEF RunsInv
    <3>1. /\ \A k \in agent.runs : k.caller = d => k.call <= calls[d].call
          /\ calls[d].at \in NotPosted => ~Runs(d)
          /\ \A k \in agent.runs : k.caller = d /\ k.call = calls[d].call => k.session = calls[d].session
          /\ calls[d].at # "idle" => calls[d].outcome = "none"
      BY DEF TalkInv, RunsInv
    <3>2. CASE d = c
      <4>1. calls'[d] = x /\ x.at \notin NotPosted
        BY <2>3, <2>4, <3>2 DEF NotPosted
      <4>2. \A k \in agent'.runs : k \in agent.runs \/ k = r
        BY <2>5
      <4> QED BY <1>1, <2>1, <2>2, <2>3, <2>7, <3>1, <3>2, <4>1, <4>2
    <3>3. CASE d # c
      <4>1. calls'[d] = calls[d] /\ \A k \in agent'.runs : k.caller = d => k \in agent.runs
        BY <2>2, <2>4, <2>5, <3>3
      <4> QED BY <2>6, <3>1, <3>3, <4>1
    <3> QED BY <3>2, <3>3
  <2>9. DoneIsOver'
    <3>1. x.outcome = "none"
      BY <1>1, <2>1, <2>3
    <3> QED BY <2>4, <2>6, <3>1 DEF TalkInv, DoneIsOver
  <2> QED BY <1>0, <2>1, <2>4, <2>5, <2>8, <2>9 DEF TalkInv, TalkTyped
<1>4. CASE BusyChecked(c) \/ BusyAborted(c) \/ SessionMade(c)
  <2> DEFINE s == IF SessionMade(c) THEN agent.made + 1 ELSE calls[c].session
  <2>1. s \in Nat
    BY <1>0 DEF CallRecords
  <2>2. /\ agent' \in [made : Nat, runs : SUBSET RunRecords] /\ agent'.runs \subseteq agent.runs
        /\ SessionMade(c) => agent'.made = agent.made + 1
    BY <1>0, <1>4 DEF BusyChecked, BusyAborted, SessionMade, Make, Without
  <2>3. client' \in [selected : Nat, routes : SUBSET Nat]
    <3>1. CASE SessionMade(c)
      BY <1>0, <2>2, <3>1 DEF SessionMade, Selected
    <3>2. CASE BusyChecked(c)
      BY <1>0, <3>2 DEF BusyChecked, CallRecords
    <3>3. CASE BusyAborted(c)
      BY <1>0, <3>3 DEF BusyAborted, NoSession
    <3> QED BY <1>4, <3>1, <3>2, <3>3
  <2>4. PICK at \in NotPosted : calls' = [calls EXCEPT ![c] = [calls[c] EXCEPT !.at = at, !.session = s]]
    <3>1. CASE SessionMade(c)
      <4>1. calls' = [calls EXCEPT ![c] = [calls[c] EXCEPT !.at = "posting", !.session = s]]
        BY <1>0, <2>2, <3>1 DEF SessionMade
      <4> QED BY <4>1 DEF NotPosted
    <3>2. CASE ~SessionMade(c)
      <4>1. PICK at \in NotPosted : calls' = [calls EXCEPT ![c] = [calls[c] EXCEPT !.at = at]]
        BY <1>0, <1>4, <3>2 DEF BusyChecked, BusyAborted, CallGoes, NotPosted
      <4>2. [calls[c] EXCEPT !.at = at] = [calls[c] EXCEPT !.at = at, !.session = s]
        BY <1>0, <3>2 DEF CallRecords
      <4> QED BY <4>1, <4>2
    <3> QED BY <3>1, <3>2
  <2>5. calls[c].at \in NotPosted
    BY <1>4 DEF BusyChecked, BusyAborted, SessionMade, NotPosted
  <2> DEFINE x == [calls[c] EXCEPT !.at = at, !.session = s]
  <2>6. /\ x \in CallRecords /\ x.at = at /\ x.call = calls[c].call /\ x.outcome = calls[c].outcome
    <3> HIDE DEF s
    <3> QED BY <1>0, <2>1 DEF CallRecords, NotPosted
  <2>7. calls[c].outcome = "none"
    BY <1>1, <2>5 DEF NotPosted
  <2> HIDE DEF x, s
  <2>8. calls' = [calls EXCEPT ![c] = x]
    BY <2>4 DEF x
  <2> QED BY <2>2, <2>3, <2>5, <2>6, <2>7, <2>8, FewerRuns
<1>5. CASE RequestFails(c) \/ Answered(c) \/ EmptyAnswer(c) \/ FetchFails(c) \/ RunSettles(c) \/ SettleTimesOut(c)
  <2>1. PICK at \in {"idle", "settling"}, outcome \in {"none", "done", "partial", "failed"} :
           /\ calls' = [calls EXCEPT ![c] = [calls[c] EXCEPT !.at = at, !.outcome = outcome]]
           /\ at = "settling" => outcome = "none"
           /\ outcome = "done" => Answered(c) \/ RunSettles(c)
    <3>1. CASE FetchFails(c) /\ c = "queue"
      <4>1. calls' = [calls EXCEPT ![c] = [calls[c] EXCEPT !.at = "settling"]] /\ calls[c].outcome = "none"
        BY <1>0, <1>1, <3>1 DEF FetchFails, CallGoes
      <4>2. [calls[c] EXCEPT !.at = "settling"] = [calls[c] EXCEPT !.at = "settling", !.outcome = "none"]
        BY <1>0, <4>1 DEF CallRecords
      <4> QED BY <4>1, <4>2
    <3>2. CASE ~(FetchFails(c) /\ c = "queue")
      <4>1. \E outcome \in {"none", "done", "partial", "failed"} :
               CallEnds(c, outcome) /\ (outcome = "done" => Answered(c) \/ RunSettles(c))
        BY <1>5, <3>2 DEF RequestFails, Answered, EmptyAnswer, FetchFails, RunSettles, SettleTimesOut
      <4>2. \A outcome : CallEnds(c, outcome) => calls' = [calls EXCEPT ![c] = [calls[c] EXCEPT !.at = "idle", !.outcome = outcome]]
        BY <1>0 DEF CallEnds
      <4> QED BY <4>1, <4>2
    <3> QED BY <3>1, <3>2
  <2>2. outcome = "done" => ~Runs(c)
    <3>1. CASE RunSettles(c)
      <4>1. \A r \in agent.runs : r.caller = c /\ r.call = calls[c].call => r.session = calls[c].session
        BY DEF TalkInv, RunsInv
      <4> QED BY <3>1, <4>1 DEF RunSettles, Settled, Busy, Runs
    <3>2. CASE Answered(c)
      BY <3>2 DEF Answered
    <3> QED BY <2>1, <3>1, <3>2
  <2> DEFINE x == [calls[c] EXCEPT !.at = at, !.outcome = outcome]
  <2>3. /\ x \in CallRecords /\ x.at = at /\ x.call = calls[c].call /\ x.outcome = outcome
        /\ x.session = calls[c].session
    BY <1>0 DEF CallRecords
  <2>4. UNCHANGED <<agent, client>>
    BY <1>5 DEF RequestFails, Answered, EmptyAnswer, FetchFails, RunSettles, SettleTimesOut
  <2>5. at \notin NotPosted
    BY DEF NotPosted
  <2>6. calls' = [calls EXCEPT ![c] = x]
    BY <2>1
  <2> HIDE DEF x
  <2> QED BY <1>0, <2>1, <2>2, <2>3, <2>4, <2>5, <2>6, FewerRuns
<1> QED BY <1>2, <1>3, <1>4, <1>5

LEMMA TalkStep == ASSUME TalkInv, [SessionsNext]_conversation PROVE TalkInv'
<1>1. CASE UNCHANGED conversation
  BY <1>1 DEF conversation, TalkInv, TalkTyped, RunsInv, DoneIsOver, Runs
<1>2. CASE SessionsNext
  <2>1. CASE \E c \in Callers :
           \/ CallBegins(c) \/ BusyChecked(c) \/ BusyAborted(c) \/ SessionMade(c)
           \/ RequestFails(c) \/ Posted(c) \/ Answered(c) \/ EmptyAnswer(c)
           \/ FetchFails(c) \/ RunSettles(c) \/ SettleTimesOut(c)
    BY <2>1, CallersTalk
  <2> QED BY <1>2, <2>1, OthersTalk DEF SessionsNext
<1> QED BY <1>1, <1>2

-----------------------------------------------------------------------------
(* Questions and permissions *)

StepAnswers == [step : Nat, option : Options \cup {"none"}]
AnswerLists == [1 .. Steps -> StepAnswers]
RequestRoutes == [bound : BOOLEAN, step : 1 .. Steps, answers : AnswerLists]
ButtonPresses == [request : Requests, step : 1 .. Steps, option : Options, press : Nat]
FinalReplies == [press : ButtonPresses, answers : AnswerLists, at : {"listing", "replying", "consuming"}]
Askings == [state : {"none", "pending", "answered", "gone"}, given : Seq(StepAnswers), heard : Nat]

ApprovalTyped ==
    /\ asked \in [Requests -> Askings]
    /\ route \in [Requests -> RequestRoutes]
    /\ chat \in [buttons : SUBSET [request : Requests, step : 1 .. Steps], presses : SUBSET ButtonPresses]
    /\ replies \in SUBSET FinalReplies
    /\ rounds \in [presses : Nat, restarts : Nat]

(* The answers before the step that a request has come to, and all answers *)
(* of a final reply, are of their own steps.                               *)
InOrder(x, r) == x.step <= LastOf(r) /\ \A i \in 1 .. x.step - 1 : x.answers[i].step = i
Whole(y) == \A i \in 1 .. LastOf(y.press.request) : y.answers[i].step = i

ApprovalInv ==
    /\ ApprovalTyped
    /\ \A r \in Requests : InOrder(route[r], r)
    /\ \A y \in replies : Whole(y)
    /\ AnswersOfOwnStep

LEMMA LastIsStep == ASSUME NEW r \in Requests PROVE LastOf(r) \in 1 .. Steps
BY ApprovalBounds DEF LastOf

LEMMA NoRouteWaits ==
    /\ NoRoute \in RequestRoutes /\ [NoRoute EXCEPT !.bound = TRUE] \in RequestRoutes
    /\ \A r \in Requests : InOrder(NoRoute, r) /\ InOrder([NoRoute EXCEPT !.bound = TRUE], r)
<1> USE ApprovalBounds
<1>1. NoAnswer \in StepAnswers /\ 1 \in 1 .. Steps
  BY DEF NoAnswer, StepAnswers
<1>2. [i \in 1 .. Steps |-> NoAnswer] \in AnswerLists
  BY <1>1 DEF AnswerLists
<1>3. /\ NoRoute \in RequestRoutes /\ NoRoute.step = 1
      /\ [NoRoute EXCEPT !.bound = TRUE] \in RequestRoutes /\ [NoRoute EXCEPT !.bound = TRUE].step = 1
  BY <1>1, <1>2 DEF NoRoute, RequestRoutes
<1>4. \A r \in Requests : 1 <= LastOf(r)
  BY LastIsStep
<1> QED BY <1>3, <1>4 DEF InOrder

LEMMA ApprovalStarts == ASSUME ApprovalsInit PROVE ApprovalInv
<1>1. <<>> \in Seq(StepAnswers) /\ DOMAIN <<>> = {}
  BY EmptySeq
<1>2. asked \in [Requests -> Askings] /\ \A r \in Requests : asked[r].given = <<>>
  BY <1>1 DEF ApprovalsInit, Askings
<1> QED BY <1>1, <1>2, NoRouteWaits DEF ApprovalsInit, ApprovalInv, ApprovalTyped, AnswersOfOwnStep

(* A request is asked, withdrawn or announced. *)
LEMMA AskedMoves ==
    ASSUME ApprovalInv, NEW r \in Requests,
           \/ asked' = [asked EXCEPT ![r].state = "pending"]
           \/ asked' = [asked EXCEPT ![r].state = "gone"]
           \/ asked' = [asked EXCEPT ![r].heard = @ + 1]
    PROVE  asked' \in [Requests -> Askings] /\ AnswersOfOwnStep'
<1>1. asked[r] \in Askings
  BY DEF ApprovalInv, ApprovalTyped
<1>2. PICK x \in {[asked[r] EXCEPT !.state = "pending"], [asked[r] EXCEPT !.state = "gone"],
                  [asked[r] EXCEPT !.heard = asked[r].heard + 1]} : asked' = [asked EXCEPT ![r] = x]
  BY DEF ApprovalInv, ApprovalTyped
<1>3. asked[r].heard + 1 \in Nat
  BY <1>1 DEF Askings
<1>4. x \in Askings /\ x.given = asked[r].given
  BY <1>1, <1>2, <1>3 DEF Askings
<1> HIDE DEF Askings
<1> QED BY <1>2, <1>4 DEF ApprovalInv, ApprovalTyped, AnswersOfOwnStep

(* Steps of OpenCode and of time. *)
LEMMA RequestsTurn ==
    ASSUME ApprovalInv, NEW r \in Requests,
           Asks(r) \/ Withdraws(r) \/ Heard(r) \/ HeardFreeText(r) \/ RouteExpires(r)
    PROVE  ApprovalInv'
<1> USE ApprovalBounds
<1>1. /\ asked' \in [Requests -> Askings] /\ AnswersOfOwnStep'
  BY AskedMoves DEF Asks, Withdraws, Heard, HeardFreeText, Announced, RouteExpires,
     ApprovalInv, ApprovalTyped, AnswersOfOwnStep
<1>2. /\ route' \in [Requests -> RequestRoutes] /\ \A q \in Requests : InOrder(route'[q], q)
  <2>1. CASE Heard(r)
    BY <2>1, NoRouteWaits DEF Heard, ApprovalInv, ApprovalTyped
  <2>2. CASE RouteExpires(r)
    BY <2>2, NoRouteWaits DEF RouteExpires, ApprovalInv, ApprovalTyped
  <2> QED BY <2>1, <2>2 DEF Asks, Withdraws, HeardFreeText, ApprovalInv, ApprovalTyped
<1>3. chat' \in [buttons : SUBSET [request : Requests, step : 1 .. Steps], presses : SUBSET ButtonPresses]
  <2>1. CASE Heard(r)
    <3> DEFINE b == {k \in chat.buttons : k.request # r} \cup {[request |-> r, step |-> 1]}
    <3>1. b \in SUBSET [request : Requests, step : 1 .. Steps]
      BY DEF ApprovalInv, ApprovalTyped
    <3>2. chat' = [chat EXCEPT !.buttons = b]
      BY <2>1 DEF Heard
    <3> HIDE DEF b
    <3> QED BY <3>1, <3>2 DEF ApprovalInv, ApprovalTyped
  <2> QED BY <2>1 DEF Asks, Withdraws, HeardFreeText, RouteExpires, ApprovalInv, ApprovalTyped
<1>4. UNCHANGED <<replies, rounds>>
  BY DEF Asks, Withdraws, Heard, HeardFreeText, RouteExpires
<1> QED BY <1>1, <1>2, <1>3, <1>4 DEF ApprovalInv, ApprovalTyped

LEMMA PressKeeps == ASSUME ApprovalInv, Pressed PROVE ApprovalInv'
<1>1. PICK b \in chat.buttons, o \in Options :
         chat' = [chat EXCEPT !.presses = @ \cup
               {[request |-> b.request, step |-> b.step, option |-> o, press |-> rounds.presses + 1]}]
  BY DEF Pressed
<1> DEFINE x == [request |-> b.request, step |-> b.step, option |-> o, press |-> rounds.presses + 1]
<1>2. b \in [request : Requests, step : 1 .. Steps] /\ rounds \in [presses : Nat, restarts : Nat]
  BY DEF ApprovalInv, ApprovalTyped
<1>3. rounds.presses + 1 \in Nat
  BY <1>2
<1>4. x \in ButtonPresses
  BY <1>2, <1>3 DEF ButtonPresses
<1>5. chat' = [chat EXCEPT !.presses = @ \cup {x}]
  BY <1>1
<1> HIDE DEF x
<1>6. chat' \in [buttons : SUBSET [request : Requests, step : 1 .. Steps], presses : SUBSET ButtonPresses]
  BY <1>4, <1>5 DEF ApprovalInv, ApprovalTyped
<1>7. rounds' \in [presses : Nat, restarts : Nat] /\ UNCHANGED <<asked, route, replies>>
  BY <1>2, <1>3 DEF Pressed
<1> QED BY <1>6, <1>7 DEF ApprovalInv, ApprovalTyped, AnswersOfOwnStep

(* What an accepted press adds is the answer of the step it names. *)
LEMMA AnswerAdded ==
    ASSUME ApprovalInv, NEW p \in ButtonPresses, Accepted(p)
    PROVE  /\ AnswersWith(p) \in AnswerLists
           /\ \A i \in 1 .. p.step : AnswersWith(p)[i].step = i
<1> DEFINE r == p.request
           a == [step |-> p.step, option |-> p.option]
<1>1. r \in Requests /\ p.step \in 1 .. Steps /\ p.option \in Options
  BY DEF ButtonPresses
<1>2. route[r] \in RequestRoutes /\ InOrder(route[r], r) /\ route[r].step = p.step
  BY <1>1 DEF ApprovalInv, ApprovalTyped, Accepted
<1>3. a \in StepAnswers /\ a.step = p.step
  BY <1>1 DEF StepAnswers
<1>4. AnswersWith(p) = [route[r].answers EXCEPT ![p.step] = a]
  BY <1>2 DEF AnswersWith
<1> HIDE DEF a, r
<1>5. route[r].answers \in AnswerLists
  BY <1>2 DEF RequestRoutes
<1>6. /\ AnswersWith(p) \in AnswerLists
      /\ \A i \in 1 .. Steps : AnswersWith(p)[i] = IF i = p.step THEN a ELSE route[r].answers[i]
  BY <1>1, <1>3, <1>4, <1>5 DEF AnswerLists
<1>7. \A i \in 1 .. p.step - 1 : route[r].answers[i].step = i
  BY <1>2 DEF InOrder
<1>8. ASSUME NEW i \in 1 .. p.step PROVE AnswersWith(p)[i].step = i
  BY <1>1, <1>3, <1>6, <1>7, ApprovalBounds
<1> QED BY <1>6, <1>8

(* Steps of presses. *)
LEMMA PressesTurn ==
    ASSUME ApprovalInv, NEW p \in chat.presses, Refused(p) \/ Advanced(p) \/ Completed(p)
    PROVE  ApprovalInv'
<1> USE ApprovalBounds
<1> DEFINE r == p.request
<1>0. /\ p \in ButtonPresses /\ r \in Requests /\ p.step \in 1 .. Steps /\ LastOf(r) \in 1 .. Steps
      /\ route[r] \in RequestRoutes
  BY LastIsStep DEF ApprovalInv, ApprovalTyped, ButtonPresses
<1>1. CASE Refused(p)
  <2>1. chat' \in [buttons : SUBSET [request : Requests, step : 1 .. Steps], presses : SUBSET ButtonPresses]
    BY <1>1 DEF Refused, ApprovalInv, ApprovalTyped
  <2> QED BY <1>1, <2>1 DEF Refused, ApprovalInv, ApprovalTyped, AnswersOfOwnStep
<1>2. CASE Advanced(p)
  <2> DEFINE answers == AnswersWith(p)
             step == p.step + 1
             x == [route[r] EXCEPT !.answers = answers, !.step = step]
             b == [request |-> r, step |-> step]
  <2>1. Accepted(p) /\ p.step < LastOf(r) /\ route[r].step = p.step
    BY <1>2 DEF Advanced
  <2>2. answers \in AnswerLists /\ \A i \in 1 .. p.step : answers[i].step = i
    BY <1>0, <2>1, AnswerAdded
  <2>3. step \in 1 .. Steps /\ step <= LastOf(r) /\ step - 1 = p.step
    BY <1>0, <2>1
  <2>4. route' = [route EXCEPT ![r] = x]
    BY <1>2, <2>1 DEF Advanced, ApprovalInv, ApprovalTyped
  <2>5. chat' \in [buttons : SUBSET [request : Requests, step : 1 .. Steps], presses : SUBSET ButtonPresses]
    <3>1. b \in [request : Requests, step : 1 .. Steps]
      BY <1>0, <2>3
    <3>2. Moved(p, {b})
      BY <1>2 DEF Advanced
    <3> HIDE DEF b
    <3> QED BY <3>1, <3>2 DEF Moved, ApprovalInv, ApprovalTyped
  <2> HIDE DEF answers, step
  <2>6. x \in RequestRoutes /\ x.step = step /\ x.answers = answers
    BY <1>0, <2>2, <2>3 DEF RequestRoutes
  <2>7. InOrder(x, r)
    BY <2>2, <2>3, <2>6 DEF InOrder
  <2> HIDE DEF x
  <2>8. route' \in [Requests -> RequestRoutes] /\ \A q \in Requests : InOrder(route'[q], q)
    BY <1>0, <2>4, <2>6, <2>7 DEF ApprovalInv, ApprovalTyped
  <2> QED BY <1>2, <2>5, <2>8 DEF Advanced, ApprovalInv, ApprovalTyped, AnswersOfOwnStep
<1>3. CASE Completed(p)
  <2> DEFINE answers == AnswersWith(p)
             at == IF r \in Questions THEN "listing" ELSE "replying"
             y == [press |-> p, answers |-> answers, at |-> at]
  <2>1. Accepted(p) /\ route[r].step = LastOf(r) /\ route[r].step = p.step
    BY <1>3 DEF Completed, Accepted
  <2>2. answers \in AnswerLists /\ \A i \in 1 .. p.step : answers[i].step = i
    BY <1>0, <2>1, AnswerAdded
  <2>3. replies' = replies \cup {y} /\ chat' = [chat EXCEPT !.presses = @ \ {p}]
    BY <1>3 DEF Completed
  <2> HIDE DEF answers
  <2>4. y \in FinalReplies /\ y.press = p /\ y.answers = answers
    BY <1>0, <2>2 DEF FinalReplies
  <2>5. Whole(y)
    BY <2>1, <2>2, <2>4 DEF Whole
  <2> HIDE DEF y
  <2>6. chat' \in [buttons : SUBSET [request : Requests, step : 1 .. Steps], presses : SUBSET ButtonPresses]
    BY <2>3 DEF ApprovalInv, ApprovalTyped
  <2> QED BY <1>3, <2>3, <2>4, <2>5, <2>6 DEF Completed, ApprovalInv, ApprovalTyped, AnswersOfOwnStep
<1> QED BY <1>1, <1>2, <1>3

(* Steps of final replies, and restarts. *)
LEMMA RepliesTurn ==
    ASSUME ApprovalInv, NEW y \in replies, Listed(y) \/ Replied(y) \/ Consumed(y)
    PROVE  ApprovalInv'
<1> USE ApprovalBounds
<1> DEFINE r == y.press.request
<1>0. /\ y \in FinalReplies /\ Whole(y) /\ y.press \in ButtonPresses /\ r \in Requests
      /\ LastOf(r) \in 1 .. Steps /\ y.answers \in AnswerLists
  BY LastIsStep DEF ApprovalInv, ApprovalTyped, FinalReplies, ButtonPresses
<1>1. ASSUME NEW at \in {"replying", "consuming"}
      PROVE  [y EXCEPT !.at = at] \in FinalReplies /\ Whole([y EXCEPT !.at = at])
  <2> DEFINE x == [y EXCEPT !.at = at]
  <2>1. x \in FinalReplies /\ x.press = y.press /\ x.answers = y.answers
    BY <1>0 DEF FinalReplies
  <2> HIDE DEF x
  <2>2. Whole(x)
    BY <1>0, <2>1 DEF Whole
  <2> QED BY <2>1, <2>2 DEF x
<1>2. /\ replies' \in SUBSET FinalReplies /\ \A x \in replies' : Whole(x)
  <2>1. \A x \in replies' : x \in replies \/ x \in {[y EXCEPT !.at = at] : at \in {"replying", "consuming"}}
    BY DEF Listed, Replied, Consumed
  <2>2. \A x \in replies : x \in FinalReplies /\ Whole(x)
    BY DEF ApprovalInv, ApprovalTyped
  <2> QED BY <1>1, <2>1, <2>2
<1>3. route' \in [Requests -> RequestRoutes] /\ \A q \in Requests : InOrder(route'[q], q)
  <2>1. route' = route \/ route' = [route EXCEPT ![r] = NoRoute]
    BY DEF Listed, Replied, Consumed
  <2> QED BY <1>0, <2>1, NoRouteWaits DEF ApprovalInv, ApprovalTyped
<1>4. chat' \in [buttons : SUBSET [request : Requests, step : 1 .. Steps], presses : SUBSET ButtonPresses]
  BY DEF Listed, Replied, Consumed, Moved, ApprovalInv, ApprovalTyped
<1>5. asked' \in [Requests -> Askings] /\ AnswersOfOwnStep'
  <2> DEFINE given == SubSeq(y.answers, 1, LastOf(r))
             x == [asked[r] EXCEPT !.state = "answered", !.given = given]
  <2>1. CASE UNCHANGED asked
    BY <2>1 DEF ApprovalInv, ApprovalTyped, AnswersOfOwnStep
  <2>2. CASE asked' = [asked EXCEPT ![r].state = "answered", ![r].given = given]
    <3>1. y.answers \in Seq(StepAnswers) /\ Len(y.answers) = Steps
      <4>1. y.answers \in [1 .. Steps -> StepAnswers] /\ Steps \in Nat
        BY <1>0 DEF AnswerLists
      <4>2. y.answers \in Seq(StepAnswers)
        BY <4>1, SeqDef
      <4> QED BY <4>1, <4>2, LenProperties
    <3>2. \A i \in 1 .. LastOf(r) : y.answers[i] \in StepAnswers
      BY <1>0 DEF AnswerLists
    <3>3. /\ given \in Seq(StepAnswers)
          /\ Len(given) = IF 1 <= LastOf(r) THEN LastOf(r) - 1 + 1 ELSE 0
          /\ \A i \in 1 .. LastOf(r) - 1 + 1 : given[i] = y.answers[1 + i - 1]
      BY <1>0, <3>1, <3>2, SubSeqProperties
    <3>4. LastOf(r) - 1 + 1 = LastOf(r) /\ 1 <= LastOf(r) /\ \A i \in 1 .. LastOf(r) : 1 + i - 1 = i
      BY <1>0
    <3>5. DOMAIN given = 1 .. LastOf(r)
      <4> HIDE DEF given
      <4> QED BY <3>3, <3>4, LenProperties
    <3>6. \A i \in DOMAIN given : given[i].step = i
      <4> HIDE DEF given
      <4> QED BY <1>0, <3>3, <3>4, <3>5 DEF Whole
    <3>7. asked' = [asked EXCEPT ![r] = x] /\ asked[r] \in Askings
      BY <1>0, <2>2 DEF ApprovalInv, ApprovalTyped
    <3> HIDE DEF given
    <3>8. x \in Askings /\ x.given = given
      BY <3>3, <3>7 DEF Askings
    <3> HIDE DEF x
    <3> QED BY <1>0, <3>6, <3>7, <3>8 DEF ApprovalInv, ApprovalTyped, AnswersOfOwnStep
  <2> QED BY <2>1, <2>2 DEF Listed, Replied, Consumed
<1>6. UNCHANGED rounds
  BY DEF Listed, Replied, Consumed
<1> QED BY <1>2, <1>3, <1>4, <1>5, <1>6 DEF ApprovalInv, ApprovalTyped

LEMMA ApprovalStep == ASSUME ApprovalInv, [ApprovalsNext]_approval PROVE ApprovalInv'
<1>1. CASE BackendRestarts
  <2>1. rounds' \in [presses : Nat, restarts : Nat]
    BY <1>1 DEF BackendRestarts, ApprovalInv, ApprovalTyped
  <2> QED BY <1>1, <2>1, NoRouteWaits DEF BackendRestarts, ApprovalInv, ApprovalTyped, AnswersOfOwnStep
<1>2. CASE UNCHANGED approval
  BY <1>2 DEF approval, ApprovalInv, ApprovalTyped, AnswersOfOwnStep
<1> QED BY <1>1, <1>2, RequestsTurn, PressKeeps, PressesTurn, RepliesTurn DEF ApprovalsNext

-----------------------------------------------------------------------------
(* The accounts of a CLIProxy provider *)

AccountFlags == {"on", "off", "absent"}

AccountJobs == [kind : {"activate", "test", "delete"}, at : {"switching", "restoring"},
             target : Accounts, todo : SUBSET Accounts, applied : SUBSET Accounts,
             original : [Accounts -> AccountFlags]]

HistoryTyped(h) == DOMAIN h = {"jobs", "failures", "spoiled"} /\ h.spoiled \in BOOLEAN

AccountsTyped == /\ flag \in [Accounts -> AccountFlags]
                 /\ job \in [Windows -> {NoJob} \cup AccountJobs]
                 /\ HistoryTyped(history)

Active(f) == \E a \in Accounts : f[a] = "on"

(* What a request that nothing has disturbed finds: the accounts it has    *)
(* seen are there, ...                                                     *)
SeenIsThere(f, j) ==
    /\ j.target \in Present(j.original) /\ j.todo \cup j.applied \subseteq Present(j.original)
    /\ Active(j.original)
    /\ \A a \in Present(j.original) : f[a] # "absent"

(* ... switching has enabled the chosen account before it touches another, *)
TargetLeads(f, j) ==
    j.at = "switching" /\ j.kind # "delete" =>
        /\ j.todo = Present(j.original) \ j.applied
        /\ \A a \in j.todo : f[a] = j.original[a]
        /\ j.applied = {} \/ (j.target \in j.applied /\ f[j.target] = "on")

(* ... and a rollback gives it up last.                                    *)
TargetStays(f, j) ==
    j.at = "restoring" =>
        /\ j.kind # "delete"
        /\ \A a \in Present(j.original) \ j.todo : f[a] = j.original[a]
        /\ j.kind = "activate" => j.todo = {} \/ (j.target \in j.todo /\ f[j.target] = "on")

(* A deletion has an enabled account left, or no other account at all.     *)
SuccessorWorks(f, j) ==
    j.kind = "delete" =>
        /\ j.target \notin j.todo
        /\ j.todo = {} => \/ \E b \in Accounts \ {j.target} : f[b] = "on"
                          \/ \A b \in Accounts \ {j.target} : f[b] = "absent"

Undisturbed(f, j) ==
    SeenIsThere(f, j) /\ TargetLeads(f, j) /\ TargetStays(f, j) /\ SuccessorWorks(f, j)

CalmInv ==
    ~history.spoiled =>
        /\ \A v, w \in Windows : job[v] # NoJob /\ job[w] # NoJob => v = w
        /\ \A w \in Windows : job[w] # NoJob => Undisturbed(flag, job[w])
        /\ (\A w \in Windows : job[w].kind # "test") /\ Present(flag) # {} => Active(flag)

AccountsInv == AccountsTyped /\ CalmInv

LEMMA AnIdleWindow == NoJob.kind = "none" /\ NoJob.at = "none" /\ NoJob.todo = {} /\ NoJob \notin AccountJobs
  BY DEF NoJob, AccountJobs

(* Where an undisturbed request leaves an account enabled. *)
LEMMA ActivationKeepsOne ==
    ASSUME NEW f \in [Accounts -> AccountFlags], NEW j \in AccountJobs, Undisturbed(f, j),
           j.kind = "activate" \/ (j.kind = "test" /\ j.at = "restoring" /\ j.todo = {})
    PROVE  Active(f)
<1>1. PICK a \in Present(j.original) : j.original[a] = "on"
  BY DEF Undisturbed, SeenIsThere, Active, Present
<1>2. CASE j.at = "switching"
  BY <1>1, <1>2 DEF Undisturbed, TargetLeads, Active, Present, AccountJobs
<1>3. CASE j.at = "restoring"
  BY <1>1, <1>3 DEF Undisturbed, TargetStays, Active, Present, AccountJobs
<1> QED BY <1>2, <1>3 DEF AccountJobs

(* A window begins alone, and with an enabled account.                     *)
LEMMA SwitchBegins ==
    ASSUME NEW f \in [Accounts -> AccountFlags], Active(f), NEW t \in Present(f), NEW k \in {"activate", "test"}
    PROVE  LET j == [kind |-> k, at |-> "switching", target |-> t, todo |-> Present(f),
                     applied |-> {}, original |-> f]
           IN j \in AccountJobs /\ Undisturbed(f, j)
BY DEF AccountJobs, Undisturbed, SeenIsThere, TargetLeads, TargetStays, SuccessorWorks, Present

LEMMA FirstSibling ==
    ASSUME NEW S \in SUBSET Accounts, S # {}
    PROVE  \E a \in S : \A b \in S : a <= b
<1>1. S \subseteq Nat
  BY AccountBounds DEF Accounts
<1>2. PICK a \in S : \A b \in S : ~(<<b, a>> \in OpToRel(<, Nat))
  BY <1>1, WFMin, NatLessThanWellFounded, Zenon
<1>3. \A b \in S : ~(b < a)
  BY <1>1, <1>2 DEF OpToRel
<1> QED BY <1>1, <1>3

LEMMA DeletionBegins ==
    ASSUME flag \in [Accounts -> AccountFlags], Active(flag), NEW t \in Present(flag)
    PROVE  LET j == [kind |-> "delete", at |-> "switching", target |-> t,
                     todo |-> {a \in Siblings(t) : \A b \in Siblings(t) : flag[b] = "off" /\ a <= b},
                     applied |-> {}, original |-> flag]
           IN j \in AccountJobs /\ Undisturbed(flag, j)
<1> DEFINE todo == {a \in Siblings(t) : \A b \in Siblings(t) : flag[b] = "off" /\ a <= b}
           j == [kind |-> "delete", at |-> "switching", target |-> t, todo |-> todo,
                 applied |-> {}, original |-> flag]
<1>1. todo \subseteq Present(flag) /\ t \notin todo /\ Present(flag) \subseteq Accounts
  BY DEF Siblings, Present
<1>2. todo = {} => \/ \E b \in Accounts \ {t} : flag[b] = "on"
                   \/ \A b \in Accounts \ {t} : flag[b] = "absent"
  <2> SUFFICES ASSUME todo = {}, \A b \in Accounts \ {t} : flag[b] # "on" PROVE Siblings(t) = {}
    BY DEF Siblings, Present
  <2>1. \A b \in Siblings(t) : flag[b] = "off"
    BY DEF Siblings, Present, AccountFlags
  <2> QED BY <2>1, FirstSibling DEF Siblings, Present
<1>3. j \in AccountJobs
  BY <1>1 DEF AccountJobs
<1> HIDE DEF todo
<1>4. SeenIsThere(flag, j)
  BY <1>1 DEF SeenIsThere, Present
<1>5. TargetLeads(flag, j) /\ TargetStays(flag, j) /\ SuccessorWorks(flag, j)
  BY <1>1, <1>2 DEF TargetLeads, TargetStays, SuccessorWorks
<1> QED BY <1>3, <1>4, <1>5 DEF Undisturbed, todo

(* An account is switched: the chosen one first.                           *)
LEMMA OneSwitched ==
    ASSUME NEW f \in [Accounts -> AccountFlags], NEW j \in AccountJobs, Undisturbed(f, j),
           j.at = "switching", NEW a \in Accounts, ComesNext(j, a)
    PROVE  LET g == [f EXCEPT ![a] = Wanted(j, a)]
               k == [j EXCEPT !.todo = @ \ {a}, !.applied = @ \cup {a}]
           IN /\ g \in [Accounts -> AccountFlags] /\ k \in AccountJobs /\ Undisturbed(g, k)
              /\ j.kind = "delete" /\ Active(f) => Active(g)
<1> DEFINE g == [f EXCEPT ![a] = Wanted(j, a)]
           k == [j EXCEPT !.todo = @ \ {a}, !.applied = @ \cup {a}]
<1>1. Wanted(j, a) \in {"on", "off"} /\ (j.kind = "delete" \/ a = j.target => Wanted(j, a) = "on")
  BY DEF Wanted
<1>2. g \in [Accounts -> AccountFlags] /\ g[a] = Wanted(j, a) /\ \A b \in Accounts \ {a} : g[b] = f[b]
  BY <1>1 DEF AccountFlags
<1>3. /\ k \in AccountJobs /\ k.kind = j.kind /\ k.at = "switching" /\ k.target = j.target
      /\ k.todo = j.todo \ {a} /\ k.applied = j.applied \cup {a} /\ k.original = j.original
  BY DEF AccountJobs
<1>4. a \in j.todo /\ a \in Present(j.original)
  BY DEF ComesNext, Undisturbed, SeenIsThere
<1>5. SeenIsThere(g, k)
  BY <1>1, <1>2, <1>3, <1>4 DEF Undisturbed, SeenIsThere, Present
<1>6. TargetLeads(g, k)
  <2> SUFFICES ASSUME j.kind # "delete" PROVE TargetLeads(g, k)
    BY <1>3 DEF TargetLeads
  <2>1. /\ j.todo = Present(j.original) \ j.applied
        /\ \A b \in j.todo : f[b] = j.original[b]
        /\ j.applied = {} \/ (j.target \in j.applied /\ f[j.target] = "on")
    BY DEF Undisturbed, TargetLeads
  <2>2. CASE j.applied = {}
    <3>1. j.target \in j.todo
      BY <2>1, <2>2 DEF Undisturbed, SeenIsThere
    <3>2. a = j.target
      BY <3>1 DEF ComesNext, ComesBefore, ChosenFirst
    <3> QED BY <1>1, <1>2, <1>3, <1>4, <2>1, <3>2 DEF TargetLeads, Present
  <2>3. CASE j.target \in j.applied /\ f[j.target] = "on"
    <3>1. a # j.target
      BY <1>4, <2>1, <2>3
    <3> QED BY <1>2, <1>3, <1>4, <2>1, <2>3, <3>1 DEF TargetLeads, Present, AccountJobs
  <2> QED BY <2>1, <2>2, <2>3
<1>7. TargetStays(g, k)
  BY <1>3 DEF TargetStays
<1>8. SuccessorWorks(g, k) /\ (j.kind = "delete" /\ Active(f) => Active(g))
  <2> SUFFICES ASSUME j.kind = "delete" PROVE SuccessorWorks(g, k) /\ Active(g)
    BY <1>3 DEF SuccessorWorks
  <2>1. a # j.target /\ g[a] = "on"
    BY <1>1, <1>2, <1>4 DEF Undisturbed, SuccessorWorks
  <2> QED BY <1>3, <2>1 DEF Undisturbed, SuccessorWorks, Active
<1> HIDE DEF g, k
<1>9. g \in [Accounts -> AccountFlags] /\ k \in AccountJobs /\ Undisturbed(g, k) /\ (j.kind = "delete" /\ Active(f) => Active(g))
  BY <1>2, <1>3, <1>5, <1>6, <1>7, <1>8 DEF Undisturbed
<1> QED BY <1>9 DEF g, k

(* A command fails, or the probe has its answer. *)
LEMMA Restoring ==
    ASSUME NEW f \in [Accounts -> AccountFlags], NEW j \in AccountJobs, Undisturbed(f, j),
           j.at = "switching", j.kind # "delete"
    PROVE  Restores(j) \in AccountJobs /\ Restores(j).kind = j.kind /\ Undisturbed(f, Restores(j))
<1>1. CASE j.kind = "activate"
  <2> DEFINE k == [j EXCEPT !.at = "restoring", !.todo = j.applied]
  <2>1. Restores(j) = k
    BY <1>1 DEF Restores
  <2>2. /\ k \in AccountJobs /\ k.kind = "activate" /\ k.at = "restoring" /\ k.target = j.target
        /\ k.todo = j.applied /\ k.applied = j.applied /\ k.original = j.original
    BY <1>1 DEF AccountJobs
  <2> HIDE DEF k
  <2> QED BY <1>1, <2>1, <2>2 DEF Undisturbed, SeenIsThere, TargetLeads, TargetStays, SuccessorWorks
<1>2. CASE j.kind = "test"
  <2> DEFINE k == [j EXCEPT !.at = "restoring", !.todo = Present(j.original)]
  <2>1. Restores(j) = k
    BY <1>2 DEF Restores
  <2>2. /\ k \in AccountJobs /\ k.kind = "test" /\ k.at = "restoring" /\ k.target = j.target
        /\ k.todo = Present(j.original) /\ k.applied = j.applied /\ k.original = j.original
    BY <1>2 DEF AccountJobs, Present
  <2> HIDE DEF k
  <2> QED BY <1>2, <2>1, <2>2 DEF Undisturbed, SeenIsThere, TargetLeads, TargetStays, SuccessorWorks
<1> QED BY <1>1, <1>2 DEF AccountJobs

(* An account is restored, the one that was switched first last of all.    *)
LEMMA OneRestored ==
    ASSUME NEW f \in [Accounts -> AccountFlags], NEW j \in AccountJobs, Undisturbed(f, j),
           j.at = "restoring", NEW a \in Accounts, ComesNext(j, a)
    PROVE  /\ f[a] # "absent"
           /\ Undisturbed([f EXCEPT ![a] = j.original[a]], [j EXCEPT !.todo = @ \ {a}])
<1> DEFINE g == [f EXCEPT ![a] = j.original[a]]
           k == [j EXCEPT !.todo = @ \ {a}]
<1>2. g \in [Accounts -> AccountFlags] /\ g[a] = j.original[a] /\ \A b \in Accounts \ {a} : g[b] = f[b]
  BY DEF AccountJobs
<1>3. /\ k \in AccountJobs /\ k.kind = j.kind /\ k.at = "restoring" /\ k.target = j.target
      /\ k.todo = j.todo \ {a} /\ k.applied = j.applied /\ k.original = j.original
  BY DEF AccountJobs
<1>4. a \in j.todo /\ a \in Present(j.original) /\ f[a] # "absent" /\ j.kind # "delete"
  BY DEF ComesNext, Undisturbed, SeenIsThere, TargetStays
<1>5. SeenIsThere(g, k)
  BY <1>2, <1>3, <1>4 DEF Undisturbed, SeenIsThere, Present
<1>6. j.kind = "activate" => k.todo = {} \/ (k.target \in k.todo /\ g[k.target] = "on")
  <2> SUFFICES ASSUME j.kind = "activate" PROVE k.todo = {} \/ (k.target \in k.todo /\ g[k.target] = "on")
    OBVIOUS
  <2>1. j.target \in j.todo /\ f[j.target] = "on"
    BY <1>4 DEF Undisturbed, TargetStays
  <2>2. CASE a = j.target
    <3>1. \A b \in j.todo \ {a} : FALSE
      BY <2>2 DEF ComesNext, ComesBefore, ChosenFirst
    <3> QED BY <1>3, <3>1
  <2>3. CASE a # j.target
    BY <1>2, <1>3, <2>1, <2>3 DEF AccountJobs
  <2> QED BY <2>2, <2>3
<1>7. TargetStays(g, k)
  BY <1>2, <1>3, <1>4, <1>6 DEF Undisturbed, TargetStays, Present
<1>8. TargetLeads(g, k) /\ SuccessorWorks(g, k)
  BY <1>3, <1>4 DEF TargetLeads, SuccessorWorks
<1> HIDE DEF g, k
<1>9. f[a] # "absent" /\ Undisturbed(g, k)
  BY <1>2, <1>3, <1>4, <1>5, <1>7, <1>8 DEF Undisturbed
<1> QED BY <1>9 DEF g, k

(* A new account disturbs nothing. *)
LEMMA OneMore ==
    ASSUME NEW f \in [Accounts -> AccountFlags], NEW a \in Accounts, f[a] = "absent", NEW j \in AccountJobs,
           Undisturbed(f, j)
    PROVE  Undisturbed([f EXCEPT ![a] = "on"], j)
<1> DEFINE g == [f EXCEPT ![a] = "on"]
<1>1. g[a] = "on" /\ \A b \in Accounts \ {a} : g[b] = f[b]
  BY DEF AccountFlags
<1>2. a \notin Present(j.original) /\ j.target # a /\ a \notin j.todo
  BY DEF Undisturbed, SeenIsThere
<1> HIDE DEF g
<1>3. SeenIsThere(g, j) /\ TargetLeads(g, j) /\ TargetStays(g, j)
  BY <1>1, <1>2 DEF Undisturbed, SeenIsThere, TargetLeads, TargetStays, Present, AccountJobs
<1>4. SuccessorWorks(g, j)
  BY <1>1, <1>2 DEF Undisturbed, SuccessorWorks
<1> QED BY <1>3, <1>4 DEF Undisturbed, g

LEMMA Counted ==
    ASSUME NEW h, DOMAIN h = {"jobs", "failures", "spoiled"}, NEW b \in BOOLEAN
    PROVE  /\ HistoryTyped([h EXCEPT !.jobs = @ + 1, !.spoiled = b])
           /\ HistoryTyped([h EXCEPT !.failures = @ + 1, !.spoiled = b])
           /\ [h EXCEPT !.jobs = @ + 1, !.spoiled = b].spoiled = b
           /\ [h EXCEPT !.failures = @ + 1, !.spoiled = b].spoiled = b
<1>1. CASE b = TRUE
  BY <1>1 DEF HistoryTyped
<1>2. CASE b = FALSE
  BY <1>2 DEF HistoryTyped
<1> QED BY <1>1, <1>2

LEMMA AccountsStart == AccountsInit => AccountsInv
<1> SUFFICES ASSUME AccountsInit PROVE AccountsInv
  OBVIOUS
<1>1. AccountsTyped
  <2>1. HistoryTyped(history)
    BY DEF AccountsInit, HistoryTyped
  <2> QED BY <2>1 DEF AccountsInit, AccountsTyped, AccountFlags
<1>2. CalmInv
  BY DEF AccountsInit, CalmInv, Active
<1> QED BY <1>1, <1>2 DEF AccountsInv

LEMMA OneRequest ==
    ASSUME AccountsInv, ~history.spoiled, NEW w \in Windows, job[w] # NoJob
    PROVE  /\ job[w] \in AccountJobs /\ Undisturbed(flag, job[w])
           /\ \A v \in Windows \ {w} : job[v] = NoJob
           /\ job[w].kind # "test" /\ Present(flag) # {} => Active(flag)
<1>1. job[w] \in AccountJobs
  BY DEF AccountsInv, AccountsTyped
<1>2. \A v \in Windows \ {w} : job[v] = NoJob
  BY DEF AccountsInv, CalmInv
<1>3. job[w].kind # "test" => \A v \in Windows : job[v].kind # "test"
  BY <1>2, AnIdleWindow
<1> QED BY <1>1, <1>2, <1>3 DEF AccountsInv, CalmInv

(* The one request moves on: what is left to show about it. *)
LEMMA RequestMoves ==
    ASSUME AccountsInv, NEW w \in Windows, job[w] # NoJob, ~history.spoiled,
           NEW k \in {NoJob} \cup AccountJobs, job' = [job EXCEPT ![w] = k],
           flag' \in [Accounts -> AccountFlags], k # NoJob => Undisturbed(flag', k),
           k.kind # "test" /\ Present(flag') # {} => Active(flag')
    PROVE  CalmInv'
<1>1. \A v \in Windows \ {w} : job'[v] = NoJob
  BY OneRequest DEF AccountsInv, AccountsTyped
<1>2. job'[w] = k
  BY DEF AccountsInv, AccountsTyped
<1> QED BY <1>1, <1>2 DEF CalmInv

LEMMA TypedMove ==
    ASSUME AccountsTyped, NEW w \in Windows,
           NEW k \in {NoJob} \cup AccountJobs, job' = [job EXCEPT ![w] = k],
           flag' \in [Accounts -> AccountFlags],
           HistoryTyped(history')
    PROVE  AccountsTyped'
BY DEF AccountsTyped

LEMMA JobBeginsKeeps ==
    ASSUME AccountsInv, NEW w \in Windows, NEW t \in Accounts,
           ActivateAccount(w, t) \/ TestAccount(w, t) \/ DeleteAccount(w, t)
    PROVE  AccountsInv'
<1>0. /\ flag \in [Accounts -> AccountFlags] /\ job \in [Windows -> {NoJob} \cup AccountJobs]
      /\ HistoryTyped(history)
  BY DEF AccountsInv, AccountsTyped
<1>1. PICK k \in {"activate", "test", "delete"}, todo \in SUBSET Present(flag) :
         /\ JobBegins(w, k, t, "switching", todo)
         /\ k # "delete" => todo = Present(flag)
         /\ k = "delete" => todo = {a \in Siblings(t) : \A b \in Siblings(t) : flag[b] = "off" /\ a <= b}
  <2>1. CASE ActivateAccount(w, t) \/ TestAccount(w, t)
    BY <2>1, Zenon DEF ActivateAccount, TestAccount
  <2>2. CASE DeleteAccount(w, t)
    BY <2>2 DEF DeleteAccount, Siblings, Present
  <2> QED BY <2>1, <2>2
<1> DEFINE j == [kind |-> k, at |-> "switching", target |-> t, todo |-> todo,
                 applied |-> {}, original |-> flag]
<1>2. /\ job[w] = NoJob /\ t \in Present(flag)
      /\ job' = [job EXCEPT ![w] = j] /\ UNCHANGED flag
      /\ history' = [history EXCEPT !.jobs = @ + 1,
                                    !.spoiled = @ \/ \E v \in Windows : job[v] # NoJob]
  BY <1>1 DEF JobBegins
<1>3. j \in AccountJobs
  BY <1>0, <1>1 DEF AccountJobs, Present
<1>4. AccountsTyped'
  <2> DEFINE b == history.spoiled \/ \E v \in Windows : job[v] # NoJob
  <2>1. b \in BOOLEAN /\ history' = [history EXCEPT !.jobs = @ + 1, !.spoiled = b]
    BY <1>0, <1>2, Zenon
  <2> HIDE DEF b, j
  <2>2. HistoryTyped(history')
    BY <1>0, <2>1, Counted DEF HistoryTyped
  <2> QED BY <1>0, <1>2, <1>3, <2>2, TypedMove DEF AccountsInv
<1>5. CalmInv'
  <2> SUFFICES ASSUME ~history'.spoiled PROVE CalmInv'
    BY DEF CalmInv
  <2>1. ~history.spoiled /\ \A v \in Windows : job[v] = NoJob
    <3> DEFINE b == history.spoiled \/ \E v \in Windows : job[v] # NoJob
    <3>1. b \in BOOLEAN /\ history' = [history EXCEPT !.jobs = @ + 1, !.spoiled = b]
      BY <1>0, <1>2, Zenon
    <3> HIDE DEF b
    <3>2. ~b
      BY <1>0, <3>1, Counted DEF HistoryTyped
    <3> QED BY <3>2 DEF b
  <2>2. Active(flag)
    BY <1>2, <2>1, AnIdleWindow DEF AccountsInv, CalmInv
  <2>3. Undisturbed(flag, j)
    <3>1. CASE k = "delete"
      BY <1>0, <1>1, <1>2, <2>2, <3>1, DeletionBegins
    <3>2. CASE k # "delete"
      BY <1>0, <1>1, <1>2, <2>2, <3>2, SwitchBegins
    <3> QED BY <3>1, <3>2
  <2> HIDE DEF j
  <2>4. job'[w] = j /\ \A v \in Windows \ {w} : job'[v] = NoJob
    BY <1>0, <1>2, <2>1
  <2> QED BY <1>2, <2>1, <2>2, <2>3, <2>4 DEF CalmInv
<1> QED BY <1>4, <1>5 DEF AccountsInv

LEMMA SetDisabledKeeps ==
    ASSUME AccountsInv, NEW w \in Windows, SetDisabled(w)
    PROVE  AccountsInv'
<1>0. /\ flag \in [Accounts -> AccountFlags] /\ job \in [Windows -> {NoJob} \cup AccountJobs]
      /\ HistoryTyped(history)
  BY DEF AccountsInv, AccountsTyped
<1>1. PICK a \in Accounts :
        /\ job[w].at = "switching" /\ ComesNext(job[w], a)
        /\ flag' = [flag EXCEPT ![a] = Wanted(job[w], a)]
        /\ job' = [job EXCEPT ![w].todo = @ \ {a}, ![w].applied = @ \cup {a}]
        /\ UNCHANGED history
  BY DEF SetDisabled, Sets
<1> DEFINE k == [job[w] EXCEPT !.todo = @ \ {a}, !.applied = @ \cup {a}]
<1>2. job[w] \in AccountJobs
  BY <1>0, <1>1, AnIdleWindow
<1>3. k \in AccountJobs /\ k.kind = job[w].kind /\ job' = [job EXCEPT ![w] = k]
  BY <1>0, <1>1, <1>2 DEF AccountJobs
<1>4. flag' \in [Accounts -> AccountFlags]
  BY <1>0, <1>1 DEF Wanted, AccountFlags
<1>5. CalmInv'
  <2> SUFFICES ASSUME ~history.spoiled PROVE CalmInv'
    BY <1>1 DEF CalmInv
  <2>1. job[w] # NoJob
    BY <1>2, AnIdleWindow
  <2>2. Undisturbed(flag, job[w]) /\ (job[w].kind # "test" /\ Present(flag) # {} => Active(flag))
    BY <2>1, OneRequest
  <2>3. Undisturbed(flag', k) /\ (job[w].kind = "delete" /\ Active(flag) => Active(flag'))
    BY <1>0, <1>1, <1>2, <2>2, OneSwitched
  <2> HIDE DEF k
  <2>4. CASE k.kind = "activate"
    <3>1. Active(flag')
      BY <1>3, <1>4, <2>3, <2>4, ActivationKeepsOne
    <3> QED BY <1>3, <1>4, <2>1, <2>3, <3>1, RequestMoves
  <2>5. CASE k.kind = "delete"
    <3>1. Present(flag) # {}
      BY <1>2, <2>2 DEF Undisturbed, SeenIsThere, Present, AccountJobs
    <3>2. Active(flag')
      BY <1>3, <2>2, <2>3, <2>5, <3>1
    <3> QED BY <1>3, <1>4, <2>1, <2>3, <3>2, RequestMoves
  <2>6. CASE k.kind = "test"
    BY <1>3, <1>4, <2>1, <2>3, <2>6, RequestMoves
  <2> QED BY <1>3, <2>4, <2>5, <2>6 DEF AccountJobs
<1> HIDE DEF k
<1> QED BY <1>0, <1>1, <1>3, <1>4, <1>5, TypedMove DEF AccountsInv

LEMMA RestoringTyped ==
    ASSUME NEW j \in AccountJobs
    PROVE  Restores(j) \in {NoJob} \cup AccountJobs
<1>1. CASE j.kind = "activate"
  <2>1. [j EXCEPT !.at = "restoring", !.todo = j.applied] \in AccountJobs
    BY DEF AccountJobs
  <2> QED BY <1>1, <2>1 DEF Restores
<1>2. CASE j.kind = "test"
  <2>1. [j EXCEPT !.at = "restoring", !.todo = Present(j.original)] \in AccountJobs
    BY DEF AccountJobs, Present
  <2> QED BY <1>2, <2>1 DEF Restores
<1>3. CASE j.kind = "delete"
  BY <1>3 DEF Restores
<1> QED BY <1>1, <1>2, <1>3 DEF AccountJobs

LEMMA SwitchingStops ==
    ASSUME AccountsInv, NEW w \in Windows, job[w].at = "switching",
           job' = [job EXCEPT ![w] = Restores(@)], UNCHANGED flag,
           HistoryTyped(history'),
           ~history'.spoiled => ~history.spoiled
    PROVE  AccountsInv'
<1>0. flag \in [Accounts -> AccountFlags] /\ job \in [Windows -> {NoJob} \cup AccountJobs]
  BY DEF AccountsInv, AccountsTyped
<1>1. job[w] \in AccountJobs /\ job[w] # NoJob
  BY <1>0, AnIdleWindow
<1>2. job' = [job EXCEPT ![w] = Restores(job[w])]
  BY <1>0
<1>3. Restores(job[w]) \in {NoJob} \cup AccountJobs
  BY <1>1, RestoringTyped
<1>4. CalmInv'
  <2> SUFFICES ASSUME ~history.spoiled PROVE CalmInv'
    BY DEF CalmInv
  <2>1. Undisturbed(flag, job[w]) /\ (job[w].kind # "test" /\ Present(flag) # {} => Active(flag))
    BY <1>1, OneRequest
  <2>2. CASE job[w].kind = "delete"
    <3>1. Restores(job[w]) = NoJob
      BY <2>2 DEF Restores
    <3> QED BY <1>0, <1>1, <1>2, <1>3, <2>1, <2>2, <3>1, RequestMoves
  <2>3. CASE job[w].kind # "delete"
    <3>1. Restores(job[w]).kind = job[w].kind /\ Undisturbed(flag, Restores(job[w]))
      BY <1>0, <1>1, <2>1, <2>3, Restoring
    <3> QED BY <1>0, <1>1, <1>2, <1>3, <2>1, <3>1, RequestMoves
  <2> QED BY <2>2, <2>3
<1> QED BY <1>0, <1>2, <1>3, <1>4, TypedMove DEF AccountsInv

LEMMA FailureCounts ==
    ASSUME AccountsTyped, NEW s \in BOOLEAN, Failure(s)
    PROVE  /\ HistoryTyped(history')
           /\ ~history'.spoiled => ~history.spoiled /\ ~s
<1> DEFINE b == history.spoiled \/ s
<1>1. b \in BOOLEAN /\ history' = [history EXCEPT !.failures = @ + 1, !.spoiled = b]
  BY Zenon DEF Failure
<1>2. ~b => ~history.spoiled /\ ~s
  OBVIOUS
<1> HIDE DEF b
<1> QED BY <1>1, <1>2, Counted DEF AccountsTyped, HistoryTyped

LEMMA SetDisabledFailsKeeps ==
    ASSUME AccountsInv, NEW w \in Windows, SetDisabledFails(w)
    PROVE  AccountsInv'
<1>1. PICK a \in Accounts : /\ job[w].at = "switching"
                            /\ IF flag[a] = "absent" THEN UNCHANGED history ELSE Failure(FALSE)
                            /\ job' = [job EXCEPT ![w] = Restores(@)] /\ UNCHANGED flag
  BY DEF SetDisabledFails
<1>2. /\ HistoryTyped(history')
      /\ ~history'.spoiled => ~history.spoiled
  BY <1>1, FailureCounts DEF AccountsInv, AccountsTyped
<1> QED BY <1>1, <1>2, SwitchingStops

(* A request ends. *)
LEMMA RequestEnds ==
    ASSUME AccountsInv, NEW w \in Windows, job[w] # NoJob, JobEnds(w), UNCHANGED flag,
           HistoryTyped(history'),
           ~history'.spoiled => ~history.spoiled,
           ~history.spoiled /\ job[w].kind = "test" => Active(flag)
    PROVE  AccountsInv'
<1>1. flag' \in [Accounts -> AccountFlags] /\ job' = [job EXCEPT ![w] = NoJob]
  BY DEF AccountsInv, AccountsTyped, JobEnds
<1>2. AccountsTyped'
  BY <1>1, TypedMove DEF AccountsInv
<1>3. CalmInv'
  <2> SUFFICES ASSUME ~history.spoiled PROVE CalmInv'
    BY DEF CalmInv
  <2>1. Present(flag) # {} => Active(flag)
    BY OneRequest
  <2> QED BY <1>1, <2>1, RequestMoves
<1> QED BY <1>2, <1>3 DEF AccountsInv

LEMMA SwitchedKeeps ==
    ASSUME AccountsInv, NEW w \in Windows, Switched(w)
    PROVE  AccountsInv'
<1>0. /\ flag \in [Accounts -> AccountFlags] /\ job \in [Windows -> {NoJob} \cup AccountJobs]
      /\ HistoryTyped(history)
  BY DEF AccountsInv, AccountsTyped
<1>1. job[w] \in AccountJobs /\ job[w] # NoJob /\ job[w].at = "switching" /\ job[w].todo = {} /\ UNCHANGED history
  BY <1>0, AnIdleWindow DEF Switched
<1>2. CASE job[w].kind = "activate"
  <2>1. JobEnds(w) /\ UNCHANGED flag
    BY <1>2 DEF Switched
  <2> QED BY <1>0, <1>1, <1>2, <2>1, RequestEnds
<1>3. CASE job[w].kind = "test"
  <2>1. job' = [job EXCEPT ![w] = Restores(@)] /\ UNCHANGED flag
    BY <1>3 DEF Switched
  <2> QED BY <1>0, <1>1, <2>1, SwitchingStops
<1>4. CASE job[w].kind = "delete"
  <2> DEFINE t == job[w].target
  <2>1. job' = [job EXCEPT ![w] = NoJob] /\ flag' = [flag EXCEPT ![t] = "absent"]
    BY <1>4 DEF Switched, JobEnds, Sets
  <2>2. t \in Accounts
    BY <1>1 DEF AccountJobs
  <2>3. flag' \in [Accounts -> AccountFlags]
    BY <1>0, <2>1 DEF AccountFlags
  <2>4. CalmInv'
    <3> SUFFICES ASSUME ~history.spoiled PROVE CalmInv'
      BY <1>1 DEF CalmInv
    <3>1. Undisturbed(flag, job[w])
      BY <1>1, OneRequest
    <3>2. \/ \E b \in Accounts \ {t} : flag[b] = "on"
          \/ \A b \in Accounts \ {t} : flag[b] = "absent"
      BY <1>1, <1>4, <3>1 DEF Undisturbed, SuccessorWorks
    <3>3. Present(flag') # {} => Active(flag')
      BY <1>0, <2>1, <2>2, <3>2 DEF Present, Active
    <3> QED BY <1>1, <2>1, <2>3, <3>3, RequestMoves
  <2> QED BY <1>0, <1>1, <2>1, <2>3, <2>4, TypedMove DEF AccountsInv
<1> QED BY <1>1, <1>2, <1>3, <1>4 DEF AccountJobs

LEMMA RestoredKeeps ==
    ASSUME AccountsInv, NEW w \in Windows, Restored(w)
    PROVE  AccountsInv'
<1>0. /\ flag \in [Accounts -> AccountFlags] /\ job \in [Windows -> {NoJob} \cup AccountJobs]
      /\ HistoryTyped(history)
  BY DEF AccountsInv, AccountsTyped
<1>1. PICK a \in Accounts :
        /\ job[w].at = "restoring" /\ ComesNext(job[w], a)
        /\ IF flag[a] = "absent" THEN UNCHANGED flag ELSE Sets(a, job[w].original[a])
        /\ job' = [job EXCEPT ![w].todo = @ \ {a}]
        /\ UNCHANGED history
  BY DEF Restored
<1> DEFINE k == [job[w] EXCEPT !.todo = @ \ {a}]
<1>2. job[w] \in AccountJobs /\ job[w] # NoJob
  BY <1>0, <1>1, AnIdleWindow
<1>3. k \in AccountJobs /\ job' = [job EXCEPT ![w] = k] /\ k.kind = job[w].kind
  BY <1>0, <1>1, <1>2 DEF AccountJobs
<1>4. flag' \in [Accounts -> AccountFlags]
  BY <1>0, <1>1, <1>2 DEF Sets, AccountJobs
<1>5. CalmInv'
  <2> SUFFICES ASSUME ~history.spoiled PROVE CalmInv'
    BY <1>1 DEF CalmInv
  <2>1. Undisturbed(flag, job[w]) /\ (job[w].kind # "test" /\ Present(flag) # {} => Active(flag))
    BY <1>2, OneRequest
  <2>2. flag[a] # "absent" /\ Undisturbed([flag EXCEPT ![a] = job[w].original[a]], k)
    <3> DEFINE j == job[w]
    <3>1. j \in AccountJobs /\ Undisturbed(flag, j) /\ j.at = "restoring" /\ ComesNext(j, a)
      BY <1>1, <1>2, <2>1
    <3> HIDE DEF j
    <3>2. flag[a] # "absent" /\ Undisturbed([flag EXCEPT ![a] = j.original[a]], [j EXCEPT !.todo = @ \ {a}])
      BY <1>0, <3>1, OneRestored, Zenon
    <3> QED BY <3>2 DEF j
  <2>3. Undisturbed(flag', k)
    BY <1>1, <2>2 DEF Sets
  <2>4. job[w].kind # "delete"
    BY <1>1, <2>1 DEF Undisturbed, TargetStays
  <2> HIDE DEF k
  <2>5. k.kind = "activate" => Active(flag')
    BY <1>3, <1>4, <2>3, ActivationKeepsOne
  <2>6. k.kind # "test" => Active(flag')
    BY <1>3, <2>4, <2>5 DEF AccountJobs
  <2> QED BY <1>2, <1>3, <1>4, <2>3, <2>6, RequestMoves
<1> HIDE DEF k
<1> QED BY <1>0, <1>1, <1>3, <1>4, <1>5, TypedMove DEF AccountsInv

LEMMA RestoreFailsKeeps ==
    ASSUME AccountsInv, NEW w \in Windows, RestoreFails(w)
    PROVE  AccountsInv'
<1>0. /\ flag \in [Accounts -> AccountFlags] /\ job \in [Windows -> {NoJob} \cup AccountJobs]
  BY DEF AccountsInv, AccountsTyped
<1>1. PICK a \in Accounts : /\ job[w].at = "restoring" /\ Failure(TRUE)
                            /\ job' = [job EXCEPT ![w].todo = @ \ {a}] /\ UNCHANGED flag
  BY DEF RestoreFails
<1>2. HistoryTyped(history') /\ history'.spoiled
  BY <1>1, FailureCounts DEF AccountsInv
<1>3. job[w] \in AccountJobs
  BY <1>0, <1>1, AnIdleWindow
<1>4. [job[w] EXCEPT !.todo = @ \ {a}] \in AccountJobs
  BY <1>3 DEF AccountJobs
<1>5. job' = [job EXCEPT ![w] = [job[w] EXCEPT !.todo = @ \ {a}]]
  BY <1>0, <1>1
<1> QED BY <1>0, <1>1, <1>2, <1>4, <1>5, TypedMove DEF AccountsInv, CalmInv

LEMMA RestoreEndsKeeps ==
    ASSUME AccountsInv, NEW w \in Windows, RestoreEnds(w)
    PROVE  AccountsInv'
<1>0. /\ flag \in [Accounts -> AccountFlags] /\ job \in [Windows -> {NoJob} \cup AccountJobs]
      /\ HistoryTyped(history)
  BY DEF AccountsInv, AccountsTyped
<1>1. /\ job[w] # NoJob /\ job[w] \in AccountJobs /\ JobEnds(w) /\ UNCHANGED <<flag, history>>
      /\ job[w].at = "restoring" /\ job[w].todo = {}
  BY <1>0, AnIdleWindow DEF RestoreEnds
<1>2. ~history.spoiled /\ job[w].kind = "test" => Active(flag)
  BY <1>0, <1>1, OneRequest, ActivationKeepsOne
<1> QED BY <1>0, <1>1, <1>2, RequestEnds

LEMMA DeleteFailsKeeps ==
    ASSUME AccountsInv, NEW w \in Windows, DeleteFails(w)
    PROVE  AccountsInv'
<1>1. /\ job[w].kind = "delete" /\ Failure(FALSE) /\ JobEnds(w) /\ UNCHANGED flag
  BY DEF DeleteFails
<1>2. HistoryTyped(history') /\ (~history'.spoiled => ~history.spoiled)
  BY <1>1, FailureCounts DEF AccountsInv
<1> QED BY <1>1, <1>2, RequestEnds, AnIdleWindow

LEMMA BackendDiesKeeps ==
    ASSUME AccountsInv, BackendDies
    PROVE  AccountsInv'
<1>1. /\ HistoryTyped(history')
      /\ ~history'.spoiled => ~history.spoiled /\ \A w \in Windows : job[w].kind # "test"
  BY FailureCounts DEF AccountsInv, BackendDies
<1>2. job' = [w \in Windows |-> NoJob] /\ UNCHANGED flag
  BY DEF BackendDies
<1> QED BY <1>1, <1>2 DEF AccountsInv, AccountsTyped, CalmInv

LEMMA CompleteOAuthKeeps ==
    ASSUME AccountsInv, CompleteOAuth
    PROVE  AccountsInv'
<1>0. flag \in [Accounts -> AccountFlags] /\ job \in [Windows -> {NoJob} \cup AccountJobs]
  BY DEF AccountsInv, AccountsTyped
<1>1. PICK a \in Accounts : flag[a] = "absent" /\ flag' = [flag EXCEPT ![a] = "on"]
  BY DEF CompleteOAuth, Present
<1>2. UNCHANGED <<job, history>>
  BY DEF CompleteOAuth
<1>3. flag' \in [Accounts -> AccountFlags] /\ Active(flag')
  BY <1>0, <1>1 DEF AccountFlags, Active
<1>4. \A w \in Windows : job[w] # NoJob /\ Undisturbed(flag, job[w]) => Undisturbed(flag', job[w])
  <2> SUFFICES ASSUME NEW w \in Windows, job[w] # NoJob, Undisturbed(flag, job[w])
               PROVE  Undisturbed(flag', job[w])
    OBVIOUS
  <2> QED BY <1>0, <1>1, OneMore
<1> QED BY <1>0, <1>2, <1>3, <1>4 DEF AccountsInv, AccountsTyped, CalmInv

LEMMA AccountsStep == ASSUME AccountsInv, [AccountsNext]_accounts PROVE AccountsInv'
<1>1. ASSUME NEW w \in Windows, NEW t \in Accounts,
             ActivateAccount(w, t) \/ TestAccount(w, t) \/ DeleteAccount(w, t)
      PROVE  AccountsInv'
  BY <1>1, JobBeginsKeeps
<1>2. ASSUME NEW w \in Windows, SetDisabled(w) \/ SetDisabledFails(w) \/ Switched(w)
      PROVE  AccountsInv'
  BY <1>2, SetDisabledKeeps, SetDisabledFailsKeeps, SwitchedKeeps
<1>3. ASSUME NEW w \in Windows, DeleteFails(w) \/ Restored(w) \/ RestoreFails(w) \/ RestoreEnds(w)
      PROVE  AccountsInv'
  BY <1>3, DeleteFailsKeeps, RestoredKeeps, RestoreFailsKeeps, RestoreEndsKeeps
<1>4. CASE CompleteOAuth
  BY <1>4, CompleteOAuthKeeps
<1>5. CASE BackendDies
  BY <1>5, BackendDiesKeeps
<1>6. CASE UNCHANGED accounts
  BY <1>6 DEF accounts, AccountsInv, AccountsTyped, CalmInv
<1> QED BY <1>1, <1>2, <1>3, <1>4, <1>5, <1>6 DEF AccountsNext

LEMMA OneAccountLeft == AccountsInv => OneStaysOn
  BY DEF AccountsInv, CalmInv, OneStaysOn, Active

(* As long as no two requests overlap and no restoring was disturbed, a    *)
(* provider that has accounts has an enabled one at every moment of an     *)
(* activation, its rollback and a deletion, whichever command fails and    *)
(* wherever the backend crashes (CliproxyAccountService.activateAccount,   *)
(* deleteAccount, testAccount).                                            *)
THEOREM ProvidersKeepAnAccount == AccountsSpec => []OneStaysOn
<1> QED BY OneAccountLeft, AccountsStart, AccountsStep, PTL DEF AccountsSpec

-----------------------------------------------------------------------------
(* The proxy profile, its files and its containers *)

Profiles == {Direct} \cup {Vless(l, e) : l \in VlessLinks, e \in SUBSET Routable}

ProxyJobs == [kind : {"get", "save", "apply"}, profile : Profiles, stage : 0 .. 4,
              targets : SUBSET (Routable \cup {"sidecar"})]

(* The override file defines no service, or the sidecar too.               *)
ProxyFilesTyped ==
    /\ files \in [{"env", "override", "xray"} -> SUBSET (Routable \cup VlessLinks \cup {"proxy", "sidecar", NoLink})]
    /\ files.override # {} => "sidecar" \in files.override
    /\ \E l \in VlessLinks \cup {NoLink} : files.xray = {l}

FormTyped(f) ==
    /\ DOMAIN f = {"draft", "derived", "passed", "testing"}
    /\ f.draft \in Profiles /\ f.derived \in BOOLEAN /\ f.passed \in BOOLEAN /\ f.testing \subseteq VlessLinks

ProxyTyped ==
    /\ profile \in Profiles /\ ProxyFilesTyped
    /\ stack \in [routed : SUBSET Routable, sidecar : VlessLinks \cup {NoLink, NoSidecar}]
    /\ jobs \subseteq ProxyJobs
    /\ FormTyped(form)
    /\ DOMAIN diary = {"acts", "applied", "kept", "late", "trouble"}

(* Only what the backend has found valid is stored, read and answered, and *)
(* an apply names the services of the profile it has read.                 *)
StoredIsValid ==
    /\ Valid(profile)
    /\ \A j \in jobs : j.stage >= 1 => IF j.kind = "apply" THEN j.targets = Targets(j.profile)
                                      ELSE Valid(j.profile)

(* The steps of a request that is alone: an apply finds the files of the   *)
(* profile, ...                                                            *)
ApplyFinds(j) ==
    j.kind = "apply" =>
        /\ files = AllRendered(profile)
        /\ j.stage >= 1 => j.profile = profile

(* ... a load or a save writes them one after the other, or is refused.    *)
WritesThem(j) ==
    j.kind # "apply" =>
        /\ j.stage >= 1 => j.profile = profile
        /\ j.stage >= 2 => files.env = Rendered("env", profile)
        /\ j.stage >= 3 => files.override = Rendered("override", profile)
        /\ j.stage >= 4 => files.xray = Rendered("xray", profile)
        /\ j.kind = "save" /\ j.stage = 0 /\ ~Valid(j.profile) => files = AllRendered(profile)

ProxyAloneInv ==
    "overlap" \notin diary.trouble =>
        /\ \A i, j \in jobs : i = j
        /\ jobs = {} => files = AllRendered(profile)
        /\ \A j \in jobs : ApplyFinds(j) /\ WritesThem(j)

(* What the containers do once a profile is applied to the end.            *)
InEffect(p) ==
    /\ stack.routed \ diary.kept = IF p.mode = "vless" THEN p.enabled \ diary.kept ELSE {}
    /\ p.mode = "direct" => stack = [routed |-> {}, sidecar |-> NoSidecar]
    /\ p.mode = "vless" => /\ stack.sidecar # NoSidecar
                           /\ stack.sidecar = p.link \/ "sidecar" \in diary.kept

EffectInv ==
    "stopped" \notin diary.trouble => /\ stack.routed # {} => stack.sidecar # NoSidecar
                                      /\ diary.applied # NoProfile => InEffect(diary.applied)

TestedInv ==
    ~diary.late => /\ form.derived => form.draft.link \in GoodLinks
                   /\ \A j \in jobs : j.kind = "save" => Valid(j.profile) \/ j.profile.enabled = {}

ProxyInv == ProxyTyped /\ StoredIsValid /\ ProxyAloneInv /\ EffectInv /\ TestedInv

ProxySpec == ProxyInit /\ [][ProxyNext]_proxy

LEMMA ProfileForms ==
    ASSUME NEW p \in Profiles
    PROVE  \/ p = Direct /\ p.mode = "direct" /\ p.link = NoLink /\ p.enabled = Routable
           \/ p # Direct /\ p.mode = "vless" /\ p.link \in VlessLinks /\ p.enabled \in SUBSET Routable
  BY DEF Profiles, Direct, Vless

LEMMA DirectIsValid == Direct \in Profiles /\ Valid(Direct) /\ Direct.mode = "direct"
  BY DEF Profiles, Valid, Direct

LEMMA RenderedTyped ==
    ASSUME NEW p \in Profiles
    PROVE  /\ Rendered("env", p) = IF p.mode = "vless" THEN {"proxy"} ELSE {}
           /\ Rendered("override", p) = IF p.mode = "vless" THEN p.enabled \cup {"sidecar"} ELSE {}
           /\ Rendered("xray", p) = {p.link}
           /\ p.enabled \subseteq Routable /\ p.link \in VlessLinks \cup {NoLink}
  BY ProfileForms DEF Rendered

LEMMA AllFilesRendered ==
    ASSUME NEW p \in Profiles, ProxyFilesTyped
    PROVE  files = AllRendered(p) <=> /\ files.env = Rendered("env", p)
                                      /\ files.override = Rendered("override", p)
                                      /\ files.xray = Rendered("xray", p)
  BY DEF AllRendered, ProxyFilesTyped

(* What the acts note of themselves. *)
LEMMA DiaryBegins ==
    ASSUME ProxyTyped, NEW writes \in BOOLEAN, diary' = DiaryBegun(writes)
    PROVE  /\ DOMAIN diary' = DOMAIN diary
           /\ diary'.late = diary.late /\ diary'.applied = diary.applied /\ diary'.kept = diary.kept
           /\ diary'.trouble = IF jobs # {} THEN diary.trouble \cup {"overlap"}
                                ELSE IF writes THEN diary.trouble \ {"overlap"} ELSE diary.trouble
  BY DEF ProxyTyped, DiaryBegun, ActedOn

(* What a step that leaves the backend alone keeps. *)
LEMMA BackendFrame ==
    ASSUME ProxyInv, UNCHANGED <<profile, files, stack, jobs>>, DOMAIN diary' = DOMAIN diary,
           diary'.trouble = diary.trouble, diary'.applied = diary.applied, diary'.kept = diary.kept
    PROVE  /\ StoredIsValid' /\ ProxyAloneInv' /\ EffectInv'
           /\ FormTyped(form') => ProxyTyped'
<1>1. StoredIsValid'
  BY DEF ProxyInv, StoredIsValid
<1>2. ProxyAloneInv'
  BY DEF ProxyInv, ProxyAloneInv, ApplyFinds, WritesThem
<1>3. EffectInv'
  BY DEF ProxyInv, EffectInv, InEffect
<1>4. FormTyped(form') => ProxyTyped'
  BY DEF ProxyInv, ProxyTyped, ProxyFilesTyped
<1> QED BY <1>1, <1>2, <1>3, <1>4

(* The user's acts on the form alone. *)
LEMMA ClickKeeps == ASSUME ProxyInv, TestClicked PROVE ProxyInv'
<1>1. form' = [form EXCEPT !.testing = {form.draft.link}] /\ UNCHANGED <<profile, files, stack, jobs, diary>>
  BY DEF TestClicked
<1>2. form.draft.link \in VlessLinks /\ FormTyped(form)
  BY ProfileForms DEF TestClicked, ProxyInv, ProxyTyped, FormTyped
<1>3. FormTyped(form') /\ form'.draft = form.draft /\ form'.derived = form.derived
  BY <1>1, <1>2 DEF FormTyped
<1>4. TestedInv'
  BY <1>1, <1>3 DEF ProxyInv, TestedInv
<1> QED BY <1>1, <1>3, <1>4, BackendFrame DEF ProxyInv

LEMMA EditKeeps == ASSUME ProxyInv, NEW p \in Profiles, FormEdited(p) PROVE ProxyInv'
<1>1. UNCHANGED <<profile, files, stack, jobs>> /\ diary' = [diary EXCEPT !.acts = @ + 1]
  BY DEF FormEdited, ActedOn
<1>2. UNCHANGED <<diary.late, diary.applied, diary.kept, diary.trouble, DOMAIN diary>>
  BY <1>1 DEF ProxyInv, ProxyTyped
<1> DEFINE d == p.link = form.draft.link /\ form.derived
<1>3. d \in BOOLEAN /\ form' = [form EXCEPT !.draft = p, !.derived = d]
  BY Zenon DEF ProxyInv, ProxyTyped, FormEdited, FormTyped
<1>4. d => p.link = form.draft.link /\ form.derived
  OBVIOUS
<1> HIDE DEF d
<1>5. FormTyped(form') /\ form'.draft = p /\ form'.derived = d
  BY <1>3 DEF ProxyInv, ProxyTyped, FormTyped
<1>6. TestedInv'
  BY <1>1, <1>2, <1>4, <1>5 DEF ProxyInv, TestedInv
<1> QED BY <1>1, <1>2, <1>5, <1>6, BackendFrame DEF ProxyInv

LEMMA TestAnswerKeeps == ASSUME ProxyInv, NEW l \in form.testing, TestAnswered(l) PROVE ProxyInv'
<1> DEFINE d == form.derived \/ l \in GoodLinks
           p == form.passed \/ l \in GoodLinks
           b == diary.late \/ (l # form.draft.link /\ l \in GoodLinks)
<1>1. /\ UNCHANGED <<profile, files, stack, jobs>>
      /\ form' = [form EXCEPT !.testing = {}, !.derived = d, !.passed = p]
      /\ diary' = [diary EXCEPT !.late = b]
  BY Zenon DEF TestAnswered
<1>2. d \in BOOLEAN /\ p \in BOOLEAN /\ (~b /\ d => ~diary.late /\ (form.derived \/ form.draft.link \in GoodLinks))
  BY DEF ProxyInv, ProxyTyped, FormTyped
<1>3. ~b => ~diary.late
  OBVIOUS
<1> HIDE DEF d, p, b
<1>4. FormTyped(form') /\ form'.draft = form.draft /\ form'.derived = d
  BY <1>1, <1>2 DEF ProxyInv, ProxyTyped, FormTyped
<1>5. /\ DOMAIN diary' = DOMAIN diary /\ diary'.trouble = diary.trouble
      /\ diary'.applied = diary.applied /\ diary'.kept = diary.kept /\ diary'.late = b
  BY <1>1 DEF ProxyInv, ProxyTyped
<1>6. TestedInv'
  BY <1>1, <1>2, <1>3, <1>4, <1>5 DEF ProxyInv, TestedInv
<1> QED BY <1>1, <1>4, <1>5, <1>6, BackendFrame DEF ProxyInv

(* A request begins. *)
LEMMA BeginKeeps ==
    ASSUME ProxyInv, NEW j \in ProxyJobs, j.stage = 0, NEW writes \in BOOLEAN,
           writes => j.kind = "get" \/ (j.kind = "save" /\ Valid(j.profile)),
           j.kind = "save" /\ ~diary.late => Valid(j.profile) \/ j.profile.enabled = {},
           diary' = DiaryBegun(writes), jobs' = jobs \cup {j}, UNCHANGED <<profile, files, stack, form>>
    PROVE  ProxyInv'
<1>1. /\ DOMAIN diary' = DOMAIN diary
      /\ diary'.late = diary.late /\ diary'.applied = diary.applied /\ diary'.kept = diary.kept
      /\ diary'.trouble = IF jobs # {} THEN diary.trouble \cup {"overlap"}
                          ELSE IF writes THEN diary.trouble \ {"overlap"} ELSE diary.trouble
  BY DiaryBegins DEF ProxyInv
<1>2. ProxyTyped'
  BY <1>1 DEF ProxyInv, ProxyTyped, ProxyFilesTyped, FormTyped
<1>3. StoredIsValid'
  BY DEF ProxyInv, StoredIsValid
<1>4. ProxyAloneInv'
  <2> SUFFICES ASSUME "overlap" \notin diary'.trouble PROVE ProxyAloneInv'
    BY DEF ProxyAloneInv
  <2>1. jobs = {} /\ jobs' = {j}
    BY <1>1
  <2>2. CASE writes
    BY <2>1, <2>2 DEF ProxyAloneInv, ApplyFinds, WritesThem
  <2>3. CASE ~writes
    <3>1. files = AllRendered(profile)
      BY <1>1, <2>1, <2>3 DEF ProxyInv, ProxyAloneInv
    <3> QED BY <2>1, <3>1 DEF ProxyAloneInv, ApplyFinds, WritesThem
  <2> QED BY <2>2, <2>3
<1>5. EffectInv'
  <2>1. "stopped" \notin diary'.trouble => "stopped" \notin diary.trouble
    BY <1>1
  <2> QED BY <1>1, <2>1 DEF ProxyInv, EffectInv, InEffect
<1>6. TestedInv'
  BY <1>1 DEF ProxyInv, TestedInv
<1> QED BY <1>2, <1>3, <1>4, <1>5, <1>6 DEF ProxyInv

LEMMA RequestedKeeps == ASSUME ProxyInv, Polled \/ ApplyAsked \/ ProfileSaved PROVE ProxyInv'
<1>1. CASE Polled
  <2>1. Job("get", Direct) \in ProxyJobs /\ Job("get", Direct).stage = 0 /\ Job("get", Direct).kind = "get"
    BY DirectIsValid DEF Job, ProxyJobs
  <2> QED BY <1>1, <2>1, BeginKeeps DEF Polled
<1>2. CASE ApplyAsked
  <2>1. Job("apply", Direct) \in ProxyJobs /\ Job("apply", Direct).stage = 0 /\ Job("apply", Direct).kind = "apply"
    BY DirectIsValid DEF Job, ProxyJobs
  <2> QED BY <1>2, <2>1, BeginKeeps DEF ApplyAsked
<1>3. CASE ProfileSaved
  <2> DEFINE d == form.draft
  <2>1. d \in Profiles
    BY DEF ProxyInv, ProxyTyped, FormTyped
  <2>2. /\ Job("save", d) \in ProxyJobs /\ Job("save", d).stage = 0
        /\ Job("save", d).kind = "save" /\ Job("save", d).profile = d
    BY <2>1 DEF Job, ProxyJobs
  <2>3. ~diary.late => Valid(d) \/ d.enabled = {}
    <3>1. d.mode = "direct" => Valid(d)
      BY <2>1, ProfileForms DEF Valid
    <3>2. ~diary.late /\ form.derived => Valid(d) \/ d.enabled = {}
      BY DEF ProxyInv, TestedInv, Valid
    <3> QED BY <1>3, <3>1, <3>2 DEF ProfileSaved, MaySave
  <2>4. Valid(d) \in BOOLEAN
    BY DEF Valid
  <2>5. /\ jobs' = jobs \cup {Job("save", d)} /\ diary' = DiaryBegun(Valid(d))
        /\ UNCHANGED <<profile, files, stack, form>>
    BY <1>3 DEF ProfileSaved
  <2> HIDE DEF d
  <2> QED BY <2>2, <2>3, <2>4, <2>5, BeginKeeps
<1> QED BY <1>1, <1>2, <1>3

-----------------------------------------------------------------------------
(* A request that is alone is the only one; what its step leaves to show. *)
LEMMA StepsAlone ==
    ASSUME ProxyInv, NEW j \in jobs, NEW k, Step(j, k),
           "overlap" \notin diary'.trouble => "overlap" \notin diary.trouble,
           "overlap" \notin diary.trouble /\ ApplyFinds(j) /\ WritesThem(j) => ApplyFinds(k)' /\ WritesThem(k)'
    PROVE  ProxyAloneInv'
<1> SUFFICES ASSUME "overlap" \notin diary'.trouble PROVE ProxyAloneInv'
  BY DEF ProxyAloneInv
<1>1. jobs = {j} /\ ApplyFinds(j) /\ WritesThem(j)
  BY DEF ProxyInv, ProxyAloneInv
<1>2. jobs' = {k}
  BY <1>1 DEF Step
<1> QED BY <1>1, <1>2 DEF ProxyAloneInv

LEMMA EndsAlone ==
    ASSUME ProxyInv, NEW j \in jobs, jobs' = jobs \ {j},
           "overlap" \notin diary'.trouble => "overlap" \notin diary.trouble,
           ApplyFinds(j) /\ WritesThem(j) => files' = AllRendered(profile)'
    PROVE  ProxyAloneInv'
<1> SUFFICES ASSUME "overlap" \notin diary'.trouble PROVE ProxyAloneInv'
  BY DEF ProxyAloneInv
<1>1. jobs = {j} /\ ApplyFinds(j) /\ WritesThem(j)
  BY DEF ProxyInv, ProxyAloneInv
<1>2. jobs' = {}
  BY <1>1
<1> QED BY <1>1, <1>2 DEF ProxyAloneInv

(* Steps that neither touch the containers nor the form. *)
LEMMA QuietProxyStep ==
    ASSUME ProxyInv, UNCHANGED <<stack, form, diary>>
    PROVE  /\ EffectInv'
           /\ (\A k \in jobs' : k.kind = "save" => \E j \in jobs : j.kind = "save" /\ j.profile = k.profile)
                => TestedInv'
<1>1. EffectInv'
  BY DEF ProxyInv, EffectInv, InEffect
<1> QED BY <1>1 DEF ProxyInv, TestedInv

LEMMA JobTyped ==
    ASSUME ProxyInv, NEW j \in jobs
    PROVE  /\ j \in ProxyJobs /\ j.profile \in Profiles /\ profile \in Profiles
           /\ j.kind \in {"get", "save", "apply"} /\ j.stage \in 0 .. 4
           /\ ProxyFilesTyped
  BY DEF ProxyInv, ProxyTyped, ProxyJobs

LEMMA StoredKeeps == ASSUME ProxyInv, NEW j \in jobs, ProfileStored(j) PROVE ProxyInv'
<1>0. j \in ProxyJobs /\ j.profile \in Profiles /\ j.kind = "save" /\ j.stage = 0
      /\ UNCHANGED <<files, stack, form, diary>>
  BY JobTyped DEF ProfileStored
<1>1. CASE Valid(j.profile)
  <2>0. [j EXCEPT !.stage = 1] \in ProxyJobs
    BY <1>0 DEF ProxyJobs
  <2>1. PICK k \in ProxyJobs : /\ k.kind = "save" /\ k.profile = j.profile /\ k.stage = 1
                               /\ k = [j EXCEPT !.stage = 1]
    BY <1>0, <2>0 DEF ProxyJobs
  <2>2. profile' = j.profile /\ Step(j, k)
    BY <1>1, <2>1 DEF ProfileStored
  <2>3. ProxyTyped'
    BY <1>0, <2>1, <2>2 DEF ProxyInv, ProxyTyped, ProxyFilesTyped, FormTyped, Step
  <2>4. StoredIsValid'
    BY <1>1, <2>1, <2>2 DEF ProxyInv, StoredIsValid, Step
  <2>5. ProxyAloneInv'
    <3>1. ApplyFinds(k)' /\ WritesThem(k)'
      BY <2>1, <2>2 DEF ApplyFinds, WritesThem
    <3> QED BY <1>0, <2>2, <3>1, StepsAlone
  <2>6. EffectInv' /\ TestedInv'
    BY <1>0, <2>1, <2>2, QuietProxyStep DEF Step
  <2> QED BY <2>3, <2>4, <2>5, <2>6 DEF ProxyInv
<1>2. CASE ~Valid(j.profile)
  <2>1. jobs' = jobs \ {j} /\ UNCHANGED profile
    BY <1>2 DEF ProfileStored
  <2>2. ProxyTyped' /\ StoredIsValid'
    BY <1>0, <2>1 DEF ProxyInv, ProxyTyped, ProxyFilesTyped, FormTyped, StoredIsValid
  <2>3. ProxyAloneInv'
    <3>1. WritesThem(j) => files' = AllRendered(profile)'
      BY <1>0, <1>2, <2>1 DEF WritesThem
    <3> QED BY <1>0, <2>1, <3>1, EndsAlone
  <2>4. EffectInv' /\ TestedInv'
    BY <1>0, <2>1, QuietProxyStep
  <2> QED BY <2>2, <2>3, <2>4 DEF ProxyInv
<1> QED BY <1>1, <1>2

LEMMA ReadKeeps == ASSUME ProxyInv, NEW j \in jobs, ProfileRead(j) PROVE ProxyInv'
<1>0. j \in ProxyJobs /\ j.kind = "get" /\ j.stage = 0 /\ profile \in Profiles
      /\ UNCHANGED <<profile, files, stack, form, diary>>
  BY JobTyped DEF ProfileRead
<1>a. [j EXCEPT !.stage = 1, !.profile = profile] \in ProxyJobs
  <2>1. \A m \in ProxyJobs : [m EXCEPT !.stage = 1] \in ProxyJobs /\ [m EXCEPT !.profile = profile] \in ProxyJobs
    BY <1>0 DEF ProxyJobs
  <2> QED BY <1>0, <2>1
<1>1. PICK k \in ProxyJobs : /\ k.kind = "get" /\ k.profile = profile /\ k.stage = 1
                             /\ k = [j EXCEPT !.stage = 1, !.profile = profile]
  BY <1>0, <1>a DEF ProxyJobs
<1>2. Step(j, k)
  BY <1>1 DEF ProfileRead
<1>3. ProxyTyped'
  BY <1>0, <1>1, <1>2 DEF ProxyInv, ProxyTyped, ProxyFilesTyped, FormTyped, Step
<1>4. StoredIsValid'
  BY <1>0, <1>1, <1>2 DEF ProxyInv, StoredIsValid, Step
<1>5. ProxyAloneInv'
  <2>1. ApplyFinds(k)' /\ WritesThem(k)'
    BY <1>0, <1>1 DEF ApplyFinds, WritesThem
  <2> QED BY <1>0, <1>2, <2>1, StepsAlone
<1>6. EffectInv' /\ TestedInv'
  BY <1>0, <1>1, <1>2, QuietProxyStep DEF Step
<1> QED BY <1>3, <1>4, <1>5, <1>6 DEF ProxyInv

LEMMA WrittenKeeps == ASSUME ProxyInv, NEW j \in jobs, FileWritten(j) PROVE ProxyInv'
<1>0. /\ j \in ProxyJobs /\ j.kind \in {"get", "save"} /\ j.stage \in 1 .. 3 /\ j.profile \in Profiles
      /\ UNCHANGED <<profile, stack, form, diary>>
  BY JobTyped DEF FileWritten
<1>a. [j EXCEPT !.stage = @ + 1] \in ProxyJobs
  BY <1>0 DEF ProxyJobs
<1>1. PICK k \in ProxyJobs : /\ k.kind = j.kind /\ k.profile = j.profile /\ k.stage = j.stage + 1
                             /\ k = [j EXCEPT !.stage = @ + 1]
  BY <1>0, <1>a DEF ProxyJobs
<1>2. Step(j, k) /\ files' = [files EXCEPT ![FileNames[j.stage]] = Rendered(FileNames[j.stage], j.profile)]
  BY <1>1 DEF FileWritten
<1>3. /\ ProxyFilesTyped'
      /\ j.stage = 1 => /\ files'.env = Rendered("env", j.profile)
      /\ j.stage = 2 => /\ files'.override = Rendered("override", j.profile) /\ files'.env = files.env
      /\ j.stage = 3 => /\ files'.xray = Rendered("xray", j.profile)
                        /\ files'.env = files.env /\ files'.override = files.override
  <2>1. ProxyFilesTyped
    BY JobTyped
  <2>2. CASE j.stage = 1
    <3>1. files' = [files EXCEPT !["env"] = Rendered("env", j.profile)]
      BY <1>2, <2>2 DEF FileNames
    <3> QED BY <1>0, <2>1, <2>2, <3>1, RenderedTyped DEF ProxyFilesTyped
  <2>3. CASE j.stage = 2
    <3>1. files' = [files EXCEPT !["override"] = Rendered("override", j.profile)]
      BY <1>2, <2>3 DEF FileNames
    <3> QED BY <1>0, <2>1, <2>3, <3>1, RenderedTyped DEF ProxyFilesTyped
  <2>4. CASE j.stage = 3
    <3>1. files' = [files EXCEPT !["xray"] = Rendered("xray", j.profile)]
      BY <1>2, <2>4 DEF FileNames
    <3> QED BY <1>0, <2>1, <2>4, <3>1, RenderedTyped DEF ProxyFilesTyped
  <2> QED BY <1>0, <2>2, <2>3, <2>4
<1>4. ProxyTyped'
  BY <1>0, <1>1, <1>2, <1>3 DEF ProxyInv, ProxyTyped, FormTyped, Step
<1>5. StoredIsValid'
  <2>1. Valid(k.profile)
    BY <1>0, <1>1 DEF ProxyInv, StoredIsValid
  <2>2. Valid(profile)' /\ jobs' = (jobs \ {j}) \cup {k}
    BY <1>0, <1>2 DEF ProxyInv, StoredIsValid, Step, Valid
  <2> QED BY <1>0, <1>1, <2>1, <2>2 DEF ProxyInv, StoredIsValid
<1>6. ProxyAloneInv'
  <2>1. WritesThem(j) => ApplyFinds(k)' /\ WritesThem(k)'
    <3> SUFFICES ASSUME WritesThem(j) PROVE WritesThem(k)'
      BY <1>0, <1>1 DEF ApplyFinds
    <3>1. j.profile = profile
      BY <1>0 DEF WritesThem
    <3>2. CASE j.stage = 1
      BY <1>0, <1>1, <1>3, <3>1, <3>2 DEF WritesThem, Rendered
    <3>3. CASE j.stage = 2
      BY <1>0, <1>1, <1>3, <3>1, <3>3 DEF WritesThem, Rendered
    <3>4. CASE j.stage = 3
      BY <1>0, <1>1, <1>3, <3>1, <3>4 DEF WritesThem, Rendered
    <3> QED BY <1>0, <3>2, <3>3, <3>4
  <2> QED BY <1>0, <1>2, <2>1, StepsAlone
<1>7. EffectInv' /\ TestedInv'
  BY <1>0, <1>1, <1>2, QuietProxyStep DEF Step
<1> QED BY <1>4, <1>5, <1>6, <1>7 DEF ProxyInv

LEMMA TargetsKeeps == ASSUME ProxyInv, NEW j \in jobs, TargetsChosen(j) PROVE ProxyInv'
<1>0. /\ j \in ProxyJobs /\ j.kind = "apply" /\ j.stage = 0 /\ profile \in Profiles
      /\ UNCHANGED <<profile, files, stack, form, diary>>
  BY JobTyped DEF TargetsChosen
<1>1. Targets(profile) \in SUBSET (Routable \cup {"sidecar"})
  BY <1>0, ProfileForms DEF Targets
<1>2. [j EXCEPT !.stage = 1, !.profile = profile, !.targets = Targets(profile)] \in ProxyJobs
  <2>1. \A m \in ProxyJobs : /\ [m EXCEPT !.stage = 1] \in ProxyJobs /\ [m EXCEPT !.profile = profile] \in ProxyJobs
                             /\ [m EXCEPT !.targets = Targets(profile)] \in ProxyJobs
    BY <1>0, <1>1 DEF ProxyJobs
  <2> QED BY <1>0, <2>1
<1>3. PICK k \in ProxyJobs : /\ k.kind = "apply" /\ k.profile = profile /\ k.stage = 1 /\ k.targets = Targets(profile)
                             /\ k = [j EXCEPT !.stage = 1, !.profile = profile, !.targets = Targets(profile)]
  BY <1>0, <1>2 DEF ProxyJobs
<1>4. Step(j, k)
  BY <1>3 DEF TargetsChosen
<1>5. ProxyTyped'
  BY <1>0, <1>3, <1>4 DEF ProxyInv, ProxyTyped, ProxyFilesTyped, FormTyped, Step
<1>6. StoredIsValid'
  BY <1>0, <1>3, <1>4 DEF ProxyInv, StoredIsValid, Step
<1>7. ProxyAloneInv'
  <2>1. ApplyFinds(j) => ApplyFinds(k)' /\ WritesThem(k)'
    BY <1>0, <1>3 DEF ApplyFinds, WritesThem
  <2> QED BY <1>0, <1>4, <2>1, StepsAlone
<1>8. EffectInv' /\ TestedInv'
  BY <1>0, <1>3, <1>4, QuietProxyStep DEF Step
<1> QED BY <1>5, <1>6, <1>7, <1>8 DEF ProxyInv

(* docker compose starts the sidecar when the files define it. *)
LEMMA SidecarRuns ==
    ASSUME ProxyTyped
    PROVE  /\ Sidecar \in VlessLinks \cup {NoLink, NoSidecar}
           /\ "sidecar" \notin files.override => Sidecar = NoSidecar /\ files.override = {}
           /\ "sidecar" \in files.override =>
                 /\ Sidecar # NoSidecar
                 /\ stack.sidecar # NoSidecar => Sidecar = stack.sidecar
                 /\ stack.sidecar = NoSidecar => Sidecar \in files.xray
<1>1. stack.sidecar \in VlessLinks \cup {NoLink, NoSidecar}
  BY DEF ProxyTyped
<1>2. PICK l \in VlessLinks \cup {NoLink} : files.xray = {l}
  BY DEF ProxyTyped, ProxyFilesTyped
<1>3. l # NoSidecar /\ (CHOOSE x \in files.xray : TRUE) = l
  BY <1>2, ProxyBounds DEF NoLink, NoSidecar
<1>4. "sidecar" \notin files.override => files.override = {}
  BY DEF ProxyTyped, ProxyFilesTyped
<1>5. "sidecar" \notin files.override => Sidecar = NoSidecar
  BY DEF Sidecar
<1>6. "sidecar" \in files.override /\ stack.sidecar # NoSidecar => Sidecar = stack.sidecar
  BY DEF Sidecar
<1>7. "sidecar" \in files.override /\ stack.sidecar = NoSidecar => Sidecar = l
  BY <1>3 DEF Sidecar
<1> QED BY <1>1, <1>2, <1>3, <1>4, <1>5, <1>6, <1>7

LEMMA RoutesTyped ==
    ASSUME ProxyTyped, NEW T
    PROVE  RoutedBy(T) \subseteq Routable
  BY DEF ProxyTyped, RoutedBy

(* What compose leaves behind: no service without its sidecar, ...         *)
LEMMA ComposedHasSidecar ==
    ASSUME ProxyTyped, NEW p \in Profiles, Composable(Targets(p)), RoutedBy(Targets(p)) # {}
    PROVE  Sidecar # NoSidecar
<1> SUFFICES ASSUME "sidecar" \notin files.override PROVE RoutedBy(Targets(p)) = {}
  BY SidecarRuns
<1>1. files.override = {}
  BY SidecarRuns
<1>2. Targets(p) = Routable
  BY <1>1, ProfileForms, ProxyBounds DEF Targets, Composable
<1>3. stack.routed \subseteq Routable
  BY DEF ProxyTyped
<1> QED BY <1>1, <1>2, <1>3 DEF RoutedBy

(* ... and, from the profile's own files, what the profile says. *)
LEMMA ComposedIsInEffect ==
    ASSUME ProxyTyped, NEW p \in Profiles, files = AllRendered(p), Composable(Targets(p)),
           stack' = [routed |-> RoutedBy(Targets(p)), sidecar |-> Sidecar],
           diary'.kept = (stack.routed \ p.enabled)
                            \cup IF stack.sidecar # NoSidecar THEN {"sidecar"} ELSE {}
    PROVE  InEffect(p)'
<1>1. stack.routed \subseteq Routable /\ "sidecar" \notin Routable
  BY ProxyBounds DEF ProxyTyped
<1>2. /\ files.env = Rendered("env", p) /\ files.override = Rendered("override", p)
      /\ files.xray = Rendered("xray", p)
  BY AllFilesRendered DEF ProxyTyped
<1>3. CASE p.mode = "direct"
  <2>1. files.env = {} /\ files.override = {} /\ Targets(p) = Routable
    BY <1>2, <1>3 DEF Rendered, Targets
  <2>2. RoutedBy(Targets(p)) = {}
    BY <1>1, <2>1 DEF RoutedBy
  <2>3. Sidecar = NoSidecar
    BY <2>1, SidecarRuns
  <2> QED BY <1>3, <2>2, <2>3 DEF InEffect
<1>4. CASE p.mode = "vless"
  <2>1. /\ files.env = {"proxy"} /\ files.override = p.enabled \cup {"sidecar"} /\ files.xray = {p.link}
        /\ Targets(p) = p.enabled \cup {"sidecar"} /\ p.enabled \subseteq Routable
    BY <1>2, <1>4, ProfileForms DEF Rendered, Targets
  <2>2. RoutedBy(Targets(p)) = (stack.routed \ p.enabled) \cup p.enabled
    BY <1>1, <2>1 DEF RoutedBy
  <2>3. stack'.routed \ diary'.kept = p.enabled \ diary'.kept
    BY <1>1, <2>1, <2>2
  <2>4. stack'.sidecar # NoSidecar /\ (stack'.sidecar = p.link \/ "sidecar" \in diary'.kept)
    BY <2>1, SidecarRuns
  <2> QED BY <1>4, <2>3, <2>4 DEF InEffect
<1> QED BY <1>3, <1>4, ProfileForms

LEMMA ComposeKeeps == ASSUME ProxyInv, NEW j \in jobs, ComposeRuns(j) PROVE ProxyInv'
<1>0. /\ j \in ProxyJobs /\ j.profile \in Profiles /\ j.kind = "apply" /\ j.stage = 1
      /\ UNCHANGED <<profile, files, form>>
      /\ ProxyTyped /\ j.targets = Targets(j.profile)
  BY JobTyped DEF ComposeRuns, ProxyInv, StoredIsValid
<1>1. [j EXCEPT !.stage = 4] \in ProxyJobs
  BY <1>0 DEF ProxyJobs
<1>2. PICK k \in ProxyJobs : /\ k.kind = "apply" /\ k.profile = j.profile /\ k.stage = 4 /\ k.targets = j.targets
                             /\ k = [j EXCEPT !.stage = 4]
  BY <1>0, <1>1 DEF ProxyJobs
<1>3. Step(j, k)
  BY <1>2 DEF ComposeRuns
<1>4. CASE ~Composable(j.targets)
  <2>1. UNCHANGED <<stack, diary>>
    BY <1>4 DEF ComposeRuns
  <2>2. ProxyTyped'
    BY <1>0, <1>2, <1>3, <2>1 DEF ProxyInv, ProxyTyped, ProxyFilesTyped, FormTyped, Step
  <2>3. StoredIsValid'
    BY <1>0, <1>2, <1>3 DEF ProxyInv, StoredIsValid, Step
  <2>4. ProxyAloneInv'
    <3>1. ApplyFinds(j) => ApplyFinds(k)' /\ WritesThem(k)'
      BY <1>0, <1>2 DEF ApplyFinds, WritesThem
    <3> QED BY <1>3, <2>1, <3>1, StepsAlone
  <2>5. EffectInv' /\ TestedInv'
    BY <1>0, <1>2, <1>3, <2>1, QuietProxyStep DEF Step
  <2> QED BY <2>2, <2>3, <2>4, <2>5 DEF ProxyInv
<1>5. CASE Composable(j.targets)
  <2>1. /\ stack' = [routed |-> RoutedBy(j.targets), sidecar |-> Sidecar]
        /\ diary' = [diary EXCEPT
               !.applied = IF "overlap" \in diary.trouble THEN NoProfile ELSE j.profile,
               !.kept = (stack.routed \ j.profile.enabled)
                           \cup IF stack.sidecar # NoSidecar THEN {"sidecar"} ELSE {},
               !.trouble = @ \ {"stopped"}]
    BY <1>5 DEF ComposeRuns
  <2>2. /\ DOMAIN diary' = DOMAIN diary /\ diary'.late = diary.late
        /\ diary'.applied = IF "overlap" \in diary.trouble THEN NoProfile ELSE j.profile
        /\ diary'.kept = (stack.routed \ j.profile.enabled)
                            \cup IF stack.sidecar # NoSidecar THEN {"sidecar"} ELSE {}
        /\ diary'.trouble = diary.trouble \ {"stopped"}
    BY <1>0, <2>1 DEF ProxyTyped
  <2>3. stack' \in [routed : SUBSET Routable, sidecar : VlessLinks \cup {NoLink, NoSidecar}]
    BY <1>0, <2>1, SidecarRuns, RoutesTyped
  <2>4. ProxyTyped'
    BY <1>0, <1>2, <1>3, <2>2, <2>3 DEF ProxyInv, ProxyTyped, ProxyFilesTyped, FormTyped, Step
  <2>5. StoredIsValid'
    BY <1>0, <1>2, <1>3 DEF ProxyInv, StoredIsValid, Step
  <2>6. ProxyAloneInv'
    <3>1. ApplyFinds(j) => ApplyFinds(k)' /\ WritesThem(k)'
      BY <1>0, <1>2 DEF ApplyFinds, WritesThem
    <3>2. "overlap" \notin diary'.trouble => "overlap" \notin diary.trouble
      BY <2>2
    <3> QED BY <1>3, <3>1, <3>2, StepsAlone
  <2>7. EffectInv'
    <3>1. stack'.routed # {} => stack'.sidecar # NoSidecar
      BY <1>0, <1>5, <2>1, ComposedHasSidecar
    <3>2. ASSUME diary'.applied # NoProfile PROVE InEffect(diary.applied)'
      <4>1. diary'.applied = j.profile /\ "overlap" \notin diary.trouble
        BY <2>2, <3>2
      <4>2. files = AllRendered(j.profile)
        BY <1>0, <4>1 DEF ProxyInv, ProxyAloneInv, ApplyFinds
      <4>3. InEffect(j.profile)'
        BY <1>0, <1>5, <2>1, <2>2, <4>2, ComposedIsInEffect
      <4> QED BY <4>1, <4>3 DEF InEffect
    <3> QED BY <3>1, <3>2 DEF EffectInv
  <2>8. TestedInv'
    BY <1>0, <1>2, <1>3, <2>2 DEF ProxyInv, TestedInv, Step
  <2> QED BY <2>4, <2>5, <2>6, <2>7, <2>8 DEF ProxyInv
<1> QED BY <1>4, <1>5

LEMMA StopKeeps == ASSUME ProxyInv, NEW j \in jobs, ComposeStops(j) PROVE ProxyInv'
<1>0. /\ j.kind = "apply" /\ jobs' = jobs \ {j}
      /\ UNCHANGED <<profile, files, form>>
      /\ ProxyTyped /\ diary' = [diary EXCEPT !.trouble = @ \cup {"stopped"}]
  BY DEF ComposeStops, ProxyInv
<1>1. PICK done : stack' = [routed |-> RoutedBy(done), sidecar |-> Sidecar]
  BY DEF ComposeStops
<1>2. DOMAIN diary' = DOMAIN diary /\ diary'.late = diary.late /\ diary'.trouble = diary.trouble \cup {"stopped"}
  BY <1>0 DEF ProxyTyped
<1>3. stack' \in [routed : SUBSET Routable, sidecar : VlessLinks \cup {NoLink, NoSidecar}]
  BY <1>0, <1>1, SidecarRuns, RoutesTyped
<1>4. ProxyTyped' /\ StoredIsValid'
  BY <1>0, <1>2, <1>3 DEF ProxyInv, ProxyTyped, ProxyFilesTyped, FormTyped, StoredIsValid
<1>5. ProxyAloneInv'
  <2>1. ApplyFinds(j) => files' = AllRendered(profile)'
    BY <1>0 DEF ApplyFinds
  <2>2. "overlap" \notin diary'.trouble => "overlap" \notin diary.trouble
    BY <1>2
  <2> QED BY <1>0, <2>1, <2>2, EndsAlone
<1>6. EffectInv' /\ TestedInv'
  BY <1>0, <1>2 DEF ProxyInv, EffectInv, TestedInv
<1> QED BY <1>4, <1>5, <1>6 DEF ProxyInv

LEMMA AnsweredKeeps == ASSUME ProxyInv, NEW j \in jobs, JobAnswered(j) PROVE ProxyInv'
<1>0. /\ j \in ProxyJobs /\ j.profile \in Profiles /\ j.stage = 4
      /\ UNCHANGED <<profile, files, stack, diary>> /\ ProxyTyped
  BY JobTyped DEF JobAnswered, ProxyInv
<1>1. CASE j.kind = "apply"
  <2>0. Job("get", Direct) \in ProxyJobs /\ Job("get", Direct).kind = "get" /\ Job("get", Direct).stage = 0
    BY DirectIsValid DEF Job, ProxyJobs
  <2>1. PICK k \in ProxyJobs : k = Job("get", Direct) /\ k.kind = "get" /\ k.stage = 0
    BY <2>0
  <2>2. Step(j, k) /\ UNCHANGED form
    BY <1>1, <2>1 DEF JobAnswered
  <2>3. ProxyTyped' /\ StoredIsValid'
    BY <1>0, <2>1, <2>2 DEF ProxyInv, ProxyTyped, ProxyFilesTyped, FormTyped, StoredIsValid, Step
  <2>4. ProxyAloneInv'
    <3>1. ApplyFinds(k)' /\ WritesThem(k)'
      BY <2>1 DEF ApplyFinds, WritesThem
    <3> QED BY <1>0, <2>2, <3>1, StepsAlone
  <2>5. EffectInv' /\ TestedInv'
    BY <1>0, <2>1, <2>2, QuietProxyStep DEF Step
  <2> QED BY <2>3, <2>4, <2>5 DEF ProxyInv
<1>2. CASE j.kind # "apply"
  <2> DEFINE d == j.profile.mode = "vless"
             p == IF j.kind = "save" THEN FALSE ELSE form.passed
  <2>1. jobs' = jobs \ {j} /\ form' = [form EXCEPT !.draft = j.profile, !.derived = d, !.passed = p]
    BY <1>2 DEF JobAnswered
  <2>2. d \in BOOLEAN /\ p \in BOOLEAN
    BY <1>0 DEF ProxyTyped, FormTyped
  <2>3. Valid(j.profile) /\ (d => j.profile.link \in GoodLinks)
    <3>1. Valid(j.profile)
      BY <1>0, <1>2 DEF ProxyInv, StoredIsValid
    <3> QED BY <3>1, DirectIsValid DEF Valid
  <2> HIDE DEF d, p
  <2>4. FormTyped(form') /\ form'.draft = j.profile /\ form'.derived = d
    BY <1>0, <2>1, <2>2 DEF ProxyTyped, FormTyped
  <2>5. ProxyTyped' /\ StoredIsValid'
    BY <1>0, <2>1, <2>4 DEF ProxyInv, ProxyTyped, ProxyFilesTyped, StoredIsValid
  <2>6. ProxyAloneInv'
    <3>1. WritesThem(j) => files' = AllRendered(profile)'
      BY <1>0, <1>2, JobTyped, AllFilesRendered DEF WritesThem
    <3> QED BY <1>0, <2>1, <3>1, EndsAlone
  <2>7. EffectInv'
    BY <1>0 DEF ProxyInv, EffectInv, InEffect
  <2>8. TestedInv'
    BY <1>0, <2>1, <2>3, <2>4 DEF ProxyInv, TestedInv
  <2> QED BY <2>5, <2>6, <2>7, <2>8 DEF ProxyInv
<1> QED BY <1>1, <1>2

LEMMA ProxyStart == ProxyInit => ProxyInv
<1> SUFFICES ASSUME ProxyInit PROVE ProxyInv
  OBVIOUS
<1>1. profile \in Profiles /\ Valid(profile) /\ (profile # Direct => profile.enabled = Routable)
  <2>1. CASE profile = Direct
    BY <2>1, DirectIsValid
  <2>2. ASSUME NEW l \in GoodLinks, profile = Vless(l, Routable)
        PROVE  profile \in Profiles /\ Valid(profile) /\ profile.enabled = Routable
    BY <2>2, ProxyBounds DEF Profiles, Valid, Vless
  <2> QED BY <2>1, <2>2 DEF ProxyInit
<1>2. ProxyFilesTyped
  BY <1>1, RenderedTyped DEF ProxyInit, AllRendered, ProxyFilesTyped
<1>3. stack \in [routed : SUBSET Routable, sidecar : VlessLinks \cup {NoLink, NoSidecar}]
  BY <1>1, ProfileForms DEF ProxyInit
<1>4. FormTyped(form) /\ ~form.derived
  BY <1>1 DEF ProxyInit, FormTyped
<1>5. DOMAIN diary = {"acts", "applied", "kept", "late", "trouble"} /\ diary.applied = profile /\ diary.kept = {}
  BY DEF ProxyInit
<1>6. ProxyTyped /\ StoredIsValid
  BY <1>1, <1>2, <1>3, <1>4, <1>5 DEF ProxyInit, ProxyTyped, StoredIsValid
<1>7. ProxyAloneInv /\ TestedInv
  BY <1>4 DEF ProxyInit, ProxyAloneInv, TestedInv
<1>8. EffectInv
  <2>1. CASE profile = Direct
    BY <2>1, <1>5, DirectIsValid DEF ProxyInit, EffectInv, InEffect
  <2>2. CASE profile # Direct
    <3>1. /\ profile.mode = "vless" /\ profile.link \in VlessLinks /\ profile.enabled = Routable
          /\ stack = [routed |-> Routable, sidecar |-> profile.link]
      BY <1>1, <2>2, ProfileForms DEF ProxyInit
    <3> QED BY <1>5, <3>1, ProxyBounds DEF EffectInv, InEffect
  <2> QED BY <2>1, <2>2
<1> QED BY <1>6, <1>7, <1>8 DEF ProxyInv

LEMMA ProxyStep == ASSUME ProxyInv, [ProxyNext]_proxy PROVE ProxyInv'
<1>1. CASE Polled \/ TestClicked \/ ProfileSaved \/ ApplyAsked
  BY <1>1, RequestedKeeps, ClickKeeps
<1>2. ASSUME NEW p \in {Direct} \cup {Vless(l, e) : l \in VlessLinks, e \in SUBSET Routable}, FormEdited(p)
      PROVE  ProxyInv'
  BY <1>2, EditKeeps DEF Profiles
<1>3. ASSUME NEW l \in form.testing, TestAnswered(l) PROVE ProxyInv'
  BY <1>3, TestAnswerKeeps
<1>4. ASSUME NEW j \in jobs, ProfileStored(j) \/ ProfileRead(j) \/ FileWritten(j) \/ TargetsChosen(j)
      PROVE  ProxyInv'
  BY <1>4, StoredKeeps, ReadKeeps, WrittenKeeps, TargetsKeeps
<1>5. ASSUME NEW j \in jobs, ComposeRuns(j) \/ ComposeStops(j) \/ JobAnswered(j) PROVE ProxyInv'
  BY <1>5, ComposeKeeps, StopKeeps, AnsweredKeeps
<1>6. CASE UNCHANGED proxy
  <2>1. UNCHANGED <<profile, files, stack, jobs, form, diary>>
    BY <1>6 DEF proxy
  <2>2. FormTyped(form')
    BY <2>1 DEF ProxyInv, ProxyTyped
  <2>3. TestedInv'
    BY <2>1 DEF ProxyInv, TestedInv
  <2> QED BY <2>1, <2>2, <2>3, BackendFrame DEF ProxyInv
<1> QED BY <1>1, <1>2, <1>3, <1>4, <1>5, <1>6 DEF ProxyNext

LEMMA ProxyPromises == ProxyInv => RoutesLeadSomewhere /\ AppliedTakesEffect /\ SavesTestedLinks
<1> SUFFICES ASSUME ProxyInv PROVE RoutesLeadSomewhere /\ AppliedTakesEffect /\ SavesTestedLinks
  OBVIOUS
<1>1. RoutesLeadSomewhere
  BY DEF ProxyInv, EffectInv, RoutesLeadSomewhere
<1>2. AppliedTakesEffect
  <2> SUFFICES ASSUME jobs = {}, diary.trouble = {}
               PROVE  files = AllRendered(profile) /\ (diary.applied = profile => InEffect(profile))
    BY DEF AppliedTakesEffect, InEffect
  <2>1. profile # NoProfile
    BY ProfileForms DEF ProxyInv, ProxyTyped, NoProfile
  <2> QED BY <2>1 DEF ProxyInv, ProxyAloneInv, EffectInv
<1>3. SavesTestedLinks
  BY DEF ProxyInv, TestedInv, SavesTestedLinks
<1> QED BY <1>1, <1>2, <1>3

(* No service is routed to a proxy that is not there; a profile that was   *)
(* applied is what the files and containers follow, but for requests that  *)
(* overlapped or a docker that stopped halfway; and only tested links are  *)
(* saved, unless a late answer vouched for another one                     *)
(* (ProxySettingsService, useProxySettings).                               *)
THEOREM ProxyFollowsProfile ==
    ProxySpec => [](RoutesLeadSomewhere /\ AppliedTakesEffect /\ SavesTestedLinks)
<1> QED BY ProxyStart, ProxyStep, ProxyPromises, PTL DEF ProxySpec

-----------------------------------------------------------------------------
(* Logins of providers *)

LoginKinds == {"none", "key", "oauth"}

LoginCalls ==
    [kind : {"none", "authorize", "key", "callback", "disconnect"}, of : Vendors \cup {NoVendor},
     typed : Vendors \cup {NoVendor}, at : {"none", "sent", "served", "reload"}, own : 0 .. MaxOverviews]

LoginForms ==
    [of : Vendors \cup {NoVendor}, kind : {"none", "api", "code", "auto"}, code : BOOLEAN]

LoginsTyped ==
    /\ logins \in [Vendors -> LoginKinds] /\ expecting \in [Vendors -> BOOLEAN]
    /\ loginForm \in LoginForms /\ keyDraft \in Vendors \cup {NoVendor} /\ loginCall \in LoginCalls
    /\ overviews \in [LoginViews -> [at : {"none", "asked", "said", "over"}, says : [Vendors -> LoginKinds]]]
    /\ shownLogins \in [Vendors -> LoginKinds \cup {"unknown"}]
    /\ loginTally \in [calls : 0 .. MaxLoginCalls, faults : 0 .. MaxLoginFaults, crossed : BOOLEAN]

(* Which form is open while a call is under way, and what OpenCode waits   *)
(* for then.                                                               *)
LoginFormInv ==
    /\ loginCall.at = "none" => loginCall = NoCall
    /\ loginCall.at # "none" => loginCall.kind # "none" /\ loginCall.of \in Vendors
    /\ loginCall.at = "reload" <=> loginCall.own # 0
    /\ loginCall.at = "reload" => loginCall.own \in UnderWay /\ loginForm.kind = "none"
    /\ loginCall.at \in {"sent", "served"} =>
         /\ loginCall.kind \in {"authorize", "disconnect"} => loginForm.kind = "none"
         /\ loginCall.kind = "key" => loginForm.kind = "api"
         /\ loginCall.kind = "callback" => loginForm.kind \in {"code", "auto"} /\ loginForm.of = loginCall.of
         /\ loginCall.kind = "authorize" => Method[loginCall.of] \in {"code", "auto"}
    /\ loginCall.at = "served" /\ loginCall.kind = "authorize" => expecting[loginCall.of]
    /\ loginForm.kind = "none" => loginForm = NoForm
    /\ loginForm.kind # "none" => loginForm.of \in Vendors
    /\ loginForm.kind \in {"code", "auto"} => expecting[loginForm.of] \/ logins[loginForm.of] = "oauth"

(* A call has changed the logins and its overview is still to come. *)
Changed == loginCall.at = "served" /\ loginCall.kind # "authorize"

(* While no overview overtook another and no call failed, what an overview *)
(* says, and what is shown, is so.                                         *)
OverviewInv ==
    ~loginTally.crossed /\ loginTally.faults = 0 =>
        /\ \A o, n \in UnderWay : o = n
        /\ ~Changed => \A o \in LoginViews : overviews[o].at = "said" => overviews[o].says = logins
        /\ ~Changed /\ loginCall.at # "reload" => \A v \in Vendors : shownLogins[v] \in {"unknown", logins[v]}

LoginInv == LoginsTyped /\ LoginFormInv /\ OverviewInv

LEMMA LoginsStart == ASSUME LoginInit PROVE LoginInv
<1>1. LoginsTyped
  BY LoginBounds DEF LoginInit, LoginsTyped, LoginKinds, LoginCalls, LoginForms, NoForm, NoCall, Unasked, LoginViews
<1>2. LoginFormInv
  BY DEF LoginInit, LoginFormInv, NoForm, NoCall
<1>3. UnderWay = {} /\ \A o \in LoginViews : overviews[o].at = "none"
  BY DEF LoginInit, UnderWay, Unasked
<1>4. OverviewInv
  BY <1>3 DEF LoginInit, OverviewInv
<1> QED BY <1>1, <1>2, <1>4 DEF LoginInv

(* Asking for one more overview. *)
LEMMA OverviewAskedFor ==
    ASSUME LoginsTyped, NEW o \in LoginViews, IsNextOverview(o), overviews' = AskedIn(overviews, o)
    PROVE  /\ overviews' \in [LoginViews -> [at : {"none", "asked", "said", "over"}, says : [Vendors -> LoginKinds]]]
           /\ overviews'[o].at = "asked" /\ overviews[o].at = "none"
           /\ \A n \in LoginViews \ {o} : overviews'[n] = overviews[n]
           /\ UnderWay' = UnderWay \cup {o} /\ o \notin UnderWay
<1>1. overviews'[o] = [at |-> "asked", says |-> [v \in Vendors |-> "none"]]
  BY DEF LoginsTyped, AskedIn, Unasked
<1>2. /\ overviews' \in [LoginViews -> [at : {"none", "asked", "said", "over"}, says : [Vendors -> LoginKinds]]]
      /\ \A n \in LoginViews \ {o} : overviews'[n] = overviews[n]
  <2> DEFINE new == [Unasked EXCEPT !.at = "asked"]
  <2>1. new = [at |-> "asked", says |-> [v \in Vendors |-> "none"]]
    BY DEF Unasked
  <2>2. new \in [at : {"none", "asked", "said", "over"}, says : [Vendors -> LoginKinds]]
    BY <2>1 DEF LoginKinds
  <2>3. overviews' = [overviews EXCEPT ![o] = new]
    BY DEF AskedIn
  <2> HIDE DEF new
  <2> QED BY <2>2, <2>3 DEF LoginsTyped
<1>3. overviews'[o].at = "asked" /\ overviews[o].at = "none"
  BY <1>1 DEF IsNextOverview
<1> QED BY <1>2, <1>3 DEF UnderWay

LEMMA LoginOverviewTurns ==
    ASSUME LoginInv, LoginsAsked \/ \E o \in LoginViews : LoginsRead(o) \/ LoginsShown(o) \/ LoginsFail(o)
    PROVE  LoginInv'
<1> USE DEF LoginInv
<1>1. CASE LoginsAsked
  <2>1. PICK o \in LoginViews : IsNextOverview(o) /\ overviews' = AskedIn(overviews, o)
    BY <1>1 DEF LoginsAsked
  <2>2. /\ loginTally' = [loginTally EXCEPT !.crossed = @ \/ UnderWay # {}]
        /\ UNCHANGED <<logins, expecting, loginForm, keyDraft, loginCall, shownLogins>>
    BY <1>1 DEF LoginsAsked
  <2>3. /\ loginTally' \in [calls : 0 .. MaxLoginCalls, faults : 0 .. MaxLoginFaults, crossed : BOOLEAN]
        /\ loginTally'.faults = loginTally.faults
        /\ ~loginTally'.crossed => ~loginTally.crossed /\ UnderWay = {}
    BY <2>2 DEF LoginsTyped
  <2>4. LoginsTyped'
    BY <2>1, <2>2, <2>3, OverviewAskedFor DEF LoginsTyped
  <2>5. LoginFormInv'
    BY <2>1, <2>2, OverviewAskedFor DEF LoginFormInv
  <2>6. OverviewInv'
    BY <2>1, <2>2, <2>3, OverviewAskedFor DEF OverviewInv, Changed
  <2> QED BY <2>4, <2>5, <2>6
<1>2. ASSUME NEW o \in LoginViews, LoginsRead(o) PROVE LoginInv'
  <2>1. /\ overviews[o].at = "asked"
        /\ overviews' = [overviews EXCEPT ![o] = [at |-> "said", says |-> logins]]
        /\ UNCHANGED <<logins, expecting, loginForm, keyDraft, loginCall, shownLogins, loginTally>>
    BY <1>2 DEF LoginsRead
  <2>2. UnderWay' = UnderWay
    BY <2>1 DEF UnderWay, LoginsTyped
  <2>3. LoginsTyped'
    BY <2>1 DEF LoginsTyped
  <2>4. LoginFormInv'
    BY <2>1, <2>2 DEF LoginFormInv
  <2>5. \A n \in LoginViews : overviews'[n].at = "said" => n = o \/ overviews'[n] = overviews[n]
    BY <2>1 DEF LoginsTyped
  <2>6. overviews'[o].says = logins
    BY <2>1 DEF LoginsTyped
  <2>7. OverviewInv'
    BY <2>1, <2>2, <2>5, <2>6 DEF OverviewInv, Changed
  <2> QED BY <2>3, <2>4, <2>7
<1>3. ASSUME NEW o \in LoginViews, LoginsShown(o) \/ LoginsFail(o) PROVE LoginInv'
  <2>1. /\ o \in UnderWay /\ loginCall' = Released(o) /\ overviews' = [overviews EXCEPT ![o].at = "over"]
        /\ UNCHANGED <<logins, expecting, loginForm, keyDraft>>
    BY <1>3 DEF LoginsShown, LoginsFail, UnderWay
  <2>2. /\ overviews' \in [LoginViews -> [at : {"none", "asked", "said", "over"}, says : [Vendors -> LoginKinds]]]
        /\ \A n \in LoginViews \ {o} : overviews'[n] = overviews[n]
        /\ overviews'[o].at = "over"
    BY <2>1 DEF LoginsTyped
  <2>3. UnderWay' = UnderWay \ {o}
    BY <2>2 DEF UnderWay
  <2>5. loginCall' = NoCall \/ (loginCall' = loginCall /\ loginCall.own # o)
    BY <2>1 DEF Released
  <2>10. NoCall \in LoginCalls
    BY LoginBounds DEF NoCall, LoginCalls
  <2>4. loginCall' \in LoginCalls
    BY <2>5, <2>10 DEF LoginsTyped
  <2>6. o # 0
    BY DEF LoginViews
  <2>7. LoginFormInv'
    BY <2>1, <2>3, <2>5, <2>6 DEF LoginFormInv, NoCall
  <2>8. CASE LoginsShown(o)
    <3>1. overviews[o].at = "said" /\ shownLogins' = overviews[o].says /\ UNCHANGED loginTally
      BY <2>8 DEF LoginsShown
    <3>2. LoginsTyped'
      BY <2>1, <2>2, <2>4, <3>1 DEF LoginsTyped
    <3>3. loginCall.at = "reload" /\ ~loginTally.crossed /\ loginTally.faults = 0 => loginCall' = NoCall
      BY <2>1, <2>5 DEF LoginFormInv, OverviewInv
    <3>4. Changed' => Changed
      BY <2>5 DEF Changed, NoCall
    <3>5. Changed /\ ~Changed' => loginCall.at = "reload"
      BY <2>1, <2>5, <2>6 DEF Changed, NoCall, LoginFormInv, Released
    <3>6. OverviewInv'
      BY <2>1, <2>2, <2>3, <3>1, <3>3, <3>4, <3>5 DEF OverviewInv, Changed
    <3> QED BY <2>7, <3>2, <3>6
  <2>9. CASE LoginsFail(o)
    <3>1. /\ UNCHANGED shownLogins
          /\ loginTally' = [loginTally EXCEPT !.faults = @ + 1] /\ loginTally.faults < MaxLoginFaults
      BY <2>9 DEF LoginsFail, LoginFault
    <3>2. /\ loginTally' \in [calls : 0 .. MaxLoginCalls, faults : 0 .. MaxLoginFaults, crossed : BOOLEAN]
          /\ loginTally'.faults # 0
      BY <3>1, LoginBounds DEF LoginsTyped
    <3>3. LoginsTyped'
      BY <2>1, <2>2, <2>4, <3>1, <3>2 DEF LoginsTyped
    <3> QED BY <2>7, <3>2, <3>3 DEF OverviewInv
  <2> QED BY <1>3, <2>8, <2>9
<1> QED BY <1>1, <1>2, <1>3

(* A call begins: what is known of the overviews stays. *)
LEMMA LoginCallBegins ==
    ASSUME LoginInv, LoginIdle, NEW kind \in {"authorize", "key", "callback", "disconnect"}, NEW v \in Vendors,
           NEW typed \in Vendors \cup {NoVendor}, Calls(kind, v, typed),
           UNCHANGED <<logins, expecting, loginForm, keyDraft, overviews, shownLogins>>,
           kind \in {"authorize", "disconnect"} => loginForm.kind = "none",
           kind = "key" => loginForm.kind = "api",
           kind = "callback" => loginForm.kind \in {"code", "auto"} /\ loginForm.of = v,
           kind = "authorize" => Method[v] \in {"code", "auto"}
    PROVE  LoginInv'
<1> USE DEF LoginInv
<1>1. /\ loginCall' = [kind |-> kind, of |-> v, typed |-> typed, at |-> "sent", own |-> 0]
      /\ loginTally.calls < MaxLoginCalls /\ loginTally' = [loginTally EXCEPT !.calls = @ + 1]
  BY DEF Calls
<1>2. loginCall' \in LoginCalls
  BY <1>1, LoginBounds DEF LoginCalls
<1>3. /\ loginTally' \in [calls : 0 .. MaxLoginCalls, faults : 0 .. MaxLoginFaults, crossed : BOOLEAN]
      /\ loginTally'.faults = loginTally.faults /\ loginTally'.crossed = loginTally.crossed
  BY <1>1, LoginBounds DEF LoginsTyped
<1>4. LoginsTyped'
  BY <1>2, <1>3 DEF LoginsTyped
<1>5. LoginFormInv'
  BY <1>1 DEF LoginFormInv
<1>6. UnderWay' = UnderWay /\ ~Changed /\ ~Changed' /\ loginCall.at = "none"
  BY <1>1 DEF UnderWay, Changed, LoginIdle, NoCall
<1>7. OverviewInv'
  BY <1>3, <1>6 DEF OverviewInv
<1> QED BY <1>4, <1>5, <1>7

LEMMA LoginFormTurns ==
    ASSUME LoginInv,
           \/ \E v \in Vendors : StartConnect(v) \/ Disconnects(v)
           \/ LoginTypes \/ FormClosed \/ LoginSubmits
    PROVE  LoginInv'
<1> USE DEF LoginInv
<1>1. ASSUME loginForm' \in LoginForms, keyDraft' \in Vendors \cup {NoVendor},
             UNCHANGED <<logins, expecting, loginCall, overviews, shownLogins, loginTally>>, LoginFormInv'
      PROVE  LoginInv'
  <2>1. LoginsTyped'
    BY <1>1 DEF LoginsTyped
  <2>2. OverviewInv'
    BY <1>1 DEF OverviewInv, UnderWay, Changed
  <2> QED BY <1>1, <2>1, <2>2
<1>2. ASSUME NEW v \in Vendors, StartConnect(v) PROVE LoginInv'
  <2>1. LoginIdle /\ loginForm = NoForm /\ UNCHANGED <<logins, expecting, keyDraft, overviews, shownLogins>>
    BY <1>2 DEF StartConnect
  <2>2. CASE Method[v] \in {"none", "api"}
    <3>1. loginForm' = [of |-> v, kind |-> "api", code |-> FALSE] /\ UNCHANGED <<loginCall, loginTally>>
      BY <1>2, <2>2 DEF StartConnect
    <3>2. loginForm' \in LoginForms /\ keyDraft' \in Vendors \cup {NoVendor}
      BY <2>1, <3>1 DEF LoginForms, LoginsTyped
    <3>3. LoginFormInv'
      BY <2>1, <3>1 DEF LoginFormInv, LoginIdle, NoCall, UnderWay
    <3> QED BY <1>1, <2>1, <3>1, <3>2, <3>3
  <2>3. CASE Method[v] \notin {"none", "api"}
    <3>1. Calls("authorize", v, NoVendor) /\ UNCHANGED loginForm
      BY <1>2, <2>3 DEF StartConnect
    <3>2. Method[v] \in {"code", "auto"}
      BY <2>3, LoginBounds
    <3>3. loginForm.kind = "none"
      BY <2>1 DEF NoForm
    <3> QED BY <2>1, <3>1, <3>2, <3>3, LoginCallBegins
  <2> QED BY <2>2, <2>3
<1>3. ASSUME NEW v \in Vendors, Disconnects(v) PROVE LoginInv'
  <2>1. /\ LoginIdle /\ loginForm = NoForm /\ Calls("disconnect", v, NoVendor)
        /\ UNCHANGED <<logins, expecting, loginForm, keyDraft, overviews, shownLogins>>
    BY <1>3 DEF Disconnects
  <2>2. loginForm.kind = "none"
    BY <2>1 DEF NoForm
  <2> QED BY <2>1, <2>2, LoginCallBegins
<1>4. CASE LoginTypes
  <2>1. UNCHANGED <<logins, expecting, loginCall, overviews, shownLogins, loginTally>> /\ loginForm # NoForm
    BY <1>4 DEF LoginTypes
  <2>2. /\ loginForm' \in LoginForms /\ loginForm'.of = loginForm.of /\ loginForm'.kind = loginForm.kind
        /\ loginForm'.kind = "none" => loginForm' = loginForm
    <3>1. CASE loginForm.kind = "api"
      BY <1>4, <3>1 DEF LoginTypes, LoginsTyped
    <3>2. CASE loginForm.kind = "code"
      <4>1. loginForm' = [loginForm EXCEPT !.code = TRUE]
        BY <1>4, <3>2 DEF LoginTypes
      <4> QED BY <3>2, <4>1 DEF LoginForms, LoginsTyped
    <3>3. loginForm.kind \in {"api", "code"}
      BY <1>4 DEF LoginTypes
    <3> QED BY <3>1, <3>2, <3>3
  <2>3. keyDraft' \in Vendors \cup {NoVendor}
    BY <1>4 DEF LoginTypes, LoginForms, LoginsTyped
  <2>4. LoginFormInv'
    BY <2>1, <2>2 DEF LoginFormInv, UnderWay
  <2> QED BY <1>1, <2>1, <2>2, <2>3, <2>4
<1>5. CASE FormClosed
  <2>1. LoginIdle /\ loginForm' = NoForm
        /\ UNCHANGED <<logins, expecting, keyDraft, loginCall, overviews, shownLogins, loginTally>>
    BY <1>5 DEF FormClosed
  <2>2. loginForm' \in LoginForms /\ keyDraft' \in Vendors \cup {NoVendor}
    BY <2>1 DEF NoForm, LoginForms, LoginsTyped
  <2>3. LoginFormInv'
    BY <2>1 DEF LoginFormInv, NoForm, LoginIdle, NoCall, UnderWay
  <2> QED BY <1>1, <2>1, <2>2, <2>3
<1>6. CASE LoginSubmits
  <2>1. LoginIdle /\ UNCHANGED <<logins, expecting, loginForm, keyDraft, overviews, shownLogins>>
    BY <1>6 DEF LoginSubmits
  <2>2. \/ loginForm.kind = "api" /\ Calls("key", loginForm.of, keyDraft)
        \/ loginForm.kind \in {"code", "auto"} /\ Calls("callback", loginForm.of, NoVendor)
    BY <1>6 DEF LoginSubmits
  <2>3. loginForm.of \in Vendors /\ keyDraft \in Vendors \cup {NoVendor}
    BY <2>2 DEF LoginFormInv, LoginsTyped
  <2> QED BY <2>1, <2>2, <2>3, LoginCallBegins
<1> QED BY <1>2, <1>3, <1>4, <1>5, <1>6

LEMMA LoginCallTurns ==
    ASSUME LoginInv, LoginServed \/ LoginAnswered \/ LoginFails
    PROVE  LoginInv'
<1> USE DEF LoginInv
<1>1. CASE LoginServed
  <2> DEFINE v == loginCall.of
  <2>1. /\ loginCall.at = "sent" /\ ~LoginRefused(loginCall)
        /\ loginCall' = [loginCall EXCEPT !.at = "served"]
        /\ UNCHANGED <<loginForm, keyDraft, overviews, shownLogins, loginTally>>
    BY <1>1 DEF LoginServed
  <2>2. v \in Vendors
    BY <2>1 DEF LoginFormInv
  <2>3. /\ loginCall' \in LoginCalls /\ loginCall'.kind = loginCall.kind /\ loginCall'.of = v
        /\ loginCall'.at = "served" /\ loginCall'.own = loginCall.own
    BY <2>1 DEF LoginsTyped, LoginCalls
  <2>4. /\ logins' \in [Vendors -> LoginKinds] /\ expecting' \in [Vendors -> BOOLEAN]
        /\ \A w \in Vendors \ {v} : logins'[w] = logins[w] /\ expecting'[w] = expecting[w]
    <3>1. PICK l : l = CASE loginCall.kind = "key" -> "key"
                         [] loginCall.kind = "callback" -> "oauth"
                         [] loginCall.kind = "disconnect" -> "none"
                         [] OTHER -> logins[v]
      OBVIOUS
    <3>2. PICK e : e = CASE loginCall.kind = "authorize" -> TRUE
                         [] loginCall.kind = "callback" -> FALSE
                         [] OTHER -> expecting[v]
      OBVIOUS
    <3>3. logins' = [logins EXCEPT ![v] = l] /\ expecting' = [expecting EXCEPT ![v] = e]
      BY <1>1, <3>1, <3>2 DEF LoginServed
    <3>4. l \in LoginKinds
      BY <2>2, <3>1 DEF LoginKinds, LoginsTyped
    <3>5. e \in BOOLEAN
      BY <2>2, <3>2, Zenon DEF LoginsTyped
    <3> QED BY <2>2, <3>3, <3>4, <3>5 DEF LoginsTyped
  <2>5. loginCall.kind = "authorize" => logins' = logins /\ expecting'[v]
    BY <1>1, <2>2 DEF LoginServed, LoginsTyped
  <2>6. loginCall.kind = "callback" => logins'[v] = "oauth"
    BY <1>1, <2>2 DEF LoginServed, LoginsTyped
  <2>7. loginCall.kind \in {"authorize", "key", "callback", "disconnect"}
    BY <2>1 DEF LoginsTyped, LoginCalls, LoginFormInv
  <2> HIDE DEF v
  <2>8. LoginsTyped'
    BY <2>1, <2>3, <2>4 DEF LoginsTyped
  <2>9. LoginFormInv'
    BY <2>1, <2>2, <2>3, <2>4, <2>5, <2>6, <2>7 DEF LoginFormInv, UnderWay, v
  <2>10. UnderWay' = UnderWay /\ (~Changed' => loginCall.kind = "authorize") /\ ~Changed
    BY <2>1, <2>3 DEF UnderWay, Changed
  <2>11. OverviewInv'
    BY <2>1, <2>3, <2>5, <2>10 DEF OverviewInv
  <2> QED BY <2>8, <2>9, <2>11
<1>2. CASE LoginAnswered
  <2>1. loginCall.at = "served" /\ UNCHANGED <<logins, expecting, keyDraft, shownLogins>>
    BY <1>2 DEF LoginAnswered
  <2>2. loginCall.of \in Vendors
    BY <2>1 DEF LoginFormInv
  <2>3. CASE loginCall.kind = "authorize"
    <3>1. /\ loginForm' = [of |-> loginCall.of, kind |-> Method[loginCall.of], code |-> FALSE]
          /\ loginCall' = NoCall /\ UNCHANGED <<overviews, loginTally>>
      BY <1>2, <2>3 DEF LoginAnswered
    <3>2. Method[loginCall.of] \in {"code", "auto"} /\ expecting[loginCall.of]
      BY <2>1, <2>3 DEF LoginFormInv
    <3>3. loginCall' \in LoginCalls /\ loginForm' \in LoginForms
      BY <2>2, <3>1, <3>2, LoginBounds DEF LoginCalls, LoginForms, NoCall
    <3>4. LoginsTyped'
      BY <2>1, <3>1, <3>3 DEF LoginsTyped
    <3>5. LoginFormInv'
      BY <2>1, <2>2, <3>1, <3>2 DEF LoginFormInv, NoCall, UnderWay
    <3>6. OverviewInv'
      BY <2>1, <2>3, <3>1 DEF OverviewInv, Changed, NoCall, UnderWay
    <3> QED BY <3>4, <3>5, <3>6
  <2>4. CASE loginCall.kind # "authorize"
    <3>1. /\ loginForm' = NoForm /\ loginTally' = [loginTally EXCEPT !.crossed = @ \/ UnderWay # {}]
      BY <1>2, <2>4 DEF LoginAnswered
    <3>2. PICK o \in LoginViews : /\ IsNextOverview(o) /\ overviews' = AskedIn(overviews, o)
                                  /\ loginCall' = [loginCall EXCEPT !.at = "reload", !.own = o]
      BY <1>2, <2>4 DEF LoginAnswered
    <3>3. /\ loginCall' \in LoginCalls /\ loginCall'.kind = loginCall.kind /\ loginCall'.of = loginCall.of
          /\ loginCall'.at = "reload" /\ loginCall'.own = o /\ o # 0
      <4> DEFINE called == [loginCall EXCEPT !.at = "reload"]
      <4>1. /\ called \in LoginCalls /\ called.kind = loginCall.kind /\ called.of = loginCall.of
            /\ called.at = "reload"
        BY DEF LoginsTyped, LoginCalls
      <4>2. loginCall' = [called EXCEPT !.own = o] /\ o \in 1 .. MaxOverviews
        BY <3>2 DEF LoginViews
      <4> HIDE DEF called
      <4> QED BY <4>1, <4>2, LoginBounds DEF LoginCalls
    <3>4. /\ loginTally' \in [calls : 0 .. MaxLoginCalls, faults : 0 .. MaxLoginFaults, crossed : BOOLEAN]
          /\ loginTally'.faults = loginTally.faults
          /\ ~loginTally'.crossed => ~loginTally.crossed /\ UnderWay = {}
      BY <3>1 DEF LoginsTyped
    <3>5. loginForm' \in LoginForms /\ loginForm'.kind = "none"
      BY <3>1 DEF LoginForms, NoForm
    <3>6. LoginsTyped'
      BY <2>1, <3>2, <3>3, <3>4, <3>5, OverviewAskedFor DEF LoginsTyped
    <3>7. LoginFormInv'
      BY <2>1, <2>2, <2>4, <3>1, <3>2, <3>3, <3>5, OverviewAskedFor DEF LoginFormInv
    <3>8. OverviewInv'
      <4>1. \A n \in LoginViews : overviews'[n].at = "said" => n \in UnderWay
        BY <3>2, OverviewAskedFor DEF UnderWay
      <4> QED BY <3>2, <3>3, <3>4, <4>1, OverviewAskedFor DEF OverviewInv
    <3> QED BY <3>6, <3>7, <3>8
  <2> QED BY <2>3, <2>4
<1>3. CASE LoginFails
  <2>1. /\ loginCall.at \in {"sent", "served"} /\ loginCall' = NoCall
        /\ UNCHANGED <<logins, expecting, loginForm, keyDraft, overviews, shownLogins>>
    BY <1>3 DEF LoginFails
  <2>2. \/ loginCall.at = "sent" /\ UNCHANGED loginTally
        \/ loginTally.faults < MaxLoginFaults /\ loginTally' = [loginTally EXCEPT !.faults = @ + 1]
    BY <1>3 DEF LoginFails, LoginFault
  <2>3. loginCall' \in LoginCalls
    BY <2>1, LoginBounds DEF LoginCalls, NoCall
  <2>4. /\ loginTally' \in [calls : 0 .. MaxLoginCalls, faults : 0 .. MaxLoginFaults, crossed : BOOLEAN]
        /\ (loginTally' = loginTally /\ loginCall.at = "sent") \/ loginTally'.faults # 0
    BY <2>2, LoginBounds DEF LoginsTyped
  <2>5. LoginsTyped'
    BY <2>1, <2>3, <2>4 DEF LoginsTyped
  <2>6. LoginFormInv'
    BY <2>1 DEF LoginFormInv, NoCall, UnderWay
  <2>7. OverviewInv'
    BY <2>1, <2>4 DEF OverviewInv, Changed, NoCall, UnderWay
  <2> QED BY <2>5, <2>6, <2>7
<1> QED BY <1>1, <1>2, <1>3

LEMMA LoginStep == ASSUME LoginInv, [LoginNext]_connecting PROVE LoginInv'
<1>1. CASE UNCHANGED connecting
  BY <1>1 DEF connecting, LoginInv, LoginsTyped, LoginFormInv, OverviewInv, Changed, UnderWay
<1> QED BY <1>1, LoginOverviewTurns, LoginFormTurns, LoginCallTurns DEF LoginNext

LEMMA LoginsAreTrue == ASSUME LoginInv PROVE LoginsLeadSomewhere
<1>1. UnderWay = {} /\ loginCall = NoCall => ~Changed /\ loginCall.at # "reload"
  BY DEF Changed, NoCall
<1> QED BY <1>1 DEF LoginInv, LoginFormInv, OverviewInv, LoginsLeadSomewhere

LEMMA LoginsAreTyped == ASSUME LoginInv PROVE LoginTypeOK
BY DEF LoginInv, LoginsTyped, LoginFormInv, LoginTypeOK, LoginKinds, LoginForms, LoginCalls

-----------------------------------------------------------------------------
(* Cards of accounts *)

Slots == {"tab", "act"}
CardLoads == [at : {"none", "reads", "usage", "said"}, says : [Credentials -> Flags]]
CardActs ==
    [kind : {"none", "start", "test", "activate", "delete", "complete"}, on : Credentials \cup {NoCredential},
     flow : 0 .. MaxCardActs, at : {"none", "sent", "served", "reload"}, failed : BOOLEAN]
CardLogs ==
    [acts : 0 .. MaxCardActs, syncs : 0 .. MaxCardSyncs, faults : 0 .. MaxCardFaults, crossed : BOOLEAN,
     fresh : BOOLEAN, failed : BOOLEAN]

CardsTyped ==
    /\ pool \in [Credentials -> Flags] /\ shownPool \in [Credentials -> Flags]
    /\ usageApi \in {"there", "removed"}
    /\ cardLoad \in [Slots -> CardLoads] /\ act \in CardActs /\ cardLog \in CardLogs
    /\ flow \in 0 .. MaxCardActs /\ draft \in 0 .. MaxCardActs /\ begunFlows \subseteq 0 .. MaxCardActs
    /\ doomed \in Credentials \cup {NoCredential} /\ alert \in {"none", "act", "load"}

(* An operation that reloads has its load, and knows its account. *)
ActInv ==
    /\ act.at = "none" => act = NoAct
    /\ act.at # "none" => act.kind # "none"
    /\ act.kind \in {"test", "activate", "delete"} => act.on \in Credentials
    /\ \A s \in Slots : cardLoad[s].at = "none" <=> cardLoad[s] = NoLoad
    /\ act.at = "reload" <=> cardLoad["act"] # NoLoad

(* Errors, the dialog and the fields are of what they were for. *)
AccountDialogInv ==
    /\ cardLog.failed => act = NoAct /\ alert = "act"
    /\ doomed = NoCredential \/ doomed \in FilesIn(shownPool)
    /\ draft \in {0, flow}

(* An operation has changed the accounts and its load is still to come. *)
Switching == act.at = "served" /\ act.kind \notin {"start", "test"}

(* While loads do not overlap, what a load says, and the list, is so. *)
ListInv ==
    ~cardLog.crossed =>
        /\ cardLoad["tab"] = NoLoad \/ cardLoad["act"] = NoLoad
        /\ ~Switching => \A s \in Slots : cardLoad[s].at \in {"usage", "said"} => cardLoad[s].says = pool
        /\ ~Switching /\ cardLog.fresh /\ act.at # "reload" => shownPool = pool

CardInv == CardsTyped /\ ActInv /\ AccountDialogInv /\ ListInv

LEMMA NoneIsIdle ==
    /\ NoLoad \in CardLoads /\ NoLoad.at = "none"
    /\ NoAct \in CardActs /\ NoAct.at = "none" /\ NoAct.kind = "none" /\ ~NoAct.failed
<1>1. NoLoad \in CardLoads /\ NoLoad.at = "none"
  BY DEF NoLoad, CardLoads, Flags
<1>2. NoAct \in CardActs /\ NoAct.at = "none" /\ NoAct.kind = "none"
  BY CardBounds DEF NoAct, CardActs
<1>3. ~NoAct.failed
  BY DEF NoAct
<1> QED BY <1>1, <1>2, <1>3

LEMMA CardsStart == ASSUME CardAccountsInit PROVE CardInv
<1>1. \A s \in Slots : cardLoad[s] = NoLoad
  BY DEF CardAccountsInit, Slots
<1>2. cardLog \in CardLogs /\ ~cardLog.failed /\ ~cardLog.fresh
  BY CardBounds, SMT DEF CardAccountsInit, CardLogs
<1>3. cardLoad \in [Slots -> CardLoads] /\ act \in CardActs
  BY NoneIsIdle, <1>1 DEF CardAccountsInit, Slots
<1>4. CardsTyped
  BY <1>2, <1>3, CardBounds DEF CardAccountsInit, CardsTyped, Flags
<1>5. ActInv
  BY <1>1, NoneIsIdle DEF CardAccountsInit, ActInv, Slots
<1>6. AccountDialogInv
  BY <1>2 DEF CardAccountsInit, AccountDialogInv
<1>7. ListInv
  BY <1>1, <1>2, NoneIsIdle DEF CardAccountsInit, ListInv, Slots
<1> QED BY <1>4, <1>5, <1>6, <1>7 DEF CardInv

(* One field of the log at a time. *)
LEMMA LogTurns ==
    ASSUME NEW l \in CardLogs
    PROVE  /\ l.acts \in 0 .. MaxCardActs /\ l.syncs \in 0 .. MaxCardSyncs /\ l.faults \in 0 .. MaxCardFaults
           /\ \A n \in 0 .. MaxCardActs : LET x == [l EXCEPT !.acts = n] IN
                x \in CardLogs /\ x.acts = n /\ x.crossed = l.crossed /\ x.fresh = l.fresh /\ x.failed = l.failed
           /\ \A n \in 0 .. MaxCardSyncs : LET x == [l EXCEPT !.syncs = n] IN
                x \in CardLogs /\ x.crossed = l.crossed /\ x.fresh = l.fresh /\ x.failed = l.failed
           /\ \A n \in 0 .. MaxCardFaults : LET x == [l EXCEPT !.faults = n] IN
                x \in CardLogs /\ x.crossed = l.crossed /\ x.fresh = l.fresh /\ x.failed = l.failed
           /\ \A c \in BOOLEAN : LET x == [l EXCEPT !.crossed = c] IN
                x \in CardLogs /\ x.crossed = c /\ x.fresh = l.fresh /\ x.failed = l.failed
           /\ \A c \in BOOLEAN : LET x == [l EXCEPT !.fresh = c] IN
                x \in CardLogs /\ x.crossed = l.crossed /\ x.fresh = c /\ x.failed = l.failed
           /\ \A c \in BOOLEAN : LET x == [l EXCEPT !.failed = c] IN
                x \in CardLogs /\ x.crossed = l.crossed /\ x.fresh = l.fresh /\ x.failed = c
BY DEF CardLogs

LEMMA CardLoadTurns ==
    ASSUME CardInv,
           TabLoads \/ \E s \in Slots : FilesRead(s) \/ UsageRead(s)
    PROVE  CardInv'
<1> USE DEF CardInv
<1>1. CASE TabLoads
  <2> DEFINE log1 == [cardLog EXCEPT !.syncs = @ + 1]
             cross == log1.crossed \/ CardsLoading
             log2 == [log1 EXCEPT !.crossed = cross]
  <2>1. /\ cardLoad["tab"] = NoLoad /\ cardLog.syncs < MaxCardSyncs
        /\ cardLoad' = [cardLoad EXCEPT !["tab"].at = "reads"] /\ alert' = "none"
        /\ UNCHANGED <<pool, usageApi, act, flow, begunFlows, draft, shownPool, doomed>>
    BY <1>1 DEF TabLoads, LoadOf
  <2>2. cardLog' = [log2 EXCEPT !.failed = FALSE]
    BY <1>1 DEF TabLoads, CardsTyped, CardLogs
  <2>3. log1 \in CardLogs /\ log1.crossed = cardLog.crossed /\ log1.fresh = cardLog.fresh
    BY <2>1, LogTurns, CardBounds DEF CardsTyped
  <2> HIDE DEF log1
  <2>4. CardsLoading \in BOOLEAN
    BY DEF CardsLoading
  <2>5. cross \in BOOLEAN /\ (~cross => ~log1.crossed /\ ~CardsLoading)
    BY <2>4
  <2> HIDE DEF cross
  <2>12. log2 \in CardLogs /\ log2.crossed = cross /\ log2.fresh = log1.fresh
    BY <2>3, <2>5, LogTurns
  <2> HIDE DEF log2
  <2>6. /\ cardLog' \in CardLogs /\ ~cardLog'.failed /\ cardLog'.fresh = cardLog.fresh
        /\ ~cardLog'.crossed => ~cardLog.crossed /\ ~CardsLoading
    BY <2>2, <2>3, <2>5, <2>12, LogTurns
  <2>7. /\ cardLoad' \in [Slots -> CardLoads] /\ cardLoad'["act"] = cardLoad["act"]
        /\ cardLoad'["tab"].at = "reads"
    BY <2>1 DEF CardsTyped, Slots, CardLoads
  <2>8. CardsTyped'
    BY <2>1, <2>6, <2>7 DEF CardsTyped
  <2>9. ActInv'
    BY <2>1, <2>7, NoneIsIdle DEF ActInv, Slots
  <2>10. AccountDialogInv'
    BY <2>1, <2>6 DEF AccountDialogInv
  <2>11. ListInv'
    BY <2>1, <2>6, <2>7 DEF ListInv, Slots, Switching, CardsLoading
  <2> QED BY <2>8, <2>9, <2>10, <2>11
<1>2. ASSUME NEW s \in Slots, NEW l \in CardLoads, cardLoad' = [cardLoad EXCEPT ![s] = l],
             cardLoad[s].at # "none", l.at # "none",
             l.says = pool \/ (cardLoad[s].at \in {"usage", "said"} /\ l.says = cardLoad[s].says),
             UNCHANGED <<pool, usageApi, act, flow, begunFlows, draft, shownPool, doomed, alert, cardLog>>
      PROVE  CardInv'
  <2>1. /\ cardLoad' \in [Slots -> CardLoads] /\ cardLoad'[s] = l
        /\ \A t \in Slots \ {s} : cardLoad'[t] = cardLoad[t]
    BY <1>2 DEF CardsTyped
  <2>2. CardsTyped'
    BY <1>2, <2>1 DEF CardsTyped
  <2>3. \A t \in Slots : cardLoad'[t] = NoLoad <=> cardLoad[t] = NoLoad
    BY <1>2, <2>1, NoneIsIdle
  <2>4. ActInv'
    BY <1>2, <2>1, <2>3, NoneIsIdle DEF ActInv, Slots
  <2>5. AccountDialogInv'
    BY <1>2 DEF AccountDialogInv
  <2>6. ListInv'
    BY <1>2, <2>1, <2>3 DEF ListInv, Slots, Switching
  <2> QED BY <2>2, <2>4, <2>5, <2>6
<1>3. ASSUME NEW s \in Slots, FilesRead(s) PROVE CardInv'
  <2>1. PICK l : l = [at |-> "usage", says |-> pool]
    OBVIOUS
  <2>2. l \in CardLoads /\ l.at = "usage" /\ l.says = pool
    BY <2>1 DEF CardsTyped, CardLoads
  <2>3. /\ cardLoad[s].at = "reads" /\ cardLoad' = [cardLoad EXCEPT ![s] = l]
        /\ UNCHANGED <<pool, usageApi, act, flow, begunFlows, draft, shownPool, doomed, alert, cardLog>>
    BY <1>3, <2>1 DEF FilesRead
  <2> QED BY <1>2, <2>2, <2>3
<1>4. ASSUME NEW s \in Slots, UsageRead(s) PROVE CardInv'
  <2>1. PICK l : l = [cardLoad[s] EXCEPT !.at = "said"]
    OBVIOUS
  <2>2. cardLoad[s] \in CardLoads
    BY DEF CardsTyped
  <2>3. l \in CardLoads /\ l.at = "said" /\ l.says = cardLoad[s].says
    BY <2>1, <2>2 DEF CardLoads
  <2>4. /\ cardLoad[s].at = "usage" /\ cardLoad' = [cardLoad EXCEPT ![s] = l]
        /\ UNCHANGED <<pool, usageApi, act, flow, begunFlows, draft, shownPool, doomed, alert, cardLog>>
    BY <1>4, <2>1 DEF UsageRead
  <2> QED BY <1>2, <2>3, <2>4
<1> QED BY <1>1, <1>3, <1>4

LEMMA CardLoadEnds ==
    ASSUME CardInv, NEW s \in Slots, CardsShown(s) \/ CardsFail(s)
    PROVE  CardInv'
<1> USE DEF CardInv
<1> DEFINE failed == s = "act" /\ act.failed
<1>1. /\ cardLoad' = [cardLoad EXCEPT ![s] = NoLoad] /\ UNCHANGED <<pool, usageApi, flow, begunFlows, draft>>
      /\ cardLoad[s] # NoLoad /\ cardLoad[s] \in CardLoads
      /\ doomed' = DialogAfter(s, shownPool')
  BY NoneIsIdle DEF CardsShown, CardsFail, CardsTyped
<1>2. /\ cardLoad' \in [Slots -> CardLoads] /\ cardLoad'[s] = NoLoad
      /\ \A t \in Slots \ {s} : cardLoad'[t] = cardLoad[t]
  BY <1>1, NoneIsIdle DEF CardsTyped
<1>3. PICK shown \in {"none", "act", "load"} : Finalized(s, shown)
  BY DEF CardsShown, CardsFail, CardsTyped
<1>4. /\ act' = IF s = "act" THEN NoAct ELSE act
      /\ alert' = IF failed THEN "act" ELSE shown
  BY <1>3 DEF Finalized
<1>5. doomed' = NoCredential \/ doomed' \in FilesIn(shownPool')
  BY <1>1 DEF DialogAfter
<1>6. s = "act" => act.at = "reload"
  BY <1>1 DEF ActInv
<1>7. failed \in BOOLEAN
  OBVIOUS
<1>8. ASSUME shownPool' \in [Credentials -> Flags], cardLog' \in CardLogs, cardLog'.failed = failed,
             cardLog'.crossed = cardLog.crossed,
             ~cardLog'.fresh \/ (cardLoad[s].at = "said" /\ shownPool' = cardLoad[s].says)
      PROVE  CardInv'
  <2>1. act' \in CardActs /\ alert' \in {"none", "act", "load"}
    BY <1>4, NoneIsIdle DEF CardsTyped
  <2>2. doomed' \in Credentials \cup {NoCredential}
    BY <1>5 DEF FilesIn
  <2>3. CardsTyped'
    BY <1>1, <1>2, <1>8, <2>1, <2>2 DEF CardsTyped
  <2>4. ActInv'
    BY <1>1, <1>2, <1>4, <1>6, NoneIsIdle DEF ActInv, Slots
  <2>5. AccountDialogInv'
    BY <1>1, <1>4, <1>5, <1>8 DEF AccountDialogInv
  <2>6. act'.at = "reload" => s # "act" /\ act.at = "reload"
    BY <1>4, NoneIsIdle
  <2>7. Switching' <=> Switching
    BY <1>4, <1>6, NoneIsIdle DEF Switching
  <2>8. ListInv'
    <3> SUFFICES ASSUME ~cardLog.crossed
                 PROVE  /\ cardLoad'["tab"] = NoLoad \/ cardLoad'["act"] = NoLoad
                        /\ ~Switching => \A t \in Slots : cardLoad'[t].at \in {"usage", "said"} => cardLoad'[t].says = pool
                        /\ ~Switching /\ cardLog'.fresh /\ act'.at # "reload" => shownPool' = pool
      BY <1>1, <1>8, <2>7 DEF ListInv
    <3> QED BY <1>2, <1>8, NoneIsIdle DEF ListInv, Slots
  <2> QED BY <2>3, <2>4, <2>5, <2>8
<1>9. CASE CardsShown(s)
  <2> DEFINE log1 == [cardLog EXCEPT !.failed = failed]
  <2>1. /\ cardLoad[s].at = "said" /\ shownPool' = cardLoad[s].says
        /\ cardLog' = [log1 EXCEPT !.fresh = TRUE]
    BY <1>9 DEF CardsShown, CardsTyped, CardLogs
  <2>2. log1 \in CardLogs /\ log1.crossed = cardLog.crossed /\ log1.failed = failed
    <3> HIDE DEF failed
    <3> QED BY <1>7, LogTurns DEF CardsTyped
  <2> HIDE DEF log1
  <2>3. cardLog' \in CardLogs /\ cardLog'.crossed = cardLog.crossed /\ cardLog'.failed = failed
    <3> HIDE DEF failed
    <3> QED BY <2>1, <2>2, LogTurns
  <2>4. shownPool' \in [Credentials -> Flags]
    BY <1>1, <2>1 DEF CardLoads
  <2> HIDE DEF failed
  <2> QED BY <1>8, <2>1, <2>3, <2>4
<1>10. CASE CardsFail(s)
  <2> DEFINE log1 == [cardLog EXCEPT !.faults = @ + 1]
             log2 == [log1 EXCEPT !.failed = failed]
  <2>1. /\ cardLog.faults < MaxCardFaults /\ UNCHANGED shownPool
        /\ cardLog' = [log2 EXCEPT !.fresh = FALSE]
    BY <1>10 DEF CardsFail, Trips, CardsTyped, CardLogs
  <2>2. log1 \in CardLogs /\ log1.crossed = cardLog.crossed
    BY <2>1, LogTurns, CardBounds DEF CardsTyped
  <2> HIDE DEF log1, failed
  <2>3. log2 \in CardLogs /\ log2.crossed = cardLog.crossed /\ log2.failed = failed
    BY <1>7, <2>2, LogTurns
  <2> HIDE DEF log2
  <2>4. cardLog' \in CardLogs /\ cardLog'.crossed = cardLog.crossed /\ cardLog'.failed = failed /\ ~cardLog'.fresh
    BY <2>1, <2>3, LogTurns
  <2> QED BY <1>8, <2>1, <2>4 DEF CardsTyped
<1> QED BY <1>9, <1>10

LEMMA CardActBegins ==
    ASSUME CardInv, NEW kind \in {"start", "test", "activate", "delete", "complete"},
           NEW c \in Credentials \cup {NoCredential}, NEW f \in 0 .. MaxCardActs, ActBegins(kind, c, f),
           kind \in {"test", "activate", "delete"} => c \in Credentials
    PROVE  CardInv'
<1> USE DEF CardInv
<1> DEFINE log1 == [cardLog EXCEPT !.acts = @ + 1]
<1>1. /\ act = NoAct /\ cardLog.acts < MaxCardActs /\ alert' = "none"
      /\ act' = [kind |-> kind, on |-> c, flow |-> f, at |-> "sent", failed |-> FALSE]
      /\ cardLog' = [log1 EXCEPT !.failed = FALSE]
      /\ UNCHANGED <<pool, usageApi, cardLoad, flow, begunFlows, draft, shownPool, doomed>>
  BY DEF ActBegins, CardsTyped, CardLogs
<1>2. log1 \in CardLogs /\ log1.crossed = cardLog.crossed /\ log1.fresh = cardLog.fresh
  BY <1>1, LogTurns, CardBounds DEF CardsTyped
<1> HIDE DEF log1
<1>3. /\ cardLog' \in CardLogs /\ ~cardLog'.failed /\ cardLog'.crossed = cardLog.crossed
      /\ cardLog'.fresh = cardLog.fresh
  BY <1>1, <1>2, LogTurns
<1>4. act' \in CardActs /\ act'.at = "sent" /\ act'.kind = kind /\ act'.on = c
  BY <1>1 DEF CardActs
<1>5. CardsTyped'
  BY <1>1, <1>3, <1>4 DEF CardsTyped
<1>6. ActInv'
  BY <1>1, <1>4, NoneIsIdle DEF ActInv
<1>7. AccountDialogInv'
  BY <1>1, <1>3 DEF AccountDialogInv
<1>8. ListInv'
  BY <1>1, <1>3, <1>4, NoneIsIdle DEF ListInv, Switching
<1> QED BY <1>5, <1>6, <1>7, <1>8

LEMMA CardUserTurns ==
    ASSUME CardInv,
           \/ StartsLogin \/ CompletesLogin \/ DeletesAccount \/ CardTouched
           \/ \E c \in FilesIn(shownPool) : TestsAccount(c) \/ ActivatesAccount(c)
    PROVE  CardInv'
<1> USE DEF CardInv
<1>1. cardLog.acts \in 0 .. MaxCardActs /\ flow \in 0 .. MaxCardActs /\ doomed \in Credentials \cup {NoCredential}
  BY LogTurns DEF CardsTyped
<1>2. CASE StartsLogin
  <2>1. ActBegins("start", NoCredential, cardLog.acts + 1) /\ cardLog.acts < MaxCardActs
    BY <1>2 DEF StartsLogin, ActBegins
  <2>2. cardLog.acts + 1 \in 0 .. MaxCardActs
    BY <1>1, <2>1, CardBounds
  <2> QED BY <2>1, <2>2, CardActBegins
<1>3. CASE CompletesLogin
  BY <1>1, <1>3, CardActBegins DEF CompletesLogin
<1>4. CASE DeletesAccount
  <2>1. ActBegins("delete", doomed, 0) /\ doomed \in Credentials /\ 0 \in 0 .. MaxCardActs
    BY <1>1, <1>4, CardBounds DEF DeletesAccount
  <2> QED BY <2>1, CardActBegins
<1>5. ASSUME NEW c \in FilesIn(shownPool), TestsAccount(c) \/ ActivatesAccount(c) PROVE CardInv'
  <2>1. (ActBegins("test", c, 0) \/ ActBegins("activate", c, 0)) /\ c \in Credentials /\ 0 \in 0 .. MaxCardActs
    BY <1>5, CardBounds DEF TestsAccount, ActivatesAccount, FilesIn
  <2> QED BY <2>1, CardActBegins
<1>6. CASE CardTouched
  <2>1. UNCHANGED <<pool, usageApi, cardLoad, act, begunFlows, shownPool, alert, cardLog>>
    BY <1>6 DEF CardTouched
  <2>2. /\ flow' \in {0, flow} /\ draft' \in {0, flow'} /\ doomed' \in FilesIn(shownPool) \cup {NoCredential, doomed}
    BY <1>6 DEF CardTouched, AccountDialogInv
  <2>3. CardsTyped'
    BY <2>1, <2>2, CardBounds DEF CardsTyped, FilesIn
  <2>4. ActInv' /\ ListInv'
    BY <2>1 DEF ActInv, ListInv, Switching
  <2>5. AccountDialogInv'
    BY <2>1, <2>2 DEF AccountDialogInv, FilesIn
  <2> QED BY <2>3, <2>4, <2>5
<1> QED BY <1>2, <1>3, <1>4, <1>5, <1>6

LEMMA CardActServed ==
    ASSUME CardInv, ActServed
    PROVE  CardInv'
<1> USE DEF CardInv
<1>1. /\ act.at = "sent" /\ ~ActRefused /\ act' = [act EXCEPT !.at = "served"]
      /\ UNCHANGED <<usageApi, cardLoad, flow, draft, shownPool, doomed, alert, cardLog>>
  BY DEF ActServed
<1>2. /\ act' \in CardActs /\ act'.kind = act.kind /\ act'.on = act.on /\ act'.at = "served"
  BY <1>1 DEF CardsTyped, CardActs
<1>3. pool' \in [Credentials -> Flags] /\ (act.kind \in {"start", "test"} => pool' = pool)
  <2>1. CASE act.kind = "activate"
    BY <2>1 DEF ActServed, CardsTyped, Flags
  <2>2. CASE act.kind = "delete"
    <3> DEFINE rest == FilesIn(pool) \ {act.on}
               first == CHOOSE c \in rest : TRUE
               left == [pool EXCEPT ![act.on] = "absent"]
    <3>1. pool' = IF rest # {} /\ \A c \in rest : pool[c] = "off" THEN [left EXCEPT ![first] = "on"] ELSE left
      BY <2>2 DEF ActServed
    <3>2. left \in [Credentials -> Flags]
      BY DEF CardsTyped, Flags
    <3> HIDE DEF left, rest, first
    <3> QED BY <2>2, <3>1, <3>2 DEF Flags
  <2>3. CASE act.kind = "complete"
    <3>1. \E c \in Credentials : pool' = [pool EXCEPT ![c] = "on"]
      BY <2>3 DEF ActServed
    <3> QED BY <2>3, <3>1 DEF CardsTyped, Flags
  <2>4. CASE act.kind \notin {"activate", "delete", "complete"}
    BY <2>4 DEF ActServed, CardsTyped
  <2> QED BY <2>1, <2>2, <2>3, <2>4
<1>4. begunFlows' \subseteq 0 .. MaxCardActs
  <2>1. act.flow \in 0 .. MaxCardActs
    BY DEF CardsTyped, CardActs
  <2> QED BY <2>1 DEF ActServed, CardsTyped
<1>5. CardsTyped'
  BY <1>1, <1>2, <1>3, <1>4 DEF CardsTyped
<1>6. ActInv'
  BY <1>1, <1>2 DEF ActInv, NoAct
<1>7. AccountDialogInv'
  BY <1>1, NoneIsIdle DEF AccountDialogInv
<1>8. ListInv'
  BY <1>1, <1>2, <1>3 DEF ListInv, Switching
<1> QED BY <1>5, <1>6, <1>7, <1>8

(* The operation loads the list anew. *)
LEMMA CardActReloads ==
    ASSUME CardInv, act.at \in {"sent", "served"}, NEW f \in BOOLEAN, ActReloads(f),
           UNCHANGED <<pool, usageApi, begunFlows, shownPool, doomed>>,
           (flow' = flow /\ draft' = draft) \/ (flow' = 0 /\ draft' = 0),
           cardLog' \in CardLogs, ~cardLog'.failed,
           ~cardLog'.crossed => ~cardLog.crossed /\ ~CardsLoading
    PROVE  CardInv'
<1> USE DEF CardInv
<1> DEFINE done == [act EXCEPT !.at = "reload"]
<1>1. /\ act' = [done EXCEPT !.failed = f] /\ alert' = "none"
      /\ cardLoad' = [cardLoad EXCEPT !["act"].at = "reads"]
  BY DEF ActReloads, LoadOf, CardsTyped, CardActs
<1>2. done \in CardActs /\ done.at = "reload" /\ done.kind = act.kind /\ done.on = act.on
  BY DEF CardsTyped, CardActs
<1> HIDE DEF done
<1>3. act' \in CardActs /\ act'.at = "reload" /\ act'.kind = act.kind /\ act'.on = act.on
  BY <1>1, <1>2 DEF CardActs
<1>4. /\ cardLoad' \in [Slots -> CardLoads] /\ cardLoad'["tab"] = cardLoad["tab"]
      /\ cardLoad'["act"].at = "reads"
  BY <1>1 DEF CardsTyped, Slots, CardLoads
<1>5. CardsTyped'
  BY <1>1, <1>3, <1>4, CardBounds DEF CardsTyped
<1>6. ActInv'
  BY <1>3, <1>4, NoneIsIdle DEF ActInv, Slots
<1>7. AccountDialogInv'
  BY DEF AccountDialogInv
<1>8. ListInv'
  BY <1>3, <1>4, NoneIsIdle DEF ListInv, Slots, Switching, CardsLoading
<1> QED BY <1>5, <1>6, <1>7, <1>8

LEMMA CardActEnds ==
    ASSUME CardInv, ActAnswered \/ ActFails
    PROVE  CardInv'
<1> USE DEF CardInv
<1>1. act.at \in {"sent", "served"} /\ UNCHANGED <<pool, usageApi, begunFlows, shownPool, doomed>>
  BY DEF ActAnswered, ActFails
<1>2. ~cardLog.failed
  BY <1>1, NoneIsIdle DEF AccountDialogInv
<1>3. CardsLoading \in BOOLEAN
  BY DEF CardsLoading
(* A login begins, or fails, without a load. *)
<1>4. ASSUME act.kind = "start", act' = NoAct, cardLoad' = cardLoad, flow' \in 0 .. MaxCardActs,
             draft' \in {0, flow'}, alert' \in {"none", "act", "load"},
             cardLog' \in CardLogs, cardLog'.failed => alert' = "act",
             ~cardLog'.crossed => ~cardLog.crossed, cardLog'.fresh = cardLog.fresh
      PROVE  CardInv'
  <2>1. CardsTyped'
    BY <1>1, <1>4, NoneIsIdle, CardBounds DEF CardsTyped
  <2>2. ActInv'
    BY <1>1, <1>4, NoneIsIdle DEF ActInv
  <2>3. AccountDialogInv'
    BY <1>1, <1>4 DEF AccountDialogInv
  <2>4. ListInv'
    BY <1>1, <1>4, NoneIsIdle DEF ListInv, Switching
  <2> QED BY <2>1, <2>2, <2>3, <2>4
<1>5. CASE ActAnswered
  <2>1. CASE act.kind = "start"
    <3>1. flow' = act.flow /\ draft' = 0 /\ act' = NoAct /\ UNCHANGED <<cardLoad, alert, cardLog>>
      BY <1>5, <2>1 DEF ActAnswered
    <3>2. flow' \in 0 .. MaxCardActs
      BY <3>1 DEF CardsTyped, CardActs
    <3> QED BY <1>2, <1>4, <2>1, <3>1, <3>2 DEF CardsTyped
  <2>2. CASE act.kind # "start"
    <3> DEFINE cross == cardLog.crossed \/ CardsLoading
    <3>1. /\ ActReloads(FALSE)
          /\ (flow' = flow /\ draft' = draft) \/ (flow' = 0 /\ draft' = 0)
          /\ cardLog' = [cardLog EXCEPT !.crossed = cross]
      BY <1>5, <2>2 DEF ActAnswered
    <3>2. cross \in BOOLEAN /\ (~cross => ~cardLog.crossed /\ ~CardsLoading)
      BY <1>3
    <3> HIDE DEF cross
    <3>3. cardLog' \in CardLogs /\ cardLog'.failed = cardLog.failed /\ cardLog'.crossed = cross
      BY <3>1, <3>2, LogTurns DEF CardsTyped
    <3> QED BY <1>1, <1>2, <3>1, <3>2, <3>3, CardActReloads
  <2> QED BY <2>1, <2>2
<1>6. CASE ActFails
  <2> DEFINE refused == act.at = "sent" /\ ActRefused
             starts == act.kind = "start"
             n == IF refused THEN cardLog.faults ELSE cardLog.faults + 1
             cross == cardLog.crossed \/ (act.kind # "start" /\ CardsLoading)
             log1 == [cardLog EXCEPT !.faults = n]
             log2 == [log1 EXCEPT !.failed = starts]
  <2>1. /\ refused \/ cardLog.faults < MaxCardFaults
        /\ cardLog' = [log2 EXCEPT !.crossed = cross] /\ UNCHANGED <<flow, draft>>
    BY <1>6 DEF ActFails, Trips, CardsTyped, CardLogs
  <2>2. n \in 0 .. MaxCardFaults
    BY <2>1, LogTurns, CardBounds DEF CardsTyped
  <2>3. starts \in BOOLEAN /\ cross \in BOOLEAN
    BY <1>3
  <2>4. cross \/ ~cardLog.crossed
    OBVIOUS
  <2>5. starts \/ cross \/ ~CardsLoading
    OBVIOUS
  <2>6. starts => act.kind = "start"
    OBVIOUS
  <2>7. starts \/ ~starts
    OBVIOUS
  <2>8. log1 \in CardLogs /\ log1.crossed = cardLog.crossed /\ log1.fresh = cardLog.fresh
    <3> HIDE DEF n
    <3> QED BY <2>2, LogTurns DEF CardsTyped
  <2>9. starts => act' = NoAct /\ alert' = "act" /\ UNCHANGED cardLoad
    BY <1>6 DEF ActFails
  <2>10. ~starts => ActReloads(TRUE)
    BY <1>6 DEF ActFails
  <2> HIDE DEF log1, starts, cross, n, refused
  <2>11. log2 \in CardLogs /\ log2.fresh = cardLog.fresh /\ log2.failed = starts
    BY <2>3, <2>8, LogTurns
  <2> HIDE DEF log2
  <2>12. /\ cardLog' \in CardLogs /\ cardLog'.fresh = cardLog.fresh /\ cardLog'.failed = starts
         /\ cardLog'.crossed = cross
    BY <2>1, <2>3, <2>11, LogTurns
  <2>13. CASE starts
    <3>1. flow' \in 0 .. MaxCardActs /\ draft' \in {0, flow'}
      BY <2>1 DEF CardsTyped, AccountDialogInv
    <3> QED BY <1>4, <2>4, <2>6, <2>9, <2>12, <2>13, <3>1
  <2>14. CASE ~starts
    BY <1>1, <2>1, <2>4, <2>5, <2>10, <2>12, <2>14, CardActReloads
  <2> QED BY <2>7, <2>13, <2>14
<1> QED BY <1>5, <1>6

LEMMA CardStep == ASSUME CardInv, [CardAccountsNext]_cardsTab PROVE CardInv'
<1>1. CASE UNCHANGED cardsTab
  BY <1>1 DEF cardsTab, CardInv, CardsTyped, ActInv, AccountDialogInv, ListInv, Switching
<1>2. CASE CardAccountsNext
  BY <1>2, CardLoadTurns, CardLoadEnds, CardUserTurns, CardActServed, CardActEnds DEF CardAccountsNext, Slots
<1> QED BY <1>1, <1>2

LEMMA CardsAreTrue == ASSUME CardInv PROVE AccountCardsAreTrue
<1>1. act = NoAct => ~Switching /\ act.at # "reload"
  BY NoneIsIdle DEF Switching
<1> QED BY <1>1 DEF CardInv, AccountDialogInv, ListInv, AccountCardsAreTrue

LEMMA CardsAreTyped == ASSUME CardInv PROVE CardAccountsTypeOK
<1>1. cardLog.acts <= MaxCardActs /\ cardLog.syncs <= MaxCardSyncs /\ cardLog.faults <= MaxCardFaults
  BY CardBounds DEF CardInv, CardsTyped, CardLogs
<1>2. act.at \in {"none", "sent", "served", "reload"}
  BY DEF CardInv, CardsTyped, CardActs
<1> QED BY <1>1, <1>2 DEF CardInv, CardsTyped, ActInv, CardAccountsTypeOK

=============================================================================
