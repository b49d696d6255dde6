----------------------------- MODULE ProjectCards -----------------------------
(* The Projects and GitHub tabs of the Mini App: cards with the containers  *)
(* and the git summary of each project, the git overview of the open one,   *)
(* and the requests that fill them (use-project-catalog-state.ts,           *)
(* project-metadata.ts, use-project-git.ts, use-workspace-selection.ts,     *)
(* use-workspace-runtime-actions.ts). What a project's containers and its   *)
(* repository are is a version; 0 is a card with nothing on it.             *)
EXTENDS Naturals, FiniteSets

CONSTANTS
    Cards,           \* projects in the catalog
    MaxInFlight,     \* bound: requests of the page in flight together
    MaxCardLoads,    \* bound: requests of the page
    MaxUpheavals,    \* bound: changes of containers and repositories
    MaxMisses        \* bound: requests that fail

ASSUME CardNames ==
    /\ {MaxInFlight, MaxCardLoads, MaxUpheavals, MaxMisses} \subseteq Nat
    /\ "none" \notin Cards /\ IsFiniteSet(Cards)

VARIABLES
    world,      \* world.docker[p], world.tree[p]: versions on the server
    page,     \* page.docker[p], page.git[p], page.overview[p]; page.open
    ids,        \* the request counters of the page
    load,       \* l: the request l
    wanted,     \* wanted.docker[p], wanted.git[p]: what the user's last action made
    overtaken,  \* overtaken[p]: metadata landed over a newer status of p
    loads, misses

cards == <<world, page, ids, load, wanted, overtaken, loads, misses>>

CardsTypeOK ==
    /\ world.docker \in [Cards -> 1 .. MaxUpheavals + 1] /\ world.tree \in [Cards -> 1 .. MaxUpheavals + 1]
    /\ \A p \in Cards : /\ page.docker[p] \in 0 .. world.docker[p]
                        /\ page.git[p] \in 0 .. world.tree[p]
                        /\ page.overview[p] \in 0 .. world.tree[p]
                        /\ wanted.docker[p] <= world.docker[p] /\ wanted.git[p] <= world.tree[p]
    /\ page.open \in Cards \cup {"none"}
    /\ Cardinality(load) <= MaxInFlight + 2   \* an answer may need two more
    /\ overtaken \in [Cards -> BOOLEAN]
    /\ loads \in 0 .. MaxCardLoads /\ misses \in 0 .. MaxMisses

Nothing == [p \in Cards |-> 0]

CardsInit ==
    /\ world = [docker |-> [p \in Cards |-> 1], tree |-> [p \in Cards |-> 1]]
    /\ \E p \in Cards \cup {"none"} :       \* the project of the last visit
         page = [docker |-> Nothing, git |-> Nothing, overview |-> Nothing, open |-> p]
    /\ ids = [projects |-> 0, metadata |-> 0, status |-> Nothing]
    /\ load = {}
    /\ wanted = [docker |-> Nothing, git |-> Nothing]
    /\ overtaken = [p \in Cards |-> FALSE] /\ loads = 0 /\ misses = 0

Sends(r) ==
    /\ Cardinality(load) < MaxInFlight /\ loads < MaxCardLoads /\ loads' = loads + 1
    /\ load' = load \cup {r}

TurnsInto(l, r) == load' = (load \ {l}) \cup {r}

Over(l) == load' = load \ {l}

Misses == misses < MaxMisses /\ misses' = misses + 1

Upheavals == LET sum[S \in SUBSET Cards] ==
                     IF S = {} THEN 0
                     ELSE LET p == CHOOSE q \in S : TRUE
                          IN world.docker[p] + world.tree[p] - 2 + sum[S \ {p}]
             IN sum[Cards]

(* A change on the server: of p's containers or of its repository. *)
Changes(part, p) ==
    /\ Upheavals < MaxUpheavals
    /\ world' = [world EXCEPT ![part][p] = @ + 1]

WorldMoves(p) ==
    /\ \E part \in {"docker", "tree"} : Changes(part, p)
    /\ UNCHANGED <<page, ids, load, wanted, overtaken, loads, misses>>

-----------------------------------------------------------------------------
(* loadProjects, and the metadata that follows the list.                   *)

(* `next` is the project whose status is loaded after the list.            *)
Catalog(next) == [kind |-> "catalog", step |-> "sent", id |-> ids.projects + 1, next |-> next]

LoadProjects ==
    /\ Sends(Catalog("none"))
    /\ ids' = [ids EXCEPT !.projects = @ + 1]
    /\ UNCHANGED <<world, page, wanted, overtaken, misses>>

Status(p) == [kind |-> "status", step |-> "sent", id |-> ids.status[p] + 1,
              slug |-> p, value |-> 0]

(* Metadata and the awaited status of `next` are two requests from then on. *)
CatalogLands(l) ==
    /\ l.kind = "catalog"
    /\ LET p == l.next
           current == l.id = ids.projects
           meta == [kind |-> "metadata", step |-> "sent", id |-> ids.metadata + 1] IN
        \/ /\ p = "none"
           /\ IF current THEN TurnsInto(l, meta) ELSE Over(l)
           /\ ids' = IF current THEN [ids EXCEPT !.metadata = @ + 1] ELSE ids
        \/ /\ p # "none" /\ ~current
           /\ TurnsInto(l, Status(p)) /\ ids' = [ids EXCEPT !.status[p] = @ + 1]
        \/ /\ p # "none" /\ current
           /\ load' = (load \ {l}) \cup {meta, Status(p)}
           /\ ids' = [ids EXCEPT !.metadata = @ + 1, !.status[p] = @ + 1]
    /\ UNCHANGED <<world, page, wanted, overtaken, loads, misses>>

CatalogFails(l) ==
    /\ l.kind = "catalog" /\ Misses
    /\ LET p == l.next IN
        IF p = "none" THEN Over(l) /\ UNCHANGED ids
        ELSE TurnsInto(l, Status(p)) /\ ids' = [ids EXCEPT !.status[p] = @ + 1]
    /\ UNCHANGED <<world, page, wanted, overtaken, loads>>

(* All statuses are read before the first git summary is asked for; one    *)
(* that fails leaves its card empty.                                       *)
MetadataReads(l) ==
    /\ l.kind = "metadata"
    /\ \E lost \in SUBSET Cards :
        /\ IF lost = {} THEN UNCHANGED misses ELSE Cardinality(lost) = 1 /\ Misses
        /\ LET read(part) == [p \in Cards |-> IF p \in lost THEN 0 ELSE world[part][p]] IN
            \/ /\ l.step = "sent"
               /\ TurnsInto(l, [kind |-> "metadata", step |-> "statuses", id |-> l.id,
                              docker |-> read("docker")])
            \/ /\ l.step = "statuses"
               /\ TurnsInto(l, [kind |-> "metadata", step |-> "read", id |-> l.id,
                              docker |-> l.docker, git |-> read("tree")])
    /\ UNCHANGED <<world, page, ids, wanted, overtaken, loads>>

NewestOrNot(l) == TRUE

NewestMetadata(l) == l.id = ids.metadata

MetadataLands(l) ==
    /\ l.kind = "metadata" /\ l.step = "read"
    /\ Over(l)
    /\ IF NewestMetadata(l)
       THEN /\ page' = [page EXCEPT !.docker = l.docker, !.git = l.git]
            /\ overtaken' = [p \in Cards |-> l.docker[p] < page.docker[p]
                                \/ (overtaken[p] /\ l.docker[p] < wanted.docker[p])]
       ELSE UNCHANGED <<page, overtaken>>
    /\ UNCHANGED <<world, ids, wanted, loads, misses>>

-----------------------------------------------------------------------------
(* One project: its status, its overview.                                  *)

Overview(p) == [kind |-> "overview", step |-> "sent", id |-> loads, slug |-> p, value |-> 0]

(* The poll of the open project, and every other reason to ask. *)
LoadStatus(p) ==
    /\ Sends(Status(p))
    /\ ids' = [ids EXCEPT !.status[p] = @ + 1]
    /\ UNCHANGED <<world, page, wanted, overtaken, misses>>

LoadGitOverview(p) ==
    /\ Sends(Overview(p))
    /\ UNCHANGED <<world, page, ids, wanted, overtaken, misses>>

(* The server answers a status or an overview. *)
Answers(l) ==
    /\ l.kind \in {"status", "overview"} /\ l.step = "sent"
    /\ LET part == IF l.kind = "status" THEN "docker" ELSE "tree" IN
        TurnsInto(l, [l EXCEPT !.step = "read", !.value = world[part][l.slug]])
    /\ UNCHANGED <<world, page, ids, wanted, overtaken, loads, misses>>

StatusLands(l) ==
    LET p == l.slug IN
    /\ l.kind = "status" /\ l.step = "read"
    /\ Over(l)
    /\ IF l.id = ids.status[p]
       THEN /\ page' = [page EXCEPT !.docker[p] = l.value]
            /\ overtaken' = [overtaken EXCEPT ![p] = FALSE]
       ELSE UNCHANGED <<page, overtaken>>
    /\ UNCHANGED <<world, ids, wanted, loads, misses>>

(* Overviews have no counter: the last to answer is shown. *)
OverviewLands(l) ==
    /\ l.kind = "overview" /\ l.step = "read"
    /\ Over(l)
    /\ page' = [page EXCEPT !.overview[l.slug] = l.value]
    /\ UNCHANGED <<world, ids, wanted, overtaken, loads, misses>>

(* A request that fails leaves what is shown. *)
CardRequestFails(l) ==
    /\ l.kind \in {"status", "overview", "action", "mutation", "select"}
    /\ l.step = "sent" /\ Misses
    /\ Over(l)
    /\ UNCHANGED <<world, page, ids, wanted, overtaken, loads>>

-----------------------------------------------------------------------------
(* What the user does.                                                     *)

(* A project is opened: the server has selected it, then both are loaded.  *)
OpenAsked(p) ==
    /\ Sends([kind |-> "select", step |-> "sent", id |-> loads, slug |-> p])
    /\ UNCHANGED <<world, page, ids, wanted, overtaken, misses>>

OpenAnswered(l) ==
    /\ l.kind = "select"
    /\ LET p == l.slug IN
        /\ page' = [page EXCEPT !.open = p]
        /\ load' = (load \ {l}) \cup {Status(p), Overview(p)}
        /\ ids' = [ids EXCEPT !.status[p] = @ + 1]
    /\ UNCHANGED <<world, wanted, overtaken, loads, misses>>

(* A command for the project (whole) or for one of its services.           *)
ActionAsked(p, whole) ==
    /\ Sends([kind |-> "action", step |-> "sent", id |-> loads, slug |-> p,
              whole |-> whole])
    /\ UNCHANGED <<world, page, ids, wanted, overtaken, misses>>

GitAsked(p) ==
    /\ page.open = p
    /\ Sends([kind |-> "mutation", step |-> "sent", id |-> loads, slug |-> p])
    /\ UNCHANGED <<world, page, ids, wanted, overtaken, misses>>

Acts(l) ==
    /\ l.kind \in {"action", "mutation"} /\ l.step = "sent"
    /\ Changes(IF l.kind = "action" THEN "docker" ELSE "tree", l.slug)
    /\ TurnsInto(l, [l EXCEPT !.step = "acted"])
    /\ UNCHANGED <<page, ids, wanted, overtaken, loads, misses>>

(* What is on the server by then is what the user wants to see.            *)
ActionAnswered(l) ==
    LET p == l.slug IN
    /\ l.kind = "action" /\ l.step = "acted"
    /\ wanted' = [wanted EXCEPT !.docker[p] = world.docker[p]]
    /\ IF l.whole
       THEN TurnsInto(l, Catalog(p)) /\ ids' = [ids EXCEPT !.projects = @ + 1]
       ELSE TurnsInto(l, Status(p)) /\ ids' = [ids EXCEPT !.status[p] = @ + 1]
    /\ UNCHANGED <<world, page, overtaken, loads, misses>>

(* The answer of a git command is an overview; the cards are loaded again. *)
GitAnswered(l) ==
    LET p == l.slug IN
    /\ l.kind = "mutation" /\ l.step = "acted"
    /\ wanted' = [wanted EXCEPT !.git[p] = world.tree[p]]
    /\ page' = [page EXCEPT !.overview[p] = world.tree[p]]
    /\ TurnsInto(l, Catalog("none")) /\ ids' = [ids EXCEPT !.projects = @ + 1]
    /\ UNCHANGED <<world, overtaken, loads, misses>>

CardsNext ==
    \/ LoadProjects
    \/ \E p \in Cards :
        \/ WorldMoves(p) \/ LoadStatus(p) \/ LoadGitOverview(p) \/ OpenAsked(p) \/ GitAsked(p)
        \/ \E whole \in BOOLEAN : ActionAsked(p, whole)
    \/ \E l \in load :
        \/ CatalogLands(l) \/ CatalogFails(l) \/ MetadataReads(l) \/ MetadataLands(l)
        \/ Answers(l) \/ StatusLands(l) \/ OverviewLands(l) \/ CardRequestFails(l)
        \/ OpenAnswered(l) \/ Acts(l) \/ ActionAnswered(l) \/ GitAnswered(l)

-----------------------------------------------------------------------------
(* When the page waits for nothing and no request failed, the cards show at *)
(* least what the user's own actions made: the git summary always (counters *)
(* of the list and of the metadata), the containers unless metadata, which  *)
(* has a counter of its own, landed over a newer status.                    *)
CardsFollow ==
    load = {} /\ misses = 0 =>
        \A p \in Cards : /\ page.git[p] >= wanted.git[p]
                         /\ page.docker[p] >= wanted.docker[p] \/ overtaken[p]

=============================================================================
