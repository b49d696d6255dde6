--------------------------- MODULE RuntimeServices ---------------------------
(***************************************************************************)
(* The dashboard of the managed services: the backend asks docker and the  *)
(* services themselves, all services at once and each in three steps       *)
(* (runtime-services.service.ts), and restarts the containers of a service *)
(* on demand (runtime-services.controller.ts, use-runtime-services.ts).    *)
(***************************************************************************)
EXTENDS Naturals, FiniteSets

CONSTANTS
    Managed,          \* the services, one container each
    MaxServiceActs,   \* bound: polls, reloads, restarts asked for, and moves
    MaxViews,         \* bound: snapshots under way
    MaxServiceMoves   \* bound: changes of containers and failures of docker

ASSUME ServiceBounds ==
    /\ {MaxServiceActs, MaxViews, MaxServiceMoves} \subseteq Nat
    /\ "nobody" \notin Managed

VARIABLES
    host,       \* docker: per service the condition and age of its container
    views,      \* snapshots under way
    restarts,   \* restarts under way
    dash,       \* the window: what it shows, busy services, what it was promised
    watch       \* acts, snapshots, moves; services that changed since what is shown was
                \* asked for, and whether an older snapshot came last

fleet == <<host, views, restarts, dash, watch>>

(* failing: docker's health check says unhealthy; mute: only the probe     *)
(* fails, by its timeout or with a status of 500 and above.                *)
UpConditions == {"warming", "failing", "mute", "fine"}
Conditions == {"missing", "exited"} \cup UpConditions

(* resolveHealth *)
Health(condition, answered) ==
    IF condition \in {"missing", "exited", "failing"} THEN "down"
    ELSE IF condition = "warming" \/ ~answered THEN "degraded" ELSE "healthy"

HealthOf(s) == Health(host[s].condition, host[s].condition # "mute")

NotYetRead == [health |-> "unknown", age |-> 0]

FleetInit ==
    /\ host = [s \in Managed |-> [condition |-> "fine", age |-> 0]]
    /\ views = {} /\ restarts = {}
    /\ dash = [shown |-> [s \in Managed |-> NotYetRead], busy |-> {},
               promised |-> [s \in Managed |-> 0], newest |-> 0]
    /\ watch = [acts |-> 0, sent |-> 0, moves |-> 0, changed |-> Managed, late |-> FALSE]

MayWatch == watch.acts + watch.moves < MaxServiceActs
MayMove == MayWatch /\ watch.moves < MaxServiceMoves

-----------------------------------------------------------------------------
(* Snapshots *)

View(id, for) ==
    [id |-> id, for |-> for, changed |-> {}, failed |-> FALSE,
     at |-> [s \in Managed |-> "list"], read |-> [s \in Managed |-> NotYetRead],
     seen |-> [s \in Managed |-> "missing"]]

Onward(v, w) == views' = (views \ {v}) \cup {w}

(* listContainerNames: a service without a container is down. *)
NamesListed(v, s) ==
    /\ v.at[s] = "list"
    /\ Onward(v, IF host[s].condition = "missing"
                 THEN [v EXCEPT !.at[s] = "done",
                                !.read[s] = [health |-> "down", age |-> host[s].age]]
                 ELSE [v EXCEPT !.at[s] = "inspect"])
    /\ UNCHANGED <<host, restarts, dash, watch>>

(* docker inspect of a container that went meanwhile is an error, and so   *)
(* is the whole snapshot; the probe is for what claims to be running.      *)
Inspected(v, s) ==
    LET c == host[s].condition
        w == [v EXCEPT !.seen[s] = c, !.read[s] = [health |-> "down", age |-> host[s].age]]
    IN /\ v.at[s] = "inspect"
       /\ Onward(v, CASE c = "missing" -> [v EXCEPT !.failed = TRUE]
                      [] c = "exited" -> [w EXCEPT !.at[s] = "done"]
                      [] OTHER -> [w EXCEPT !.at[s] = "probe"])
       /\ UNCHANGED <<host, restarts, dash, watch>>

(* A service that warms up or that docker calls unhealthy may answer.      *)
Probed(v, s) ==
    /\ v.at[s] = "probe"
    /\ \E answered \in BOOLEAN :
          /\ host[s].condition = "fine" => answered
          /\ host[s].condition \in {"missing", "exited", "mute"} => ~answered
          /\ Onward(v, [v EXCEPT !.at[s] = "done",
                                 !.read[s].health = Health(v.seen[s], answered)])
    /\ UNCHANGED <<host, restarts, dash, watch>>

(* A docker command times out. *)
DockerHangs(v) ==
    /\ MayMove /\ ~v.failed /\ \E s \in Managed : v.at[s] \in {"list", "inspect"}
    /\ Onward(v, [v EXCEPT !.failed = TRUE])
    /\ watch' = [watch EXCEPT !.moves = @ + 1]
    /\ UNCHANGED <<host, restarts, dash>>

(* Faulty variant: nothing is read again after a restart. *)
RestartsOverAlready(d, r) ==
    /\ dash' = [d EXCEPT !.busy = @ \ {r.service}]
    /\ UNCHANGED <<views, watch>>

(* loadSnapshot of restartService, whatever its answer. *)
RestartReadsAgain(d, r) ==
    /\ views' = views \cup {View(watch.sent + 1, r.service)}
    /\ watch' = [watch EXCEPT !.sent = @ + 1]
    /\ dash' = d

(* setSnapshot, or the error and what was shown before. *)
ViewAnswered(v) ==
    LET done == \A s \in Managed : v.at[s] = "done"
    IN /\ v.failed \/ done
       /\ views' = views \ {v}
       /\ dash' = [dash EXCEPT !.shown = IF v.failed THEN @ ELSE v.read,
                               !.newest = IF v.failed \/ v.id < @ THEN @ ELSE v.id,
                               !.busy = @ \ {v.for},
                               !.promised = IF v.failed /\ v.for \in Managed
                                            THEN [@ EXCEPT ![v.for] = 0] ELSE @]
       /\ watch' = IF v.failed THEN watch
                   ELSE [watch EXCEPT !.changed = v.changed, !.late = v.id < dash.newest]
       /\ UNCHANGED <<host, restarts>>

(* The poll, the focus, the reload button, and the report of a change.     *)
ViewAsked ==
    /\ MayWatch /\ Cardinality(views) < MaxViews
    /\ views' = views \cup {View(watch.sent + 1, "nobody")}
    /\ watch' = [watch EXCEPT !.acts = @ + 1, !.sent = @ + 1]
    /\ UNCHANGED <<host, restarts, dash>>

-----------------------------------------------------------------------------
(* Containers and their restarts *)

(* Every snapshot under way, and the one shown, may be of before.          *)
HostBecomes(s, condition, age) ==
    /\ host' = [host EXCEPT ![s] = [condition |-> condition, age |-> age]]
    /\ views' = {[v EXCEPT !.changed = @ \cup {s}] : v \in views}

ContainerMoves(s, condition) ==
    /\ MayMove /\ condition # host[s].condition
    /\ HostBecomes(s, condition, host[s].age)
    /\ watch' = [watch EXCEPT !.moves = @ + 1, !.changed = @ \cup {s}]
    /\ UNCHANGED <<restarts, dash>>

(* The button of a service is busy until its restart is shown. *)
RestartPressed(s) ==
    /\ MayWatch /\ s \notin dash.busy
    /\ restarts' = restarts \cup {[service |-> s, at |-> "list", age |-> 0]}
    /\ dash' = [dash EXCEPT !.busy = @ \cup {s}, !.promised[s] = 0]
    /\ watch' = [watch EXCEPT !.acts = @ + 1]
    /\ UNCHANGED <<host, views>>

Restarting(r, at, age) == restarts' = (restarts \ {r}) \cup {[r EXCEPT !.at = at, !.age = age]}

(* restartService: no container is an error. *)
RestartListed(r) ==
    /\ r.at = "list"
    /\ Restarting(r, IF host[r.service].condition = "missing" THEN "error" ELSE "restart", 0)
    /\ UNCHANGED <<host, views, dash, watch>>

(* docker restart: done, refused since the container is gone, or stopped   *)
(* by its timeout when the container may have been restarted or not.       *)
ContainerRestarts(r) ==
    LET s == r.service
        age == host[s].age + 1
    IN /\ r.at = "restart" /\ host[s].condition # "missing"
       /\ \E c \in {"warming", "fine", "exited"} : HostBecomes(s, c, age)
       /\ \/ Restarting(r, "ok", age) /\ watch' = [watch EXCEPT !.changed = @ \cup {s}]
          \/ /\ MayMove /\ Restarting(r, "error", 0)
             /\ watch' = [watch EXCEPT !.changed = @ \cup {s}, !.moves = @ + 1]
       /\ UNCHANGED dash

RestartFails(r) ==
    /\ r.at = "restart"
    /\ host[r.service].condition = "missing" \/ MayMove
    /\ Restarting(r, "error", 0)
    /\ watch' = [watch EXCEPT !.moves = IF host[r.service].condition = "missing" THEN @ ELSE @ + 1]
    /\ UNCHANGED <<host, views, dash>>

RestartAnswered(r) ==
    /\ r.at \in {"ok", "error"}
    /\ restarts' = restarts \ {r}
    /\ IF r.at = "ok"
       THEN RestartReadsAgain([dash EXCEPT !.promised[r.service] = r.age], r)
       ELSE dash' = [dash EXCEPT !.busy = @ \ {r.service}] /\ UNCHANGED <<views, watch>>
    /\ UNCHANGED host

FleetNext ==
    \/ ViewAsked
    \/ \E v \in views : DockerHangs(v) \/ ViewAnswered(v)
    \/ \E v \in views, s \in Managed : ~v.failed /\ (NamesListed(v, s) \/ Inspected(v, s) \/ Probed(v, s))
    \/ \E s \in Managed : RestartPressed(s) \/ \E c \in Conditions : ContainerMoves(s, c)
    \/ \E r \in restarts : RestartListed(r) \/ ContainerRestarts(r) \/ RestartFails(r) \/ RestartAnswered(r)

-----------------------------------------------------------------------------
(* Properties *)

(* Conditions, results and busy services are what the code handles.        *)
FleetTypeOK ==
    /\ \A s \in Managed : host[s].condition \in Conditions
    /\ \A s \in Managed : dash.shown[s].health \in {"unknown", "down", "degraded", "healthy"}
    /\ dash.busy \subseteq Managed
    /\ \A v \in views : \A s \in Managed : v.at[s] \in {"list", "inspect", "probe", "done"}

(* Once a restart is over, the dashboard shows the container that it has   *)
(* started and not the one before, unless the snapshot failed or one of    *)
(* before was answered after it (use-runtime-services.ts:39).              *)
RestartIsShown ==
    \A s \in Managed : dash.promised[s] > 0 /\ s \notin dash.busy /\ ~watch.late
        => dash.shown[s].age >= dash.promised[s]

(* A service whose container has not changed since the snapshot was asked  *)
(* for has the health that is shown, whatever happened to the others while *)
(* the snapshot was put together (runtime-services.service.ts:105).        *)
ShownHealthIsTrue ==
    \A s \in Managed \ watch.changed : dash.shown[s].health = HealthOf(s)

=============================================================================
