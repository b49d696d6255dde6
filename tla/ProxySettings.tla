----------------------------- MODULE ProxySettings -----------------------------
(***************************************************************************)
(* The outbound proxy of the runtime (proxy-settings.service.ts, proxy-    *)
(* settings.store.ts, proxy-vless-config.ts): the persisted profile, the   *)
(* three files generated from it, the containers that docker compose       *)
(* starts from those files, and the form of the Mini App that edits and    *)
(* applies the profile (use-proxy-settings.ts, ProvidersTab.tsx).          *)
(***************************************************************************)
EXTENDS Naturals, FiniteSets

CONSTANTS
    Routable,      \* services that may go through the proxy
    VlessLinks,    \* config URLs that somebody pastes
    GoodLinks,     \* those that parseVlessConfigUrl takes
    MaxProxyActs,  \* bound: acts of the user and polls
    MaxProxyJobs   \* bound: requests under way

NoLink == "none"
NoSidecar == "absent"

ASSUME ProxyBounds == /\ GoodLinks \subseteq VlessLinks
                      /\ {NoLink, NoSidecar} \cap VlessLinks = {}
                      /\ Routable # {} /\ "sidecar" \notin Routable
                      /\ {MaxProxyActs, MaxProxyJobs} \subseteq Nat

VARIABLES
    profile,   \* proxy.settings.json
    files,     \* proxy.env, docker-compose.vless.yml and xray.json
    stack,     \* which services are routed, which config the sidecar runs
    jobs,      \* requests under way, with the profile they have read
    form,      \* the draft, its derived proxy URL, whether a test passed, tests
    diary      \* acts; the profile applied last, and what disturbed it

proxy == <<profile, files, stack, jobs, form, diary>>

NoProfile == [mode |-> "unknown", link |-> NoLink, enabled |-> {}]
Direct == [mode |-> "direct", link |-> NoLink, enabled |-> Routable]
Vless(link, enabled) == [mode |-> "vless", link |-> link, enabled |-> enabled]

(* What syncRuntimeFiles writes for a profile, in this order.              *)
FileNames == <<"env", "override", "xray">>
Rendered(f, p) ==
    CASE f = "env" -> IF p.mode = "vless" THEN {"proxy"} ELSE {}
      [] f = "override" -> IF p.mode = "vless" THEN p.enabled \cup {"sidecar"} ELSE {}
      [] f = "xray" -> {p.link}
AllRendered(p) == [f \in {"env", "override", "xray"} |-> Rendered(f, p)]

ProxyInit ==
    /\ profile \in {Direct} \cup {Vless(l, Routable) : l \in GoodLinks}
    /\ files = AllRendered(profile)
    /\ stack = IF profile = Direct THEN [routed |-> {}, sidecar |-> NoSidecar]
               ELSE [routed |-> Routable, sidecar |-> profile.link]
    /\ jobs = {}
    /\ form = [draft |-> profile, derived |-> FALSE, passed |-> FALSE, testing |-> {}]
    /\ diary = [acts |-> 0, applied |-> profile, kept |-> {}, late |-> FALSE, trouble |-> {}]

MayActOn == diary.acts < MaxProxyActs /\ Cardinality(jobs) < MaxProxyJobs
ActedOn(d) == [d EXCEPT !.acts = @ + 1]

-----------------------------------------------------------------------------
(* The backend *)

Job(kind, p) == [kind |-> kind, profile |-> p, stage |-> 0, targets |-> {}]

(* normalizeInput and assertInput. *)
Valid(p) == p = Direct \/ (p.link \in GoodLinks /\ p.enabled # {})

(* Requests that overlap may leave files of two profiles behind, a request *)
(* alone that writes them all again puts an end to that.                   *)
DiaryBegun(writes) ==
    [ActedOn(diary) EXCEPT !.trouble = IF jobs # {} THEN @ \cup {"overlap"}
                                       ELSE IF writes THEN @ \ {"overlap"} ELSE @]

Step(j, k) == jobs' = (jobs \ {j}) \cup {k}

(* Faulty variant: the files are not written after the profile. *)
ProfileStoredOnly(j) ==
    /\ j.kind = "save" /\ j.stage = 0
    /\ profile' = j.profile /\ Step(j, [j EXCEPT !.stage = 4])
    /\ UNCHANGED <<files, stack, form, diary>>

(* updateSettings: store.set, or the refusal of an invalid profile. *)
ProfileStored(j) ==
    /\ j.kind = "save" /\ j.stage = 0
    /\ IF Valid(j.profile) THEN profile' = j.profile /\ Step(j, [j EXCEPT !.stage = 1])
       ELSE jobs' = jobs \ {j} /\ UNCHANGED profile
    /\ UNCHANGED <<files, stack, form, diary>>

(* getSettings waits for the write queue and reads the profile, ...        *)
ProfileRead(j) ==
    /\ j.kind = "get" /\ j.stage = 0
    /\ Step(j, [j EXCEPT !.stage = 1, !.profile = profile])
    /\ UNCHANGED <<profile, files, stack, form, diary>>

(* ... and then writes the files again, one after the other, as            *)
(* updateSettings does.                                                    *)
FileWritten(j) ==
    /\ j.kind \in {"get", "save"} /\ j.stage \in 1 .. 3
    /\ LET f == FileNames[j.stage]
       IN files' = [files EXCEPT ![f] = Rendered(f, j.profile)]
    /\ Step(j, [j EXCEPT !.stage = @ + 1])
    /\ UNCHANGED <<profile, stack, form, diary>>

(* buildApplyTargetServices *)
Targets(p) == IF p.mode = "vless" THEN p.enabled \cup {"sidecar"} ELSE Routable

TargetsChosen(j) ==
    /\ j.kind = "apply" /\ j.stage = 0
    /\ Step(j, [j EXCEPT !.stage = 1, !.profile = profile, !.targets = Targets(profile)])
    /\ UNCHANGED <<profile, files, stack, form, diary>>

(* docker compose up -d --remove-orphans: a container whose definition or  *)
(* environment changed is made anew, what it depends on is started, and a  *)
(* container that no file defines any more is removed.  The sidecar mounts *)
(* its config: it is not made anew when only that has changed.             *)
Sidecar == IF "sidecar" \notin files.override THEN NoSidecar
           ELSE IF stack.sidecar # NoSidecar THEN stack.sidecar
           ELSE CHOOSE l \in files.xray : TRUE

RoutedBy(targets) ==
    (stack.routed \ targets)
        \cup (IF files.env = {} THEN {} ELSE targets \cap files.override \cap Routable)

(* A service that the files do not define is an error before anything is   *)
(* done.                                                                   *)
Composable(targets) == targets \subseteq Routable \cup files.override

ComposeRuns(j) ==
    /\ j.kind = "apply" /\ j.stage = 1
    /\ IF Composable(j.targets)
       THEN /\ stack' = [routed |-> RoutedBy(j.targets), sidecar |-> Sidecar]
            /\ diary' = [diary EXCEPT
                   !.applied = IF "overlap" \in diary.trouble THEN NoProfile ELSE j.profile,
                   !.kept = (stack.routed \ j.profile.enabled)
                               \cup IF stack.sidecar # NoSidecar THEN {"sidecar"} ELSE {},
                   !.trouble = @ \ {"stopped"}]
       ELSE UNCHANGED <<stack, diary>>
    /\ Step(j, [j EXCEPT !.stage = 4])
    /\ UNCHANGED <<profile, files, form>>

(* Docker stops halfway: some containers are made anew, some are not. *)
ComposeStops(j) ==
    /\ j.kind = "apply" /\ j.stage = 1 /\ Composable(j.targets)
    /\ "stopped" \notin diary.trouble
    /\ \E done \in SUBSET (j.targets \ {"sidecar"}) :
          stack' = [routed |-> RoutedBy(done), sidecar |-> Sidecar]
    /\ diary' = [diary EXCEPT !.trouble = @ \cup {"stopped"}]
    /\ jobs' = jobs \ {j}
    /\ UNCHANGED <<profile, files, form>>

-----------------------------------------------------------------------------
(* The form *)

(* Every answered load or save replaces the draft; a save forgets the test *)
(* result; an answered apply loads again.                                  *)
JobAnswered(j) ==
    /\ j.stage = 4
    /\ IF j.kind = "apply" THEN Step(j, Job("get", Direct)) /\ UNCHANGED form
       ELSE /\ jobs' = jobs \ {j}
            /\ form' = [form EXCEPT !.draft = j.profile, !.derived = j.profile.mode = "vless",
                                    !.passed = IF j.kind = "save" THEN FALSE ELSE @]
    /\ UNCHANGED <<profile, files, stack, diary>>

(* The poll of the tab, and the report after a save or an apply. *)
Polled ==
    /\ MayActOn /\ \A j \in jobs : j.kind # "get"
    /\ jobs' = jobs \cup {Job("get", Direct)}
    /\ diary' = DiaryBegun(TRUE)
    /\ UNCHANGED <<profile, files, stack, form>>

(* Mode, link and services are edited; a new link is yet to be tested. *)
FormEdited(p) ==
    /\ MayActOn /\ p # form.draft
    /\ form' = [form EXCEPT !.draft = p, !.derived = p.link = form.draft.link /\ @]
    /\ diary' = ActedOn(diary)
    /\ UNCHANGED <<profile, files, stack, jobs>>

TestClicked ==
    /\ form.draft.link # NoLink /\ form.testing = {}
    /\ form' = [form EXCEPT !.testing = {form.draft.link}]
    /\ UNCHANGED <<profile, files, stack, jobs, diary>>

(* testVlessConfigUrl.  A success counts for the link of the draft,        *)
(* whichever link was tested.                                              *)
TestAnswered(l) ==
    /\ form' = [form EXCEPT !.testing = {},
                            !.derived = @ \/ l \in GoodLinks, !.passed = @ \/ l \in GoodLinks]
    /\ diary' = [diary EXCEPT !.late = @ \/ (l # form.draft.link /\ l \in GoodLinks)]
    /\ UNCHANGED <<profile, files, stack, jobs>>

MaySave == \/ form.draft.mode = "direct"
           \/ form.derived /\ form.passed

ProfileSaved ==
    /\ MayActOn /\ MaySave /\ \A j \in jobs : j.kind # "save"
    /\ jobs' = jobs \cup {Job("save", form.draft)}
    /\ diary' = DiaryBegun(Valid(form.draft))
    /\ UNCHANGED <<profile, files, stack, form>>

ApplyAsked ==
    /\ MayActOn /\ \A j \in jobs : j.kind # "apply"
    /\ jobs' = jobs \cup {Job("apply", Direct)}
    /\ diary' = DiaryBegun(FALSE)
    /\ UNCHANGED <<profile, files, stack, form>>

ProxyNext ==
    \/ Polled \/ TestClicked \/ ProfileSaved \/ ApplyAsked
    \/ \E p \in {Direct} \cup {Vless(l, e) : l \in VlessLinks, e \in SUBSET Routable} : FormEdited(p)
    \/ \E l \in form.testing : TestAnswered(l)
    \/ \E j \in jobs : ProfileStored(j) \/ ProfileRead(j) \/ FileWritten(j) \/ TargetsChosen(j)
                         \/ ComposeRuns(j) \/ ComposeStops(j) \/ JobAnswered(j)

-----------------------------------------------------------------------------
(* Properties *)

(* The profile is one that can be rendered, files and containers are about *)
(* services there are.                                                     *)
ProxyTypeOK ==
    /\ Valid(profile)
    /\ stack.routed \subseteq Routable /\ stack.sidecar \in VlessLinks \cup {NoLink, NoSidecar}
    /\ files.override \subseteq Routable \cup {"sidecar"}

(* No service is routed to a proxy that is not there, unless docker        *)
(* stopped halfway (proxy-settings.service.ts:85).                         *)
RoutesLeadSomewhere ==
    stack.routed # {} /\ "stopped" \notin diary.trouble => stack.sidecar # NoSidecar

(* With nothing under way the files are those of the profile, and if it    *)
(* was applied the containers follow it, but for requests that overlapped, *)
(* services that were routed before and a sidecar that was running before  *)
(* (proxy-settings.service.ts:112, :248).                                  *)
AppliedTakesEffect ==
    jobs = {} /\ diary.trouble = {} =>
        /\ files = AllRendered(profile)
        /\ diary.applied = profile =>
              /\ stack.routed \ diary.kept = IF profile.mode = "vless" THEN profile.enabled \ diary.kept
                                             ELSE {}
              /\ profile.mode = "direct" => stack = [routed |-> {}, sidecar |-> NoSidecar]
              /\ profile.mode = "vless" => /\ stack.sidecar # NoSidecar
                                           /\ stack.sidecar = profile.link \/ "sidecar" \in diary.kept

(* A profile goes to the backend only with a link that was tested, or is   *)
(* the stored one, unless the answer of an earlier test came late (use-    *)
(* proxy-settings.ts:79).                                                  *)
SavesTestedLinks ==
    \A j \in jobs : j.kind = "save" /\ ~diary.late => Valid(j.profile) \/ j.profile.enabled = {}

=============================================================================
