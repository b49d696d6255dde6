----------------------------- MODULE CliproxyAccounts -----------------------------
(***************************************************************************)
(* Switching, testing and deleting the accounts of one CLIProxy provider   *)
(* (cliproxy-account.service.ts, cliproxy-auth-runtime.service.ts).  An    *)
(* account is an auth file with a "disabled" flag; each flag is set by a   *)
(* docker exec of its own, which may fail, and the backend may crash       *)
(* between two of them.  A window of the Mini App sends one request at a   *)
(* time; nothing keeps two windows apart.                                  *)
(***************************************************************************)
EXTENDS Naturals, FiniteSets

CONSTANTS
    MaxAccounts,  \* bound: accounts of the provider, numbered in name order
    Windows,      \* Mini App windows
    MaxJobs,      \* bound: requests
    MaxFailures   \* bound: commands that fail, and crashes

ASSUME AccountBounds == {MaxAccounts, MaxJobs, MaxFailures} \subseteq Nat

Accounts == 1 .. MaxAccounts
NoAccount == 0

NoJob == [kind |-> "none", at |-> "none", target |-> NoAccount, todo |-> {}, applied |-> {},
          original |-> [a \in Accounts |-> "absent"]]

VARIABLES
    flag,     \* per account: the auth file's flag, or that there is no file
    job,      \* per window: the request under way
    history   \* requests, failures; whether a failure, a crash or a second
              \* request has come in the way of a test or of another request

accounts == <<flag, job, history>>

AccountsInit ==
    /\ flag \in [Accounts -> {"on", "off", "absent"}]
    /\ \E a \in Accounts : flag[a] = "on"
    /\ job = [w \in Windows |-> NoJob]
    /\ history = [jobs |-> 0, failures |-> 0, spoiled |-> FALSE]

Present(f) == {a \in Accounts : f[a] # "absent"}

-----------------------------------------------------------------------------
(* The requests *)

Siblings(t) == Present(flag) \ {t}

(* Faulty variant: the chosen account is enabled last. *)
ChosenLast(j, a, b) == a # j.target /\ (b = j.target \/ a < b)

(* "Enable the chosen account first", then the others in name order *)
ChosenFirst(j, a, b) == a = j.target \/ (b # j.target /\ a < b)

(* The rollback of an activation goes backwards; a test restores every     *)
(* account in name order.                                                  *)
ComesBefore(j, a, b) ==
    CASE j.at = "switching" -> ChosenFirst(j, a, b)
      [] j.at = "restoring" /\ j.kind = "activate" -> ChosenFirst(j, b, a)
      [] OTHER -> a < b

ComesNext(j, a) == a \in j.todo /\ \A b \in j.todo \ {a} : ComesBefore(j, a, b)

JobBegins(w, kind, t, at, todo) ==
    /\ job[w] = NoJob /\ t \in Present(flag) /\ history.jobs < MaxJobs
    /\ job' = [job EXCEPT ![w] = [kind |-> kind, at |-> at, target |-> t, todo |-> todo,
                                  applied |-> {}, original |-> flag]]
    /\ history' = [history EXCEPT !.jobs = @ + 1,
                                  !.spoiled = @ \/ \E v \in Windows : job[v] # NoJob]
    /\ UNCHANGED flag

ActivateAccount(w, t) == JobBegins(w, "activate", t, "switching", Present(flag))

TestAccount(w, t) == JobBegins(w, "test", t, "switching", Present(flag))

(* The first sibling is enabled when all of them are disabled. *)
DeleteAccount(w, t) ==
    JobBegins(w, "delete", t, "switching",
              {a \in Siblings(t) : \A b \in Siblings(t) : flag[b] = "off" /\ a <= b})

(* completeOAuth: CLIProxy writes a new auth file. *)
CompleteOAuth ==
    /\ \E a \in Accounts \ Present(flag) : flag' = [flag EXCEPT ![a] = "on"]
    /\ UNCHANGED <<job, history>>

-----------------------------------------------------------------------------
(* setDisabled, one file at a time *)

JobEnds(w) == job' = [job EXCEPT ![w] = NoJob]

Sets(a, value) == flag' = [flag EXCEPT ![a] = value]

Wanted(j, a) ==
    IF j.kind = "delete" \/ a = j.target THEN "on" ELSE "off"

SetDisabled(w) ==
    \E a \in Accounts :
        /\ job[w].at = "switching" /\ ComesNext(job[w], a)
        /\ flag[a] # "absent"
        /\ Sets(a, Wanted(job[w], a))
        /\ job' = [job EXCEPT ![w].todo = @ \ {a}, ![w].applied = @ \cup {a}]
        /\ UNCHANGED history

Failure(spoils) ==
    /\ history.failures < MaxFailures
    /\ history' = [history EXCEPT !.failures = @ + 1, !.spoiled = @ \/ spoils]

(* An activation takes back what it has switched, a test restores every    *)
(* account.                                                                *)
Restores(j) ==
    CASE j.kind = "activate" -> [j EXCEPT !.at = "restoring", !.todo = j.applied]
      [] j.kind = "test" -> [j EXCEPT !.at = "restoring", !.todo = Present(j.original)]
      [] OTHER -> NoJob

SetDisabledFails(w) ==
    \E a \in Accounts :
        /\ job[w].at = "switching" /\ ComesNext(job[w], a)
        /\ IF flag[a] = "absent" THEN UNCHANGED history ELSE Failure(FALSE)
        /\ job' = [job EXCEPT ![w] = Restores(@)]
        /\ UNCHANGED flag

(* All flags are set: an activation is done, a test is probed, and its     *)
(* probe succeeds or not.                                                  *)
Switched(w) ==
    /\ job[w].at = "switching" /\ job[w].todo = {}
    /\ CASE job[w].kind = "activate" -> JobEnds(w) /\ UNCHANGED flag
         [] job[w].kind = "test" -> job' = [job EXCEPT ![w] = Restores(@)] /\ UNCHANGED flag
         [] OTHER -> JobEnds(w) /\ Sets(job[w].target, "absent")
    /\ UNCHANGED history

Restored(w) ==
    \E a \in Accounts :
        /\ job[w].at = "restoring" /\ ComesNext(job[w], a)
        /\ IF flag[a] = "absent" THEN UNCHANGED flag ELSE Sets(a, job[w].original[a])
        /\ job' = [job EXCEPT ![w].todo = @ \ {a}]
        /\ UNCHANGED history

(* A file that cannot be restored is logged and left. *)
RestoreFails(w) ==
    \E a \in Accounts :
        /\ job[w].at = "restoring" /\ ComesNext(job[w], a)
        /\ Failure(TRUE)
        /\ job' = [job EXCEPT ![w].todo = @ \ {a}]
        /\ UNCHANGED flag

RestoreEnds(w) ==
    /\ job[w].at = "restoring" /\ job[w].todo = {}
    /\ JobEnds(w)
    /\ UNCHANGED <<flag, history>>

(* deleteFile fails: the request ends with the file in place. *)
DeleteFails(w) ==
    /\ job[w].kind = "delete" /\ job[w].todo = {}
    /\ Failure(FALSE)
    /\ JobEnds(w)
    /\ UNCHANGED flag

BackendDies ==
    /\ Failure(\E w \in Windows : job[w].kind = "test")
    /\ job' = [w \in Windows |-> NoJob]
    /\ UNCHANGED flag

AccountsNext ==
    \/ \E w \in Windows, t \in Accounts :
           ActivateAccount(w, t) \/ TestAccount(w, t) \/ DeleteAccount(w, t)
    \/ \E w \in Windows :
           \/ SetDisabled(w) \/ SetDisabledFails(w) \/ Switched(w) \/ DeleteFails(w)
           \/ Restored(w) \/ RestoreFails(w) \/ RestoreEnds(w)
    \/ CompleteOAuth \/ BackendDies

AccountsSpec == AccountsInit /\ [][AccountsNext]_accounts

-----------------------------------------------------------------------------
(* Properties *)

(* A request works on accounts it has seen, and on its target. *)
AccountsTypeOK ==
    /\ flag \in [Accounts -> {"on", "off", "absent"}]
    /\ \A w \in Windows : job[w] # NoJob =>
           /\ job[w].target \in Present(job[w].original)
           /\ job[w].todo \cup job[w].applied \subseteq Present(job[w].original)
    /\ history.jobs <= MaxJobs /\ history.failures <= MaxFailures

(* "One runtime failure cannot leave provider with zero active entries",   *)
(* "provider never ends up with only disabled leftovers": as long as no    *)
(* two requests overlap and no restoring was disturbed, an account stays   *)
(* enabled at every moment of an activation, its rollback and a deletion,  *)
(* and after a test, whichever command fails and wherever the backend      *)
(* crashes (cliproxy-account.service.ts:209, :267).                        *)
OneStaysOn ==
    (\A w \in Windows : job[w].kind # "test") /\ ~history.spoiled /\ Present(flag) # {}
        => \E a \in Accounts : flag[a] = "on"

=============================================================================
