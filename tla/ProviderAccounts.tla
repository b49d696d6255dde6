--------------------------- MODULE ProviderAccounts ---------------------------
(* The providers of models in the Mini App: logging in to them, and the    *)
(* cards of the CLIProxy accounts.                                         *)
EXTENDS Naturals, FiniteSets

-----------------------------------------------------------------------------
(***************************************************************************)
(* Connecting OpenCode to providers of models from the Mini App            *)
(* (use-provider-auth.ts, ProvidersTab.tsx,                                *)
(* telegram-provider.controller.ts, opencode-provider-auth.client.ts).     *)
(* The tab shows an overview of the providers, asked for when the tab is   *)
(* shown, every so often, after each of its own calls and when the backend *)
(* announces a change.  A form leads through one provider's login: a key,  *)
(* a code, or a page to confirm.  One call is made at a time; answers to   *)
(* overviews come in any order.                                            *)
(***************************************************************************)

CONSTANTS
    Vendors,       \* providers
    Method,        \* per provider: its way to log in, "none" when OpenCode lists none
    NoVendor,
    MaxOverviews,  \* bound: overviews asked for
    MaxLoginCalls, \* bound: calls
    MaxLoginFaults \* bound: calls that fail

ASSUME LoginBounds ==
    /\ {MaxOverviews, MaxLoginCalls, MaxLoginFaults} \subseteq Nat
    /\ Method \in [Vendors -> {"none", "api", "code", "auto"}]

NoForm == [of |-> NoVendor, kind |-> "none", code |-> FALSE]
NoCall == [kind |-> "none", of |-> NoVendor, typed |-> NoVendor, at |-> "none", own |-> 0]

VARIABLES
    logins,    \* per provider: the credentials that OpenCode keeps
    expecting,     \* per provider: whether OpenCode waits for its OAuth answer
    loginForm,      \* the form that is open
    keyDraft,  \* the provider that the key in the masked field was typed for
    loginCall,      \* the call under way: isSubmitting while there is one
    overviews, \* per overview asked for: where it stands and what it says
    shownLogins, \* the overview shown
    loginTally      \* calls, failures; whether overviews were under way at once

connecting == <<logins, expecting, loginForm, keyDraft, loginCall, overviews, shownLogins, loginTally>>

LoginViews == 1 .. MaxOverviews
Unasked == [at |-> "none", says |-> [v \in Vendors |-> "none"]]

LoginInit ==
    /\ logins = [v \in Vendors |-> "none"]
    /\ expecting = [v \in Vendors |-> FALSE]
    /\ loginForm = NoForm /\ keyDraft = NoVendor /\ loginCall = NoCall
    /\ overviews = [o \in LoginViews |-> Unasked]
    /\ shownLogins = [v \in Vendors |-> "unknown"]
    /\ loginTally = [calls |-> 0, faults |-> 0, crossed |-> FALSE]

LoginFault == loginTally.faults < MaxLoginFaults

-----------------------------------------------------------------------------
(* The overview *)

UnderWay == {o \in LoginViews : overviews[o].at \in {"asked", "said"}}

AskedIn(os, o) == [os EXCEPT ![o] = [Unasked EXCEPT !.at = "asked"]]

IsNextOverview(o) ==
    overviews[o].at = "none" /\ \A n \in LoginViews : n < o => overviews[n].at # "none"

(* The tab is shown, time passes, or the backend announced a change.       *)
LoginsAsked ==
    /\ \E o \in LoginViews : IsNextOverview(o) /\ overviews' = AskedIn(overviews, o)
    /\ loginTally' = [loginTally EXCEPT !.crossed = @ \/ UnderWay # {}]
    /\ UNCHANGED <<logins, expecting, loginForm, keyDraft, loginCall, shownLogins>>

LoginsRead(o) ==
    /\ overviews[o].at = "asked"
    /\ overviews' = [overviews EXCEPT ![o] = [at |-> "said", says |-> logins]]
    /\ UNCHANGED <<logins, expecting, loginForm, keyDraft, loginCall, shownLogins, loginTally>>

(* The call whose overview this was is over. *)
Released(o) == IF loginCall.own = o THEN NoCall ELSE loginCall

LoginsShown(o) ==
    /\ overviews[o].at = "said"
    /\ shownLogins' = overviews[o].says
    /\ overviews' = [overviews EXCEPT ![o].at = "over"]
    /\ loginCall' = Released(o)
    /\ UNCHANGED <<logins, expecting, loginForm, keyDraft, loginTally>>

LoginsFail(o) ==
    /\ o \in UnderWay /\ LoginFault
    /\ overviews' = [overviews EXCEPT ![o].at = "over"]
    /\ loginCall' = Released(o)
    /\ loginTally' = [loginTally EXCEPT !.faults = @ + 1]
    /\ UNCHANGED <<logins, expecting, loginForm, keyDraft, shownLogins>>

-----------------------------------------------------------------------------
(* The form *)

LoginIdle == loginCall = NoCall

Calls(kind, v, typed) ==
    /\ loginTally.calls < MaxLoginCalls
    /\ loginCall' = [kind |-> kind, of |-> v, typed |-> typed, at |-> "sent", own |-> 0]
    /\ loginTally' = [loginTally EXCEPT !.calls = @ + 1]

(* Providers that are not connected may be; without a method they take a   *)
(* key.                                                                    *)
StartConnect(v) ==
    /\ LoginIdle /\ loginForm = NoForm /\ shownLogins[v] = "none"
    /\ IF Method[v] \in {"none", "api"}
       THEN loginForm' = [of |-> v, kind |-> "api", code |-> FALSE] /\ UNCHANGED <<loginCall, loginTally>>
       ELSE Calls("authorize", v, NoVendor) /\ UNCHANGED loginForm
    /\ UNCHANGED <<logins, expecting, keyDraft, overviews, shownLogins>>

(* The key stays in the tab's field when the form is closed; the code goes *)
(* with the form.                                                          *)
LoginTypes ==
    /\ loginForm # NoForm
    /\ CASE loginForm.kind = "api" -> keyDraft' = loginForm.of /\ UNCHANGED loginForm
         [] loginForm.kind = "code" -> loginForm' = [loginForm EXCEPT !.code = TRUE] /\ UNCHANGED keyDraft
         [] OTHER -> FALSE
    /\ UNCHANGED <<logins, expecting, loginCall, overviews, shownLogins, loginTally>>

FormClosed ==
    /\ LoginIdle /\ loginForm # NoForm
    /\ loginForm' = NoForm
    /\ UNCHANGED <<logins, expecting, keyDraft, loginCall, overviews, shownLogins, loginTally>>

(* submitApiKey, submitOAuthCode, completeOAuthAuto *)
LoginSubmits ==
    /\ LoginIdle
    /\ CASE loginForm.kind = "api" -> Calls("key", loginForm.of, keyDraft)
         [] loginForm.kind = "code" -> loginForm.code /\ Calls("callback", loginForm.of, NoVendor)
         [] loginForm.kind = "auto" -> Calls("callback", loginForm.of, NoVendor)
         [] OTHER -> FALSE
    /\ UNCHANGED <<logins, expecting, loginForm, keyDraft, overviews, shownLogins>>

Disconnects(v) ==
    /\ LoginIdle /\ loginForm = NoForm /\ shownLogins[v] \in {"key", "oauth"}
    /\ Calls("disconnect", v, NoVendor)
    /\ UNCHANGED <<logins, expecting, loginForm, keyDraft, overviews, shownLogins>>

(* OpenCode does what the controller passes on; a key must not be empty,   *)
(* and a callback needs a login that was begun.                            *)
LoginRefused(c) ==
    \/ c.kind = "key" /\ c.typed = NoVendor
    \/ c.kind = "callback" /\ ~expecting[c.of]

LoginServed ==
    /\ loginCall.at = "sent" /\ ~LoginRefused(loginCall)
    /\ loginCall' = [loginCall EXCEPT !.at = "served"]
    /\ logins' = [logins EXCEPT ![loginCall.of] = CASE loginCall.kind = "key" -> "key"
                                               [] loginCall.kind = "callback" -> "oauth"
                                               [] loginCall.kind = "disconnect" -> "none"
                                               [] OTHER -> @]
    /\ expecting' = [expecting EXCEPT ![loginCall.of] = CASE loginCall.kind = "authorize" -> TRUE
                                             [] loginCall.kind = "callback" -> FALSE
                                             [] OTHER -> @]
    /\ UNCHANGED <<loginForm, keyDraft, overviews, shownLogins, loginTally>>

(* After an authorization the form opens; after anything else it closes,   *)
(* and the call is over when the overview was asked for again.             *)
LoginAnswered ==
    /\ loginCall.at = "served"
    /\ IF loginCall.kind = "authorize"
       THEN /\ loginForm' = [of |-> loginCall.of, kind |-> Method[loginCall.of], code |-> FALSE]
            /\ loginCall' = NoCall /\ UNCHANGED <<overviews, loginTally>>
       ELSE /\ loginForm' = NoForm
            /\ \E o \in LoginViews :
                   /\ IsNextOverview(o)
                   /\ overviews' = AskedIn(overviews, o)
                   /\ loginCall' = [loginCall EXCEPT !.at = "reload", !.own = o]
            /\ loginTally' = [loginTally EXCEPT !.crossed = @ \/ UnderWay # {}]
    /\ UNCHANGED <<logins, expecting, keyDraft, shownLogins>>

(* The form stays as it was. *)
LoginFails ==
    /\ loginCall.at \in {"sent", "served"}
    /\ IF loginCall.at = "sent" /\ LoginRefused(loginCall) THEN UNCHANGED loginTally
       ELSE LoginFault /\ loginTally' = [loginTally EXCEPT !.faults = @ + 1]
    /\ loginCall' = NoCall
    /\ UNCHANGED <<logins, expecting, loginForm, keyDraft, overviews, shownLogins>>

LoginNext ==
    \/ LoginsAsked \/ \E o \in LoginViews : LoginsRead(o) \/ LoginsShown(o) \/ LoginsFail(o)
    \/ \E v \in Vendors : StartConnect(v) \/ Disconnects(v)
    \/ LoginTypes \/ FormClosed \/ LoginSubmits \/ LoginServed \/ LoginAnswered \/ LoginFails

LoginSpec == LoginInit /\ [][LoginNext]_connecting

-----------------------------------------------------------------------------
(* Properties *)

(* A call that asked for its overview waits for it alone. *)
LoginTypeOK ==
    /\ logins \in [Vendors -> {"none", "key", "oauth"}]
    /\ expecting \in [Vendors -> BOOLEAN] /\ keyDraft \in Vendors \cup {NoVendor}
    /\ loginForm.kind \in {"none", "api", "code", "auto"}
    /\ loginCall.at \in {"none", "sent", "served", "reload"}
    /\ loginCall.at = "reload" => loginCall.own \in UnderWay
    /\ loginTally.calls <= MaxLoginCalls /\ loginTally.faults <= MaxLoginFaults

(* The form of an OAuth login is one that OpenCode waits for, or that it   *)
(* has already taken when the answer was lost                              *)
(* (use-provider-auth.ts:96, :140); and with no overview or call under way *)
(* the tab shows the logins there are, as long as no overview overtook     *)
(* another and no call failed (use-provider-auth.ts:204).                  *)
LoginsLeadSomewhere ==
    /\ loginForm.kind \in {"code", "auto"} => expecting[loginForm.of] \/ logins[loginForm.of] = "oauth"
    /\ UnderWay = {} /\ loginCall = NoCall /\ ~loginTally.crossed /\ loginTally.faults = 0
           => \A v \in Vendors : shownLogins[v] \in {"unknown", logins[v]}

-----------------------------------------------------------------------------
(***************************************************************************)
(* The CLIProxy accounts in the Mini App (use-cliproxy-accounts.ts,        *)
(* CliproxyAccountsSection.tsx, CliproxyAccountService.getState).  The     *)
(* list is loaded when the tab is entered, polled or focused, one such     *)
(* load at a time, and again after every operation of the user, one such   *)
(* operation at a time.  The backend puts the list together from several   *)
(* calls to CLIProxy.  What an operation does to the auth files is one     *)
(* step here and step by step in CliproxyAccounts.                         *)
(***************************************************************************)

CONSTANTS
    Credentials,   \* auth files of one provider
    NoCredential,
    MaxCardActs,   \* bound: operations
    MaxCardSyncs,  \* bound: loads of the tab
    MaxCardFaults  \* bound: calls that fail

ASSUME CardBounds == {MaxCardActs, MaxCardSyncs, MaxCardFaults} \subseteq Nat

Flags == {"on", "off", "absent"}
Flows == 1 .. MaxCardActs

NoLoad == [at |-> "none", says |-> [c \in Credentials |-> "absent"]]
NoAct == [kind |-> "none", on |-> NoCredential, flow |-> 0, at |-> "none", failed |-> FALSE]

VARIABLES
    pool,      \* per auth file: its flag, or that it is not there
    usageApi,  \* the usage endpoint: there, or removed in this CLIProxy
    cardLoad,  \* the load of the tab and the one of the operation
    act,       \* the operation: isSubmitting while there is one
    flow,      \* the login whose dialog is open: oauthStart
    begunFlows,\* the logins that CLIProxy waits for
    draft,     \* the login whose callback is in the dialog's fields
    shownPool, \* the list shown
    doomed,    \* the account that the deletion dialog is about
    alert,     \* whose error is shown
    cardLog    \* operations, loads, failures; whether loads overlapped, and
               \* whether the last operation failed and nothing began since

cardsTab == <<pool, usageApi, cardLoad, act, flow, begunFlows, draft, shownPool, doomed, alert, cardLog>>

CardAccountsInit ==
    /\ pool \in [Credentials -> Flags]
    /\ usageApi \in {"there", "removed"}
    /\ cardLoad = [s \in {"tab", "act"} |-> NoLoad]
    /\ act = NoAct
    /\ flow = 0 /\ begunFlows = {} /\ draft = 0
    /\ shownPool = [c \in Credentials |-> "absent"]
    /\ doomed = NoCredential /\ alert = "none"
    /\ cardLog = [acts |-> 0, syncs |-> 0, faults |-> 0, crossed |-> FALSE, fresh |-> FALSE, failed |-> FALSE]

FilesIn(p) == {c \in Credentials : p[c] # "absent"}

Trips == cardLog.faults < MaxCardFaults

-----------------------------------------------------------------------------
(* Loading the list *)

CardsLoading == \E s \in {"tab", "act"} : cardLoad[s] # NoLoad

LoadOf(s) == cardLoad' = [cardLoad EXCEPT ![s].at = "reads"]

(* The tab is entered, polled or focused. *)
TabLoads ==
    /\ cardLoad["tab"] = NoLoad /\ cardLog.syncs < MaxCardSyncs
    /\ LoadOf("tab")
    /\ alert' = "none"
    /\ cardLog' = [cardLog EXCEPT !.syncs = @ + 1, !.crossed = @ \/ CardsLoading, !.failed = FALSE]
    /\ UNCHANGED <<pool, usageApi, act, flow, begunFlows, draft, shownPool, doomed>>

(* getAuthFiles, getConfig and getUsageStatisticsEnabled have answered.    *)
FilesRead(s) ==
    /\ cardLoad[s].at = "reads"
    /\ cardLoad' = [cardLoad EXCEPT ![s] = [at |-> "usage", says |-> pool]]
    /\ UNCHANGED <<pool, usageApi, act, flow, begunFlows, draft, shownPool, doomed, alert, cardLog>>

(* "Account connectivity must remain usable without telemetry": the usage  *)
(* is read or the endpoint was removed; quotas are left out when they fail. *)
UsageRead(s) ==
    /\ cardLoad[s].at = "usage"
    /\ cardLoad' = [cardLoad EXCEPT ![s].at = "said"]
    /\ UNCHANGED <<pool, usageApi, act, flow, begunFlows, draft, shownPool, doomed, alert, cardLog>>

(* Faulty variant: the error of the operation is not put back. *)
FinalizedAsLoaded(s, shown) ==
    /\ alert' = shown
    /\ IF s = "act" THEN act' = NoAct ELSE UNCHANGED act

(* finalizeAccountMutation: the operation is over with its own load, and   *)
(* its error is shown whatever the load showed.                            *)
Finalized(s, shown) ==
    IF s = "act"
    THEN /\ act' = NoAct
         /\ alert' = IF act.failed THEN "act" ELSE shown
    ELSE /\ alert' = shown /\ UNCHANGED act

(* The deletion dialog closes when its account is gone, and when the       *)
(* deletion is over.                                                       *)
DialogAfter(s, p) ==
    IF doomed \in FilesIn(p) /\ ~(s = "act" /\ act.kind = "delete") THEN doomed ELSE NoCredential

CardsShown(s) ==
    /\ cardLoad[s].at = "said"
    /\ cardLoad' = [cardLoad EXCEPT ![s] = NoLoad]
    /\ shownPool' = cardLoad[s].says
    /\ doomed' = DialogAfter(s, cardLoad[s].says)
    /\ Finalized(s, alert)
    /\ cardLog' = [cardLog EXCEPT !.failed = s = "act" /\ act.failed, !.fresh = TRUE]
    /\ UNCHANGED <<pool, usageApi, flow, begunFlows, draft>>

(* A call fails.  A usage endpoint that was removed is no failure. *)
CardsFail(s) ==
    /\ cardLoad[s].at \in {"reads", "said"} \cup (IF usageApi = "there" THEN {"usage"} ELSE {})
    /\ Trips
    /\ cardLoad' = [cardLoad EXCEPT ![s] = NoLoad]
    /\ Finalized(s, "load")
    /\ cardLog' = [cardLog EXCEPT !.faults = @ + 1, !.failed = s = "act" /\ act.failed, !.fresh = FALSE]
    /\ doomed' = DialogAfter(s, shownPool)
    /\ UNCHANGED <<pool, usageApi, flow, begunFlows, draft, shownPool>>

-----------------------------------------------------------------------------
(* Operations *)

ActBegins(kind, c, f) ==
    /\ act = NoAct /\ cardLog.acts < MaxCardActs
    /\ act' = [kind |-> kind, on |-> c, flow |-> f, at |-> "sent", failed |-> FALSE]
    /\ alert' = "none"
    /\ cardLog' = [cardLog EXCEPT !.acts = @ + 1, !.failed = FALSE]
    /\ UNCHANGED <<pool, usageApi, cardLoad, flow, begunFlows, draft, shownPool, doomed>>

(* The account that is in use cannot be made the one in use. *)
StartsLogin == flow = 0 /\ ActBegins("start", NoCredential, cardLog.acts + 1)
TestsAccount(c) == flow = 0 /\ doomed = NoCredential /\ ActBegins("test", c, 0)
ActivatesAccount(c) ==
    flow = 0 /\ doomed = NoCredential /\ shownPool[c] = "off" /\ ActBegins("activate", c, 0)
DeletesAccount == doomed # NoCredential /\ ActBegins("delete", doomed, 0)
CompletesLogin == flow # 0 /\ ActBegins("complete", NoCredential, flow)

(* What needs no call: the fields and the dialogs. *)
CardTouched ==
    /\ \/ flow # 0 /\ draft' = flow /\ UNCHANGED <<flow, doomed>>
       \/ /\ flow # 0 /\ act = NoAct
          /\ flow' = 0 /\ draft' = 0 /\ UNCHANGED doomed
       \/ /\ flow = 0 /\ act = NoAct
          /\ doomed' \in FilesIn(shownPool) \cup {NoCredential}
          /\ UNCHANGED <<flow, draft>>
    /\ UNCHANGED <<pool, usageApi, cardLoad, act, begunFlows, shownPool, alert, cardLog>>

(* An account that is gone is unknown; a callback needs a login that was   *)
(* begun, and fields that were filled.                                     *)
ActRefused ==
    \/ act.kind \in {"test", "activate", "delete"} /\ pool[act.on] = "absent"
    \/ act.kind = "complete" /\ (act.flow \notin begunFlows \/ draft # act.flow)

(* "Keeps only one enabled auth file"; "re-enables one sibling if the      *)
(* provider would become empty"; a test puts every flag back.              *)
ActServed ==
    /\ act.at = "sent" /\ ~ActRefused
    /\ act' = [act EXCEPT !.at = "served"]
    /\ CASE act.kind = "activate" ->
              pool' = [c \in Credentials |-> IF c = act.on THEN "on"
                                             ELSE IF pool[c] = "absent" THEN "absent" ELSE "off"]
         [] act.kind = "delete" ->
              LET rest == FilesIn(pool) \ {act.on}
                  first == CHOOSE c \in rest : TRUE
                  left == [pool EXCEPT ![act.on] = "absent"]
              IN pool' = IF rest # {} /\ \A c \in rest : pool[c] = "off"
                         THEN [left EXCEPT ![first] = "on"] ELSE left
         [] act.kind = "complete" -> \E c \in Credentials : pool' = [pool EXCEPT ![c] = "on"]
         [] OTHER -> UNCHANGED pool
    /\ begunFlows' = CASE act.kind = "start" -> begunFlows \cup {act.flow}
                       [] act.kind = "complete" -> begunFlows \ {act.flow}
                       [] OTHER -> begunFlows
    /\ UNCHANGED <<usageApi, cardLoad, flow, draft, shownPool, doomed, alert, cardLog>>

(* The list is loaded anew whether the operation failed or not. *)
ActReloads(failed) ==
    /\ act' = [act EXCEPT !.at = "reload", !.failed = failed]
    /\ LoadOf("act")
    /\ alert' = "none"

(* "Starting a new OAuth flow must drop stale callback fragments".         *)
ActAnswered ==
    /\ act.at = "served"
    /\ IF act.kind = "start"
       THEN /\ flow' = act.flow /\ draft' = 0
            /\ act' = NoAct /\ UNCHANGED <<cardLoad, alert, cardLog>>
       ELSE /\ ActReloads(FALSE)
            /\ IF act.kind = "complete" THEN flow' = 0 /\ draft' = 0 ELSE UNCHANGED <<flow, draft>>
            /\ cardLog' = [cardLog EXCEPT !.crossed = @ \/ CardsLoading]
    /\ UNCHANGED <<pool, usageApi, begunFlows, shownPool, doomed>>

ActFails ==
    /\ act.at \in {"sent", "served"}
    /\ IF act.kind = "start"
       THEN act' = NoAct /\ alert' = "act" /\ UNCHANGED cardLoad
       ELSE ActReloads(TRUE)
    /\ LET refused == act.at = "sent" /\ ActRefused IN
       /\ refused \/ Trips
       /\ cardLog' = [cardLog EXCEPT !.faults = IF refused THEN @ ELSE @ + 1,
                                   !.failed = act.kind = "start",
                                   !.crossed = @ \/ (act.kind # "start" /\ CardsLoading)]
    /\ UNCHANGED <<pool, usageApi, flow, begunFlows, draft, shownPool, doomed>>

CardAccountsNext ==
    \/ TabLoads
    \/ \E s \in {"tab", "act"} : FilesRead(s) \/ UsageRead(s) \/ CardsShown(s) \/ CardsFail(s)
    \/ StartsLogin \/ CompletesLogin \/ DeletesAccount \/ CardTouched
    \/ \E c \in FilesIn(shownPool) : TestsAccount(c) \/ ActivatesAccount(c)
    \/ ActServed \/ ActAnswered \/ ActFails

CardAccountsSpec == CardAccountsInit /\ [][CardAccountsNext]_cardsTab

-----------------------------------------------------------------------------
(* Properties *)

(* An operation that reloads has its load. *)
CardAccountsTypeOK ==
    /\ pool \in [Credentials -> Flags] /\ shownPool \in [Credentials -> Flags]
    /\ {flow, draft} \subseteq 0 .. MaxCardActs
    /\ alert \in {"none", "act", "load"} /\ act.at \in {"none", "sent", "served", "reload"}
    /\ act.at = "reload" <=> cardLoad["act"] # NoLoad
    /\ cardLog.acts <= MaxCardActs /\ cardLog.syncs <= MaxCardSyncs /\ cardLog.faults <= MaxCardFaults

(* "Refresh failures should not clobber the original mutation error"       *)
(* (use-cliproxy-accounts.ts:60): after an operation that failed its own   *)
(* error is shown until something else begins or ends, however the loads   *)
(* went; the deletion dialog is about an account that is listed            *)
(* (CliproxyAccountsSection.tsx:61); what is in the fields of a login was  *)
(* typed for that login (CliproxyAccountsSection.tsx:42, :81); and with    *)
(* nothing under way the list is the one of CLIProxy, unless loads         *)
(* overlapped or the last one failed.                                      *)
AccountCardsAreTrue ==
    /\ cardLog.failed /\ act = NoAct => alert = "act"
    /\ doomed = NoCredential \/ doomed \in FilesIn(shownPool)
    /\ draft \in {0, flow}
    /\ act = NoAct /\ ~CardsLoading /\ ~cardLog.crossed /\ cardLog.fresh => shownPool = pool

=============================================================================
