------------------------------ MODULE ModePreferences ------------------------------
(***************************************************************************)
(* The /mode menu of the bot (mode-control.ts) and the preferences behind  *)
(* it (telegram-preferences.service.ts, .store.ts).  Buttons carry a page  *)
(* and an index, never a name: the handler looks the name up again, in     *)
(* lists that OpenCode, the administrator and a backend restart change.    *)
(* Handlers overlap, with one another and with the voice settings of the   *)
(* Mini App, which are kept in the same record.                            *)
(***************************************************************************)
EXTENDS Naturals, Sequences, SequencesExt

CONSTANTS
    Admins,
    Offers,       \* what OpenCode may offer: providers, models, agents, default
    DeepModels,   \* the models with a thinking variant
    PageSize,     \* PAGE_SIZE
    Handlers,     \* bound: handlers and requests under way at a time
    MaxModePresses,   \* bound: commands, presses and saves of voice settings
    MaxModeTurns      \* bound: changes at OpenCode and backend restarts

ASSUME ModeBounds == PageSize \in Nat \ {0} /\ MaxModePresses \in Nat /\ MaxModeTurns \in Nat

NoModel == <<"none", "none">>
NoOffer == [providers |-> <<>>, models |-> <<>>, agents |-> <<>>, default |-> NoModel]
NoPrefs == [model |-> NoModel, thinking |-> "default", agent |-> "default", voice |-> "off"]
NoMenu == [screen |-> "none", provider |-> "none", page |-> 0, list |-> <<>>]
NoHandler == [at |-> "free", admin |-> "none", act |-> "none", menu |-> NoMenu, index |-> 0,
              found |-> "none", stale |-> FALSE, prev |-> NoPrefs, next |-> NoPrefs,
              taken |-> {}]

VARIABLES
    offer,      \* what OpenCode offers
    cache,      \* cachedProvidersResponse, cachedDefaultModel
    prefs,      \* telegram.preferences.json
    menus,      \* per admin: the menu message as it reads
    handlers,
    counts       \* presses, turns

modes == <<offer, cache, prefs, menus, handlers, counts>>

ModeInit ==
    /\ offer \in Offers /\ counts = [presses |-> 0, turns |-> 0]
    /\ cache = [offer |-> NoOffer, default |-> NoModel]
    /\ prefs = [a \in Admins |-> NoPrefs]
    /\ menus = [a \in Admins |-> NoMenu]
    /\ handlers = [h \in Handlers |-> NoHandler]

-----------------------------------------------------------------------------
(* What the backend knows.  Providers and models are asked for once per    *)
(* life of the process, agents every time.                                 *)

Known == IF cache.offer = NoOffer THEN offer ELSE cache.offer

DefaultModel == IF cache.default # NoModel THEN cache.default ELSE offer.default

SelectedModel(p) == IF p.model = NoModel THEN DefaultModel ELSE p.model

AskedProviders(p) == cache' = [offer |-> Known, default |-> IF p.model = NoModel THEN DefaultModel ELSE cache.default]

ModelsOf(p) == IF p \in DOMAIN Known.models THEN Known.models[p] ELSE <<>>

HasModel(m) == m[2] \in ToSet(ModelsOf(m[1]))

(* resolveThinking and resolveAgent *)
ThinkingFor(t, m) == IF m[2] \in DeepModels THEN t ELSE "default"
AgentFor(a) == IF a \in ToSet(offer.agents) THEN a ELSE "default"

-----------------------------------------------------------------------------
(* The menu *)

Item(list, page, i) == LET n == page * PageSize + i IN IF n \in DOMAIN list THEN list[n] ELSE "none"

Selectable == SelectSeq(offer.agents, LAMBDA a : a # "build")

(* Faulty variant: the index is looked up in all agents. *)
AgentAtAll(page, i) == Item(offer.agents, page, i)

AgentAt(page, i) == Item(Selectable, page, i)

Replaces(h, changes) == handlers' = [handlers EXCEPT ![h] = changes]

Frees(h) == Replaces(h, NoHandler)

(* What the buttons of a menu ask for, with the index they carry. *)
Buttons(menu) ==
    CASE menu.screen = "main" -> {"providers", "thinking", "agents"} \X {0}
      [] menu.screen = "thinking" -> {<<"main", 0>>} \cup {"thinkingSet"} \X (0..Len(menu.list))
      [] menu.screen = "none" -> {}
      [] OTHER ->
           {<<IF menu.screen = "models" THEN "providers" ELSE "main", 0>>}
           \cup {<<CASE menu.screen = "providers" -> "provider" [] menu.screen = "models" -> "model"
                     [] OTHER -> "agentSet", i>> :
                    i \in {k \in 1..PageSize : Item(menu.list, menu.page, k) # "none"}}
           \cup (IF menu.screen = "agents" THEN {<<"agentSet", 0>>} ELSE {})
           \cup (IF menu.page > 0 THEN {<<"back", 0>>} ELSE {})
           \cup (IF (menu.page + 1) * PageSize < Len(menu.list) THEN {<<"forward", 0>>} ELSE {})

Starts(h, handler) ==
    /\ handlers[h].at = "free" /\ Replaces(h, handler)
    /\ counts.presses < MaxModePresses /\ counts' = [counts EXCEPT !.presses = @ + 1]
    /\ UNCHANGED <<offer, cache, prefs, menus>>

ButtonPressed(a, h) ==
    \E b \in Buttons(menus[a]) :
        Starts(h, [NoHandler EXCEPT !.at = "asks", !.admin = a, !.act = b[1],
                                    !.menu = menus[a], !.index = b[2]])

(* /mode and its keyboard button *)
Commanded(a, h) == Starts(h, [NoHandler EXCEPT !.at = "asks", !.admin = a, !.act = "main"])

(* GET settings answers: the selected model is one OpenCode has. *)
SettingsRead(h) ==
    LET p == prefs[handlers[h].admin] IN HasModel(SelectedModel(p)) /\ AskedProviders(p)

(* The handler edits the message. *)
Shows(h, menu) ==
    /\ menus' = [menus EXCEPT ![handlers[h].admin] = menu]
    /\ Frees(h)
    /\ UNCHANGED <<offer, prefs, counts>>

ShowMain(h) ==
    /\ handlers[h].at = "asks" /\ handlers[h].act = "main"
    /\ SettingsRead(h)
    /\ Shows(h, [NoMenu EXCEPT !.screen = "main"])

Page(k) == CASE k.act = "back" -> k.menu.page - 1 [] k.act = "forward" -> k.menu.page + 1 [] OTHER -> 0

ShowList(h) ==
    LET k == handlers[h]
        screen == IF k.act \in {"back", "forward"} THEN k.menu.screen ELSE k.act
    IN /\ k.at = "asks" /\ screen \in {"providers", "agents"}
       /\ SettingsRead(h)
       /\ Shows(h, [NoMenu EXCEPT !.screen = screen, !.page = Page(k),
                                  !.list = IF screen = "agents" THEN Selectable ELSE Known.providers])

ShowThinking(h) ==
    LET a == handlers[h].admin
    IN /\ handlers[h].at = "asks" /\ handlers[h].act = "thinking"
       /\ SettingsRead(h)
       /\ Shows(h, [NoMenu EXCEPT !.screen = "thinking",
                                  !.list = IF SelectedModel(prefs[a])[2] \in DeepModels THEN <<"high">> ELSE <<>>])

(* The models of the provider just found, or another page of them. *)
ShowModels(h) ==
    LET k == handlers[h]
        p == IF k.act = "provider" THEN k.found ELSE k.menu.provider
    IN /\ \/ k.at = "found" /\ k.act = "provider"
          \/ k.at = "asks" /\ k.act \in {"back", "forward"} /\ k.menu.screen = "models"
       /\ p \in DOMAIN Known.models
       /\ cache' = [cache EXCEPT !.offer = Known]
       /\ Shows(h, [screen |-> "models", provider |-> p, page |-> Page(k), list |-> ModelsOf(p)])

-----------------------------------------------------------------------------
(* A choice is looked up by page and index. *)

Found(h, item, list) ==
    /\ IF item = "none" THEN Frees(h)
       ELSE Replaces(h, [handlers[h] EXCEPT !.at = "found", !.found = item,
                                            !.stale = list # handlers[h].menu.list])
    /\ UNCHANGED <<offer, prefs, menus, counts>>

FindProvider(h) ==
    LET k == handlers[h]
    IN /\ k.at = "asks" /\ k.act = "provider"
       /\ SettingsRead(h)
       /\ Found(h, Item(Known.providers, k.menu.page, k.index), Known.providers)

FindModel(h) ==
    LET k == handlers[h]
    IN /\ k.at = "asks" /\ k.act = "model"
       /\ k.menu.provider \in DOMAIN Known.models
       /\ cache' = [cache EXCEPT !.offer = Known]
       /\ Found(h, Item(ModelsOf(k.menu.provider), k.menu.page, k.index), ModelsOf(k.menu.provider))

FindAgent(h) ==
    LET k == handlers[h]
    IN /\ k.at = "asks" /\ k.act = "agentSet" /\ k.index # 0
       /\ SettingsRead(h)
       /\ Found(h, AgentAt(k.menu.page, k.index), Selectable)

(* The button of the default agent and those of thinking carry the choice. *)
FindFixed(h) ==
    LET k == handlers[h]
        item == IF k.act = "thinkingSet" /\ k.index = 1 THEN "high" ELSE "default"
    IN /\ k.at = "asks"
       /\ (k.act = "thinkingSet" \/ (k.act = "agentSet" /\ k.index = 0))
       /\ UNCHANGED cache
       /\ Found(h, item, k.menu.list)

(* A fetch of the bot fails, or the backend answers that the selected or   *)
(* the asked for model is unknown.                                         *)
HandlerFails(h) ==
    /\ handlers[h].at \in {"asks", "found"}
    /\ Frees(h)
    /\ UNCHANGED <<offer, cache, prefs, menus, counts>>

-----------------------------------------------------------------------------
(* updateSettings *)

NextPrefs(k, p) ==
    LET m == IF k.act = "model" THEN <<k.menu.provider, k.found>> ELSE SelectedModel(p)
    IN [p EXCEPT !.model = m,
                 !.thinking = IF k.act = "thinkingSet" THEN k.found ELSE ThinkingFor(@, m),
                 !.agent = IF k.act = "agentSet" THEN k.found ELSE AgentFor(@)]

(* Validated against the lists; the record is read here. *)
UpdateSettings(h) ==
    LET k == handlers[h]
        p == prefs[k.admin]
        n == NextPrefs(k, p)
    IN /\ k.at = "found" /\ k.act \in {"model", "thinkingSet", "agentSet"}
       /\ HasModel(n.model)
       /\ ThinkingFor(n.thinking, n.model) = n.thinking
       /\ AgentFor(n.agent) = n.agent
       /\ cache' = [offer |-> Known,
                    default |-> IF p.model = NoModel /\ k.act # "model" THEN DefaultModel ELSE cache.default]
       /\ Replaces(h, [k EXCEPT !.at = "validated", !.prev = p, !.next = n])
       /\ UNCHANGED <<offer, prefs, menus, counts>>

(* PATCH /config at OpenCode *)
UpdateDefaultExecutionMode(h) ==
    LET k == handlers[h]
    IN /\ k.at = "validated"
       /\ Replaces(h, [k EXCEPT !.at = "adopted", !.taken = {[model |-> k.next.model, agent |-> k.next.agent]}])
       /\ UNCHANGED <<offer, cache, prefs, menus, counts>>

(* The PATCH fails, or its answer is lost. *)
AdoptionFails(h) ==
    /\ handlers[h].at \in {"validated", "adopted"}
    /\ Frees(h)
    /\ UNCHANGED <<offer, cache, prefs, menus, counts>>

(* The answer: the defaults are mirrored, the preferences stored, and the  *)
(* handler goes on to showMain.                                            *)
Stored(h) ==
    LET k == handlers[h]
    IN /\ k.at = "adopted"
       /\ cache' = [cache EXCEPT !.default = k.next.model]
       /\ prefs' = [prefs EXCEPT ![k.admin] = k.next]
       /\ Replaces(h, [NoHandler EXCEPT !.at = "asks", !.admin = k.admin, !.act = "main"])
       /\ UNCHANGED <<offer, menus, counts>>

-----------------------------------------------------------------------------
(* updateVoiceControlSettings, from the Mini App *)

UpdateVoiceControlSettings(a, h) ==
    Starts(h, [NoHandler EXCEPT !.at = "checks", !.admin = a, !.act = "voice",
                                !.prev = prefs[a], !.next = [prefs[a] EXCEPT !.voice = "on"]])

(* Groq knows the key, or not. *)
VoiceStored(h) ==
    /\ handlers[h].at = "checks"
    /\ prefs' = [prefs EXCEPT ![handlers[h].admin] = handlers[h].next]
    /\ Frees(h)
    /\ UNCHANGED <<offer, cache, menus, counts>>

KeyRejected(h) ==
    /\ handlers[h].at = "checks"
    /\ Frees(h)
    /\ UNCHANGED <<offer, cache, prefs, menus, counts>>

-----------------------------------------------------------------------------
OpenCodeChanges ==
    /\ offer' \in Offers \ {offer}
    /\ counts.turns < MaxModeTurns /\ counts' = [counts EXCEPT !.turns = @ + 1]
    /\ UNCHANGED <<cache, prefs, menus, handlers>>

(* Requests in the backend are lost with it, those of the bot may fail. *)
PreferencesRestart ==
    /\ counts.turns < MaxModeTurns /\ counts' = [counts EXCEPT !.turns = @ + 1]
    /\ cache' = [offer |-> NoOffer, default |-> NoModel]
    /\ handlers' = [h \in Handlers |->
           IF handlers[h].at \in {"validated", "adopted", "checks"} THEN NoHandler ELSE handlers[h]]
    /\ UNCHANGED <<offer, prefs, menus>>

ModeNext ==
    \/ \E h \in Handlers :
           \/ \E a \in Admins : ButtonPressed(a, h) \/ Commanded(a, h) \/ UpdateVoiceControlSettings(a, h)
           \/ ShowMain(h) \/ ShowList(h) \/ ShowThinking(h) \/ ShowModels(h)
           \/ FindProvider(h) \/ FindModel(h) \/ FindAgent(h) \/ FindFixed(h) \/ HandlerFails(h)
           \/ UpdateSettings(h) \/ UpdateDefaultExecutionMode(h) \/ AdoptionFails(h) \/ Stored(h)
           \/ VoiceStored(h) \/ KeyRejected(h)
    \/ OpenCodeChanges \/ PreferencesRestart

ModeSpec == ModeInit /\ [][ModeNext]_modes

-----------------------------------------------------------------------------
(* Properties *)

(* What is stored is a mode whose thinking variant the model has; a        *)
(* message shows a page that its list reaches.                             *)
ModeTypeOK ==
    /\ counts.presses <= MaxModePresses /\ counts.turns <= MaxModeTurns
    /\ offer \in Offers /\ cache.offer \in Offers \cup {NoOffer}
    /\ \A a \in Admins :
          /\ prefs[a].model = NoModel => prefs[a].thinking = "default"
          /\ ThinkingFor(prefs[a].thinking, prefs[a].model) = prefs[a].thinking
          /\ menus[a].page = 0 \/ menus[a].page * PageSize < Len(menus[a].list) + PageSize
    /\ \A h \in Handlers : handlers[h].at # "free" => handlers[h].admin \in Admins

(* The name on the button that was pressed *)
Label(k) ==
    IF k.index = 0 THEN "default" ELSE Item(k.menu.list, k.menu.page, k.index)

(* A mode is stored for an administrator only when one of their buttons    *)
(* named it: the model, agent or thinking that the button showed, unless   *)
(* the list has changed since it was shown, and beside it only what the    *)
(* handler had read; and never a mode "that the browser surface failed to  *)
(* adopt" (telegram-preferences.service.ts:202, mode-control.ts:303,:390). *)
StoresWhatWasChosen ==
    [][\A a \in Admins : prefs'[a] # prefs[a] =>
         \E h \in Handlers :
            LET k == handlers[h]
                n == prefs'[a]
            IN /\ k.admin = a
               /\ k.act = "voice" => [n EXCEPT !.voice = k.prev.voice] = k.prev
               /\ k.act # "voice" =>
                     /\ [model |-> n.model, agent |-> n.agent] \in k.taken
                     /\ n.voice = k.prev.voice
                     /\ k.stale \/
                          CASE k.act = "model" -> n.model = <<k.menu.provider, Label(k)>>
                            [] k.act = "agentSet" -> n.agent = Label(k) /\ n.thinking \in {k.prev.thinking, "default"}
                            [] OTHER -> n.thinking = Label(k) /\ n.agent \in {k.prev.agent, "default"}
      ]_prefs

=============================================================================
