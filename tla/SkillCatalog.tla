----------------------------- MODULE SkillCatalog -----------------------------
(***************************************************************************)
(* The skills tab of the Mini App (SkillsTab.tsx, use-opencode-skills.ts)  *)
(* over the catalog service that marks which skills are installed, and     *)
(* installs and removes them (opencode-skills.service.ts).  A search is    *)
(* two requests at once: the catalog and the list of installed skills.     *)
(***************************************************************************)
EXTENDS Naturals, SequencesExt

CONSTANTS
    Skills,        \* in the remote catalog
    Lookups,        \* bound: pairs of a query and a filter that the user chooses
    MaxSkillActs,  \* bound: acts of the user, polls and faults together
    MaxSearches,   \* bound: searches in flight
    MaxSkillFaults \* bound: failed requests

ASSUME SkillBounds ==
    /\ {MaxSkillActs, MaxSearches, MaxSkillFaults} \subseteq Nat
    /\ "none" \notin Skills

VARIABLES
    volume,     \* names of the installed skills, one directory each
    cardTab,      \* query, filter, debounce timer, what is shown, busy skill
    searches,   \* searches under way
    mutations,  \* installations and removals under way
    ledger      \* acts and faults so far; why the tab may be out of date

skillsTab == <<volume, cardTab, searches, mutations, ledger>>

Everything == ""
Queries == {Everything} \cup Skills
Filters == {"all", "installed", "available"}
ASSUME LookupsAssumption == Lookups \subseteq Queries \X Filters

NoSkill == "none"

SkillsInit ==
    /\ volume = {}
    /\ cardTab = [query |-> Everything, filter |-> "all", timer |-> TRUE, catalog |-> {},
              local |-> {}, busy |-> NoSkill]
    /\ searches = <<>> /\ mutations = {}
    /\ ledger = [acts |-> 0, faults |-> 0, stale |-> {}, crossed |-> FALSE]

MaySkill == ledger.acts + ledger.faults < MaxSkillActs
Slip == MaySkill /\ ledger.faults < MaxSkillFaults

-----------------------------------------------------------------------------
(* Searches *)

(* searchCatalog: what the remote catalog finds, marked and filtered by    *)
(* what is installed when it has answered.                                 *)
SearchCatalog(query, filter) ==
    LET found == IF query = Everything THEN Skills ELSE {query}
        kept == CASE filter = "all" -> found
                  [] filter = "installed" -> found \cap volume
                  [] filter = "available" -> found \ volume
    IN {[name |-> s, installed |-> s \in volume] : s \in kept}

(* A search alone under way for what the tab asks for makes it current.    *)
Search(query, filter, mutation) ==
    [query |-> query, filter |-> filter, mutation |-> mutation,
     catalog |-> "none", items |-> {}, installed |-> "none", names |-> {}]

Searching(r, acts) ==
    LET wanted == r.query = cardTab.query /\ r.filter = cardTab.filter
    IN /\ Len(searches) < MaxSearches
       /\ searches' = Append(searches, r)
       /\ ledger' = [ledger EXCEPT
              !.acts = @ + acts,
              !.stale = (IF searches = <<>> THEN {} ELSE @)
                            \cup (IF wanted THEN {} ELSE {"other query"})]

CatalogRead(n) ==
    /\ searches[n].catalog = "none"
    /\ searches' = [searches EXCEPT ![n].catalog = "ok",
            ![n].items = SearchCatalog(searches[n].query, searches[n].filter)]
    /\ UNCHANGED <<volume, cardTab, mutations, ledger>>

InstalledRead(n) ==
    /\ searches[n].installed = "none"
    /\ searches' = [searches EXCEPT ![n].installed = "ok", ![n].names = volume]
    /\ UNCHANGED <<volume, cardTab, mutations, ledger>>

(* Something shown while an older search still has to show the same.       *)
Overtaking(older) == ledger' = [ledger EXCEPT !.stale = @ \cup IF older THEN {"overtaken"} ELSE {}]

(* setInstalledSkills as soon as that request is answered.                 *)
InstalledShown(n) ==
    /\ searches[n].installed = "ok"
    /\ searches' = [searches EXCEPT ![n].installed = "shown", ![n].names = {}]
    /\ cardTab' = [cardTab EXCEPT !.local = searches[n].names]
    /\ Overtaking(\E j \in 1 .. n - 1 : searches[j].installed # "shown")
    /\ UNCHANGED <<volume, mutations>>

(* endMutation forgets the busy skill, whichever it is. *)
MutationOver(m, t) == IF m = NoSkill THEN t ELSE [t EXCEPT !.busy = NoSkill]

(* The remote catalog times out, or an answer is lost: the search is over, *)
(* only its other request is still answered.  The search keeps its errors, *)
(* so a mutation that waited for it is called a success.                   *)
SearchFails(n) ==
    /\ searches[n].catalog = "none" /\ Slip
    /\ searches' = [searches EXCEPT ![n].catalog = "error", ![n].mutation = NoSkill]
    /\ cardTab' = MutationOver(searches[n].mutation, cardTab)
    /\ ledger' = [ledger EXCEPT !.faults = @ + 1, !.stale = @ \cup {"failed"}]
    /\ UNCHANGED <<volume, mutations>>

SearchEnds(n) ==
    LET r == searches[n]
    IN /\ r.catalog # "none" /\ r.installed = "shown"
       /\ searches' = RemoveAt(searches, n)
       /\ cardTab' = MutationOver(r.mutation,
              IF r.catalog = "ok" THEN [cardTab EXCEPT !.catalog = r.items] ELSE cardTab)
       /\ Overtaking(n > 1)
       /\ UNCHANGED <<volume, mutations>>

-----------------------------------------------------------------------------
(* The tab *)

QueryChosen(query, filter) ==
    /\ MaySkill /\ <<query, filter>> # <<cardTab.query, cardTab.filter>>
    /\ cardTab' = [cardTab EXCEPT !.query = query, !.filter = filter, !.timer = TRUE]
    /\ ledger' = [ledger EXCEPT !.acts = @ + 1]
    /\ UNCHANGED <<volume, searches, mutations>>

(* The debounce timer, SEARCH_DEBOUNCE_MS after the last change.           *)
DebounceFires ==
    /\ cardTab.timer
    /\ cardTab' = [cardTab EXCEPT !.timer = FALSE]
    /\ Searching(Search(cardTab.query, cardTab.filter, NoSkill), 0)
    /\ UNCHANGED <<volume, mutations>>

(* refreshActiveTab on this tab searches for everything, whatever the user *)
(* has typed: search("", "all").                                           *)
PollFires ==
    /\ MaySkill
    /\ Searching(Search(Everything, "all", NoSkill), 1)
    /\ UNCHANGED <<volume, cardTab, mutations>>

(* The cards: with the filter "installed" they are the local list.         *)
CardsOf(t) == IF t.filter = "installed" THEN {[name |-> s, installed |-> TRUE] : s \in t.local}
             ELSE t.catalog

MutationClicked(card) ==
    /\ MaySkill /\ card.name # cardTab.busy
    /\ mutations' = mutations \cup
          {[id |-> ledger.acts, name |-> card.name, remove |-> card.installed, 
            query |-> cardTab.query, filter |-> cardTab.filter, answer |-> "none"]}
    /\ cardTab' = [cardTab EXCEPT !.busy = card.name]
    /\ ledger' = [ledger EXCEPT !.acts = @ + 1,
            !.crossed = \/ @
                        \/ \E m \in mutations : m.name # card.name
                        \/ \E n \in DOMAIN searches : searches[n].mutation \notin {NoSkill, card.name}]
    /\ UNCHANGED <<volume, searches>>

(* installSkill, once the readme has come, and uninstallSkill.             *)
MutationServed(m) ==
    /\ m.answer = "none"
    /\ volume' = IF m.remove THEN volume \ {m.name} ELSE volume \cup {m.name}
    /\ mutations' = (mutations \ {m}) \cup {[m EXCEPT !.answer = "ok"]}
    /\ UNCHANGED <<cardTab, searches, ledger>>

(* The readme does not come, or the answer to a change already made.       *)
MutationFails(m) ==
    /\ Slip /\ m.answer # "error"
    /\ mutations' = (mutations \ {m}) \cup {[m EXCEPT !.answer = "error"]}
    /\ ledger' = [ledger EXCEPT !.faults = @ + 1, !.stale = @ \cup {"failed"}]
    /\ UNCHANGED <<volume, cardTab, searches>>

(* Faulty variant: the tab is not searched again. *)
MutationEndsAtOnce(m) ==
    /\ m.answer = "ok"
    /\ mutations' = mutations \ {m}
    /\ cardTab' = MutationOver(m.name, cardTab)
    /\ UNCHANGED <<volume, searches, ledger>>

(* The search after a change is for what the tab asked for at the click.   *)
MutationAnswered(m) ==
    /\ m.answer = "ok"
    /\ mutations' = mutations \ {m}
    /\ Searching(Search(m.query, m.filter, m.name), 0)
    /\ UNCHANGED <<volume, cardTab>>

MutationRefused(m) ==
    /\ m.answer = "error"
    /\ mutations' = mutations \ {m}
    /\ cardTab' = MutationOver(m.name, cardTab)
    /\ UNCHANGED <<volume, searches, ledger>>

SkillsNext ==
    \/ \E w \in Lookups : QueryChosen(w[1], w[2])
    \/ DebounceFires \/ PollFires
    \/ \E card \in CardsOf(cardTab) : MutationClicked(card)
    \/ \E n \in DOMAIN searches : CatalogRead(n) \/ InstalledRead(n) \/ SearchFails(n)
                                    \/ InstalledShown(n) \/ SearchEnds(n)
    \/ \E m \in mutations : MutationServed(m) \/ MutationFails(m)
                              \/ MutationAnswered(m) \/ MutationRefused(m)

-----------------------------------------------------------------------------
(* Properties *)

(* Names and filters are what the code handles.                            *)
SkillsTypeOK ==
    /\ volume \subseteq Skills /\ cardTab.local \subseteq Skills
    /\ {c.name : c \in cardTab.catalog} \subseteq Skills
    /\ cardTab.busy \in Skills \cup {NoSkill}
    /\ <<cardTab.query, cardTab.filter>> \in Queries \X Filters

(* A tab with nothing to wait for shows what its query and filter find and *)
(* which of it is installed, unless a search was for another query, failed *)
(* or was overtaken (use-opencode-skills.ts:65, App.tsx:285).              *)
QuietCatalogIsCurrent ==
    ~cardTab.timer /\ searches = <<>> /\ mutations = {} /\ ledger.stale = {} =>
        /\ cardTab.local = volume
        /\ cardTab.catalog = SearchCatalog(cardTab.query, cardTab.filter)

(* A skill is not installed and removed at once, unless changes of two     *)
(* skills have crossed: there is one busy skill (use-opencode-skills.ts:37).*)
OneChangePerSkill ==
    ledger.crossed \/ \A m, n \in mutations : m.name = n.name => m = n

=============================================================================
