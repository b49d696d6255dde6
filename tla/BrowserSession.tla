---------------------------- MODULE BrowserSession ----------------------------
(***************************************************************************)
(* The signed-in window of the Mini App (use-browser-session.ts, api/      *)
(* client.ts) and the backend that issues and checks its bearer tokens     *)
(* (web-token.ts, web-token.controller.ts, app-auth.guard.ts,              *)
(* telegram-init-data.ts).  Time passes in ticks of the shortest refresh   *)
(* interval; a token is the tick it was issued at, 0 is no token.          *)
(***************************************************************************)
EXTENDS Naturals

CONSTANTS
    TokenTtl,        \* TOKEN_TTL_MS
    InitTtl,         \* MAX_INIT_DATA_AGE_SECONDS
    RefreshEvery,    \* MIN_REFRESH_INTERVAL_MS
    NearExpiry,      \* REFRESH_THRESHOLD_MS
    MaxTicks,        \* bound: ticks
    MaxTrouble       \* bound: lost requests and reloads of the page

ASSUME BrowserBounds ==
    /\ {TokenTtl, InitTtl, RefreshEvery, NearExpiry} \subseteq Nat \ {0}
    /\ {MaxTicks, MaxTrouble} \subseteq Nat

VARIABLES
    tick,      \* now, the same for the browser and the backend
    window,    \* sessionStorage, the hook's refs and state, and how the page
               \* was opened: from Telegram, with initData of tick 1, or by link
    traffic,   \* requests: with which token, their answer
    activity   \* the user's acts, failed refreshes, trouble so far

browser == <<tick, window, traffic, activity>>

Telegram == "telegram"
Link == "link"

(* A link brings its token in the address, which is moved into the         *)
(* sessionStorage; syncTokenRefs takes over when the token was issued.     *)
BrowserInit ==
    /\ tick = 1
    /\ \E opened \in {Telegram, Link} :
          window = [opened |-> opened, token |-> IF opened = Link THEN 1 ELSE 0,
                    expired |-> FALSE, refreshing |-> FALSE, booting |-> FALSE,
                    lastRefresh |-> IF opened = Link THEN 1 ELSE 0]
    /\ traffic = {}
    /\ activity = [touched |-> 0, served |-> 0, failed |-> 0, trouble |-> 0]

Trouble == activity.trouble < MaxTrouble

-----------------------------------------------------------------------------
(* The backend *)

(* verifyWebToken and verifyInitData. *)
TokenValid(token) == token # 0 /\ tick < token + TokenTtl
InitDataValid == window.opened = Telegram /\ tick - 1 <= InitTtl

(* The guard, and issueToken: a new token is as old as the answer. *)
Handled(c) ==
    /\ c.answer = "none"
    /\ traffic' = (traffic \ {c}) \cup
          {IF TokenValid(c.token) \/ (c.token = 0 /\ InitDataValid)
           THEN [c EXCEPT !.answer = "ok", !.issued = IF c.kind = "api" THEN 0 ELSE tick]
           ELSE [c EXCEPT !.answer = IF c.token # 0 THEN "tokenInvalid" ELSE "initDataInvalid"]}
    /\ UNCHANGED <<tick, window, activity>>

CallLost(c) ==
    /\ c.answer = "none" /\ Trouble
    /\ traffic' = (traffic \ {c}) \cup {[c EXCEPT !.answer = "lost"]}
    /\ activity' = [activity EXCEPT !.trouble = @ + 1]
    /\ UNCHANGED <<tick, window>>

-----------------------------------------------------------------------------
(* The window *)

ApiCall(kind, token) == [kind |-> kind, token |-> token, answer |-> "none", issued |-> 0]

(* expireSession *)
Ended(w) == [w EXCEPT !.token = 0, !.expired = TRUE]

(* maybeBootstrapFromTelegram *)
Boots(w) == ~w.expired /\ ~w.booting /\ w.token = 0 /\ w.opened = Telegram
Bootstrap(w) ==
    /\ window' = IF Boots(w) THEN [w EXCEPT !.booting = TRUE] ELSE w
    /\ traffic' = IF Boots(w) THEN traffic \cup {ApiCall("boot", 0)} ELSE traffic

(* When a refresh is worth its request. *)
Due(w) == \/ tick - w.lastRefresh >= RefreshEvery
          \/ w.token + TokenTtl - tick <= NearExpiry

(* recordActivity and maybeRefresh.  `touched` is the last activity,       *)
(* `served` the last one in a live session with no refresh under way.      *)
UserActs ==
    /\ IF window.token = 0 THEN Bootstrap(window)
       ELSE IF window.expired \/ window.refreshing THEN UNCHANGED <<window, traffic>>
       ELSE IF ~TokenValid(window.token) THEN window' = Ended(window) /\ UNCHANGED traffic
       ELSE IF ~Due(window) THEN UNCHANGED <<window, traffic>>
       ELSE /\ window' = [window EXCEPT !.refreshing = TRUE]
            /\ traffic' = traffic \cup {ApiCall("refresh", window.token)}
    /\ activity' = [activity EXCEPT
            !.touched = tick,
            !.served = IF window.expired \/ ~TokenValid(window.token)
                             \/ \E c \in traffic : c.kind = "refresh" THEN @ ELSE tick]
    /\ UNCHANGED tick

(* Any other request of the window: bearer token first, then initData.     *)
RequestSent ==
    /\ \A c \in traffic : c.kind # "api"
    /\ traffic' = traffic \cup {ApiCall("api", window.token)}
    /\ UNCHANGED <<tick, window, activity>>

(* The interval timer of the hook. *)
ExpiryNoticed ==
    /\ window.token # 0 /\ ~window.expired /\ ~TokenValid(window.token)
    /\ window' = Ended(window)
    /\ UNCHANGED <<tick, traffic, activity>>

(* storeWebToken and syncTokenRefs. *)
TokenStored(w, token) == [w EXCEPT !.token = token, !.lastRefresh = token]

(* shouldEndBrowserSession asks whether there is a token now, not whether  *)
(* it is the one that was refused.                                         *)
EndsSession(w, c) == c.answer = "tokenInvalid" /\ w.token # 0

RefusalHeard(w, c) == IF EndsSession(w, c) THEN Ended(w) ELSE w

(* Faulty variant: isRefreshing is reset only after a success. *)
RefreshReturnedUnlocked(w, c) ==
    IF c.answer = "ok" THEN TokenStored([w EXCEPT !.refreshing = FALSE], c.issued)
    ELSE LET heard == RefusalHeard(w, c)
         IN IF heard.token = 0 THEN Ended(heard) ELSE heard

(* The rest of maybeRefresh: without a token the session is over. *)
RefreshReturned(w, c) ==
    LET free == [w EXCEPT !.refreshing = FALSE]
    IN IF c.answer = "ok" THEN TokenStored(free, c.issued)
       ELSE LET heard == RefusalHeard(free, c)
            IN IF heard.token = 0 THEN Ended(heard) ELSE heard

BootReturned(w, c) ==
    LET free == [w EXCEPT !.booting = FALSE]
    IN CASE c.answer = "ok" -> TokenStored(free, c.issued)
         [] c.answer = "initDataInvalid" -> Ended(free)
         [] OTHER -> free

CallReturned(c) ==
    /\ c.answer # "none"
    /\ traffic' = traffic \ {c}
    /\ window' = CASE c.kind = "refresh" -> RefreshReturned(window, c)
                   [] c.kind = "boot" -> BootReturned(window, c)
                   [] OTHER -> RefusalHeard(window, c)
    /\ activity' = IF c.kind = "refresh" /\ c.answer # "ok"
                  THEN [activity EXCEPT !.failed = tick] ELSE activity
    /\ UNCHANGED tick

(* The page is loaded again: state and requests are gone, the stored token *)
(* stays, and from Telegram a token is asked for when there is none.       *)
PageReloads ==
    /\ Trouble
    /\ LET w == [window EXCEPT !.expired = FALSE, !.refreshing = FALSE, !.booting = FALSE,
                               !.lastRefresh = window.token]
       IN /\ window' = IF Boots(w) THEN [w EXCEPT !.booting = TRUE] ELSE w
          /\ traffic' = IF Boots(w) THEN {ApiCall("boot", 0)} ELSE {}
    /\ activity' = [activity EXCEPT
            !.trouble = @ + 1,
            !.failed = IF \E c \in traffic : c.kind = "refresh" THEN tick ELSE @]
    /\ UNCHANGED tick

TickPasses ==
    /\ tick < MaxTicks
    /\ tick' = tick + 1
    /\ UNCHANGED <<window, traffic, activity>>

BrowserNext ==
    \/ UserActs \/ RequestSent \/ ExpiryNoticed \/ PageReloads \/ TickPasses
    \/ \E c \in traffic : Handled(c) \/ CallLost(c) \/ CallReturned(c)

-----------------------------------------------------------------------------
(* Properties *)

(* Tokens and requests are what the code handles; isRefreshing is set      *)
(* exactly while a refresh is under way.                                   *)
BrowserTypeOK ==
    /\ tick \in 1 .. MaxTicks
    /\ {window.token, window.lastRefresh} \subseteq 0 .. tick
    /\ \A c \in traffic : /\ c.kind \in {"api", "refresh", "boot"}
                        /\ c.token \in 0 .. tick /\ c.issued \in 0 .. tick
    /\ window.refreshing <=> \E c \in traffic : c.kind = "refresh"
    /\ window.booting <=> \E c \in traffic : c.kind = "boot"

(* "Only auth-expiry should end the session": while the user is active, a  *)
(* session ends only when the refresh that the last activity called for is *)
(* still under way or has failed, or when a request is refused.            *)
EndsForAReason ==
    ~window.expired /\ window'.expired =>
        \/ \E c \in traffic \ traffic' : c.answer \in {"tokenInvalid", "initDataInvalid"}
        \/ /\ ~TokenValid(window.token)
           /\ \/ activity.served < window.lastRefresh + RefreshEvery
              \/ \E c \in traffic : c.kind = "refresh"
              \/ activity.failed >= activity.served

(* "Idle tabs cannot extend access on their own": a token is replaced only *)
(* after activity since it was issued.                                     *)
IdleTabsDoNotRenew ==
    window.token # 0 /\ window'.token \notin {0, window.token}
        => activity.touched >= window.token

(* A session lasts as long as its user is active and the backend answers,  *)
(* and no longer (use-browser-session.ts:120, client.ts:254).              *)
SessionFollowsActivity == [][EndsForAReason /\ IdleTabsDoNotRenew]_browser

=============================================================================
