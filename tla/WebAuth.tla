--------------------------------- MODULE WebAuth ---------------------------------
(***************************************************************************)
(* One-time links and browser sessions of the bot's OpenCode access        *)
(* (opencode-web-auth.ts, opencode-web-auth-http.ts).  Every operation     *)
(* notes the hour when it is called, waits for the operations before it,   *)
(* reads the file, prunes and changes what it read, and renames a new file *)
(* over the old one.  Hashes, cookies' attributes and redirect paths are   *)
(* left out; a fingerprint is the device it was taken from.                *)
(***************************************************************************)
EXTENDS Integers, Sequences, SequencesExt, FiniteSets

CONSTANTS
    AuthRequests,      \* requests under way at once
    Devices,       \* browsers, told apart by their fingerprint
    LinkTtl, SessionTtl, Grace,   \* linkTtlMs, sessionTtlMs, ACTIVE_SESSION_GRACE_MS
    MaxHours,      \* bound: the clock
    MaxLinks, MaxExchanges,       \* bounds: links ever issued, exchanges ever asked for
    MaxAuthFaults  \* bound: failing writes and bot crashes

ASSUME AuthTimes == {LinkTtl, SessionTtl, Grace} \subseteq Nat \ {0}
ASSUME AuthBounds == {MaxHours, MaxLinks, MaxExchanges, MaxAuthFaults} \subseteq Nat

VARIABLES
    hour,       \* the clock
    authFile,   \* opencode-web-auth.json
    line,       \* operationQueue: the requests that have not settled
    request,    \* per request slot: the operation under way
    sent,       \* links shown in Telegram
    cookies,    \* sessions handed to a browser, with the last check answered
    count       \* links issued, exchanges asked for, faults

auth == <<hour, authFile, line, request, sent, cookies, count>>

Refusal == [ok |-> FALSE]
NoRequest == [kind |-> "none", at |-> "idle", now |-> 0, id |-> 0, link |-> 0, device |-> "none",
              draft |-> [links |-> {}, sessions |-> {}], result |-> Refusal]

AuthInit ==
    /\ hour = 0 /\ sent = {} /\ cookies = {} /\ line = <<>>
    /\ authFile = [links |-> {}, sessions |-> {}]
    /\ request = [r \in AuthRequests |-> NoRequest]
    /\ count = [links |-> 0, exchanges |-> 0, faults |-> 0]

-----------------------------------------------------------------------------
(* What an operation does to the state it has read *)

(* isSessionAlive *)
Alive(s, t) == t < s.expiresAt \/ t - s.lastSeenAt <= Grace

(* pruneExpiredState *)
Fresh(f, t) ==
    [links |-> {l \in f.links : t < l.expiresAt /\ ~l.used},
     sessions |-> {s \in f.sessions : Alive(s, t)}]

Issued(f, q) ==
    [f EXCEPT !.links = @ \cup {[id |-> q.id, expiresAt |-> q.now + LinkTtl, used |-> FALSE]}]

(* A link that is still there after pruning *)
Opens(f, q) == \E l \in f.links : l.id = q.link

Session(q) ==
    [id |-> q.id, link |-> q.link, device |-> q.device,
     expiresAt |-> q.now + SessionTtl, lastSeenAt |-> q.now]

Exchanged(f, q) ==
    [links |-> {[l EXCEPT !.used = @ \/ l.id = q.link] : l \in f.links},
     sessions |-> f.sessions \cup {Session(q)}]

Matching(f, q) == {s \in f.sessions : s.id = q.id /\ s.device = q.device}

Verified(f, q) ==
    [f EXCEPT !.sessions = (@ \ Matching(f, q)) \cup {[s EXCEPT !.lastSeenAt = q.now] : s \in Matching(f, q)}]

-----------------------------------------------------------------------------
(* The promise queue of withLockedState *)

(* Faulty variant: an operation does not wait for those before it. *)
InLine(r) == r \in ToSet(line)

(* The operations before r have settled. *)
IsNext(r) == line # <<>> /\ Head(line) = r

LinesUp(r, q) ==
    /\ request[r] = NoRequest
    /\ line' = Append(line, r)
    /\ request' = [request EXCEPT ![r] = [q EXCEPT !.at = "queued", !.now = hour]]

(* Faulty variant: an operation that has settled still holds the queue. *)
LeavesNothing(r) ==
    /\ request' = [request EXCEPT ![r] = NoRequest]
    /\ UNCHANGED line

(* Only the operation at the head has settled. *)
Leaves(r) ==
    /\ line' = Tail(line)
    /\ request' = [request EXCEPT ![r] = NoRequest]

(* The command /access *)
IssueMagicLink(r) ==
    /\ count.links < MaxLinks
    /\ LinesUp(r, [NoRequest EXCEPT !.kind = "issue", !.id = count.links + 1])
    /\ count' = [count EXCEPT !.links = @ + 1]
    /\ UNCHANGED <<hour, authFile, sent, cookies>>

(* A browser follows a link, perhaps again, perhaps late. *)
ExchangeMagicLink(r, l, d) ==
    /\ count.exchanges < MaxExchanges /\ l \in sent
    /\ LinesUp(r, [NoRequest EXCEPT !.kind = "exchange", !.id = count.exchanges + 1, !.link = l, !.device = d])
    /\ count' = [count EXCEPT !.exchanges = @ + 1]
    /\ UNCHANGED <<hour, authFile, sent, cookies>>

(* Traefik checks a request of a browser before OpenCode sees it. *)
VerifySession(r, c, d) ==
    /\ c \in cookies
    /\ LinesUp(r, [NoRequest EXCEPT !.kind = "verify", !.id = c.id, !.device = d])
    /\ UNCHANGED <<hour, authFile, sent, cookies, count>>

(* readState and the operation: nothing yields between them.  An operation *)
(* that throws writes nothing.                                             *)
Operate(r) ==
    LET q == request[r]
        f == Fresh(authFile, q.now)
        Writes(g, ok) == request' = [request EXCEPT ![r].at = "writing", ![r].draft = g, ![r].result = [ok |-> ok]]
    IN  /\ q.at = "queued" /\ IsNext(r)
        /\ \/ q.kind = "issue" /\ Writes(Issued(f, q), TRUE)
           \/ q.kind = "exchange" /\ Opens(f, q) /\ Writes(Exchanged(f, q), TRUE)
           \/ /\ q.kind = "exchange" /\ ~Opens(f, q)
              /\ request' = [request EXCEPT ![r].at = "settled", ![r].result = Refusal]
           \/ q.kind = "verify" /\ Writes(Verified(f, q), Matching(f, q) # {})
        /\ UNCHANGED <<hour, authFile, line, sent, cookies, count>>

(* The temporary file takes the file's name. *)
WriteState(r) ==
    /\ request[r].at = "writing"
    /\ authFile' = request[r].draft
    /\ request' = [request EXCEPT ![r].at = "settled"]
    /\ UNCHANGED <<hour, line, sent, cookies, count>>

(* The disk is full before the rename, or chmod fails behind it. *)
WriteFails(r) ==
    /\ request[r].at = "writing" /\ count.faults < MaxAuthFaults
    /\ authFile' \in {authFile, request[r].draft}
    /\ request' = [request EXCEPT ![r].at = "settled", ![r].result = Refusal]
    /\ count' = [count EXCEPT !.faults = @ + 1]
    /\ UNCHANGED <<hour, line, sent, cookies>>

(* The answer: a link in Telegram, a cookie, or leave to pass. *)
Answer(r) ==
    LET q == request[r]
        given == q.result.ok
    IN  /\ q.at = "settled"
        /\ Leaves(r)
        /\ sent' = IF given /\ q.kind = "issue" THEN sent \cup {q.id} ELSE sent
        /\ cookies' =
             CASE given /\ q.kind = "exchange" -> cookies \cup {Session(q)}
               [] given /\ q.kind = "verify" ->
                    {IF c.id = q.id THEN [c EXCEPT !.lastSeenAt = q.now] ELSE c : c \in cookies}
               [] OTHER -> cookies
        /\ UNCHANGED <<hour, authFile, count>>

HourPasses ==
    /\ hour < MaxHours /\ hour' = hour + 1
    /\ UNCHANGED <<authFile, line, request, sent, cookies, count>>

(* The bot restarts: requests under way get no answer, and a temporary     *)
(* file is never read.                                                     *)
BotRestarts ==
    /\ count.faults < MaxAuthFaults /\ line # <<>>
    /\ count' = [count EXCEPT !.faults = @ + 1]
    /\ line' = <<>> /\ request' = [r \in AuthRequests |-> NoRequest]
    /\ UNCHANGED <<hour, authFile, sent, cookies>>

AuthNext ==
    \/ HourPasses \/ BotRestarts
    \/ \E r \in AuthRequests :
         \/ IssueMagicLink(r) \/ Operate(r) \/ WriteState(r) \/ WriteFails(r) \/ Answer(r)
         \/ \E d \in Devices : \/ \E l \in 1..MaxLinks : ExchangeMagicLink(r, l, d)
                               \/ \E c \in cookies : VerifySession(r, c, d)

-----------------------------------------------------------------------------

Links == [id : 1..MaxLinks, expiresAt : Nat, used : BOOLEAN]
WebSessions == [id : 1..MaxExchanges, link : 1..MaxLinks, device : Devices, expiresAt : Nat, lastSeenAt : 0..MaxHours]

AuthTypeOK ==
    /\ hour \in 0..MaxHours /\ sent \subseteq 1..MaxLinks /\ cookies \subseteq WebSessions
    /\ authFile.links \subseteq Links /\ authFile.sessions \subseteq WebSessions
    /\ ToSet(line) \subseteq AuthRequests /\ IsInjective(line)
    /\ \A r \in AuthRequests : (request[r].at = "idle") = (r \notin ToSet(line))

(* A link signs in one browser: exchanges that run side by side, a failing *)
(* write or a restart never hand out a second session for it.              *)
LinkOpensOnce == \A c, e \in cookies : c.link = e.link => c.id = e.id

(* A browser that has its cookie stays signed in until its session is over *)
(* and it has been quiet for longer than the grace: no other request's     *)
(* write takes the session, or its last check, out of the file.            *)
StaysSignedIn ==
    \A c \in cookies :
        Alive(c, hour) => \E s \in authFile.sessions : s.id = c.id /\ s.lastSeenAt >= c.lastSeenAt

SignInIsKept == LinkOpensOnce /\ StaysSignedIn

=============================================================================
