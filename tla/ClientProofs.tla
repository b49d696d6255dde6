---------------------------- MODULE ClientProofs ----------------------------
(***************************************************************************)
(* What clients of the backend keep, proved for every value of the         *)
(* constants: web sign-ins, messages to the bot, the /mode menu, drafts of *)
(* tasks, the sessions of the browser, the dialog that edits a task, the   *)
(* settings editor, the dashboard of services, the terminal tab and the    *)
(* cards of projects.                                                      *)
(***************************************************************************)
EXTENDS WebAuth, BotPrompts, TaskForms, ModePreferences, BrowserSession,
        SettingsEditor, RuntimeServices, LiveTerminal, ProjectCards,
        SequenceTheorems, NaturalsInduction, WellFoundedInduction, TLAPS

-----------------------------------------------------------------------------
(* Web sign-ins *)

AuthSpec == AuthInit /\ [][AuthNext]_auth

AuthFiles == [links : SUBSET Links, sessions : SUBSET WebSessions]

RequestStates ==
    [kind : {"none", "issue", "exchange", "verify"}, at : {"idle", "queued", "writing", "settled"},
     now : Nat, id : Nat, link : Nat, device : Devices \cup {"none"},
     draft : AuthFiles, result : [ok : BOOLEAN]]

(* What each request may ask for *)
WellAsked(q) ==
    /\ q.kind = "none" => q = NoRequest
    /\ q.at = "idle" => q = NoRequest
    /\ q.now <= hour
    /\ q.kind = "issue" => q.id \in 1..count.links /\ q.id \notin sent
    /\ q.kind = "exchange" =>
         /\ q.id \in 1..count.exchanges /\ q.link \in sent /\ q.device \in Devices
         /\ \A c \in cookies : c.id # q.id
    /\ q.kind = "verify" => q.device \in Devices /\ \E c \in cookies : c.id = q.id

TypesInv ==
    /\ hour \in 0..MaxHours /\ sent \subseteq 1..count.links /\ cookies \subseteq WebSessions
    /\ authFile \in AuthFiles
    /\ count \in [links : 0..MaxLinks, exchanges : 0..MaxExchanges, faults : 0..MaxAuthFaults]
    /\ request \in [AuthRequests -> RequestStates]
    /\ \A r \in AuthRequests : WellAsked(request[r])
    /\ \A r, t \in AuthRequests :
         r # t /\ request[r].kind = request[t].kind /\ request[r].kind \in {"issue", "exchange"}
           => request[r].id # request[t].id

(* The queue holds whoever asks, in the order of asking; only its head acts. *)
LineInv ==
    /\ line \in Seq(AuthRequests) /\ IsInjective(line)
    /\ \A r \in AuthRequests : (request[r].at = "idle") = (r \notin ToSet(line))
    /\ \A r \in AuthRequests : request[r].at \in {"writing", "settled"} => IsNext(r)
    /\ \A i, j \in 1..Len(line) : i <= j => request[line[i]].now <= request[line[j]].now

(* What a file's content must not lose: links that opened stay used, and a *)
(* living cookie has its session.                                          *)
Keeps(f) ==
    /\ \A c \in cookies : \A l \in f.links : l.id = c.link => l.used
    /\ \A c \in cookies : \A s \in f.sessions : s.id = c.id => s.expiresAt = c.expiresAt
    /\ \A c \in cookies : Alive(c, hour) => \E s \in f.sessions : s.id = c.id /\ s.lastSeenAt >= c.lastSeenAt

(* Nothing in a file is newer than those who still wait. *)
Before(s, q) == s.lastSeenAt <= q.now /\ (q.kind = "exchange" => s.id # q.id)

Lags(f) ==
    \A s \in f.sessions :
      /\ s.lastSeenAt <= hour /\ s.id <= count.exchanges
      /\ \A r \in AuthRequests : request[r].at = "queued" => Before(s, request[r])

Sound(f) == Keeps(f) /\ Lags(f)

FileInv ==
    /\ Sound(authFile)
    /\ \A r \in AuthRequests : request[r].at = "writing" => Sound(request[r].draft)

(* What is about to be answered is in the draft, and in the file once the  *)
(* request has settled well.                                               *)
Promised(q) ==
    /\ q.kind = "exchange" =>
         /\ Session(q) \in q.draft.sessions
         /\ \A s \in q.draft.sessions : s.id = q.id => s.expiresAt = q.now + SessionTtl
         /\ \A l \in q.draft.links : l.id = q.link => l.used
         /\ \A c \in cookies : c.link # q.link
    /\ q.kind = "verify" => \E s \in q.draft.sessions : s.id = q.id /\ s.lastSeenAt >= q.now

AnswerInv ==
    \A r \in AuthRequests :
      /\ request[r].at = "writing" /\ request[r].result.ok => Promised(request[r])
      /\ request[r].at = "settled" /\ request[r].result.ok =>
           Promised(request[r]) /\ authFile = request[r].draft

CookieInv ==
    /\ LinkOpensOnce
    /\ \A c \in cookies : c.id \in 1..count.exchanges /\ c.link \in sent

AuthInv == TypesInv /\ LineInv /\ FileInv /\ AnswerInv /\ CookieInv

-----------------------------------------------------------------------------
(* Files *)

(* Every part of the step relation leaves the file's shape alone. *)
LEMMA FilesTyped ==
    ASSUME NEW f \in AuthFiles, NEW q \in RequestStates, q.now \in 0..MaxHours
    PROVE  /\ Fresh(f, q.now) \in AuthFiles
           /\ q.id \in 1..MaxLinks => Issued(f, q) \in AuthFiles
           /\ q.id \in 1..MaxExchanges /\ q.link \in 1..MaxLinks /\ q.device \in Devices
                => Session(q) \in WebSessions /\ Exchanged(f, q) \in AuthFiles
           /\ Verified(f, q) \in AuthFiles
<1>1. f.links \subseteq Links /\ f.sessions \subseteq WebSessions /\ f = [links |-> f.links, sessions |-> f.sessions]
  BY DEF AuthFiles
<1>2. q.now \in Nat /\ LinkTtl \in Nat /\ SessionTtl \in Nat
  BY AuthTimes DEF RequestStates
<1>3. Fresh(f, q.now) \in AuthFiles
  BY <1>1 DEF Fresh, AuthFiles
<1>4. ASSUME q.id \in 1..MaxLinks PROVE Issued(f, q) \in AuthFiles
  <2>1. [id |-> q.id, expiresAt |-> q.now + LinkTtl, used |-> FALSE] \in Links
    BY <1>2, <1>4 DEF Links
  <2> QED BY <1>1, <2>1 DEF Issued, AuthFiles
<1>5. ASSUME q.id \in 1..MaxExchanges, q.link \in 1..MaxLinks, q.device \in Devices
      PROVE  Session(q) \in WebSessions /\ Exchanged(f, q) \in AuthFiles
  <2>1. Session(q) \in WebSessions
    BY <1>2, <1>5 DEF Session, WebSessions
  <2>2. \A l \in f.links : [l EXCEPT !.used = @ \/ l.id = q.link] \in Links
    BY <1>1 DEF Links
  <2> QED BY <1>1, <2>1, <2>2 DEF Exchanged, AuthFiles
<1>6. Verified(f, q) \in AuthFiles
  <2>1. \A s \in f.sessions : [s EXCEPT !.lastSeenAt = q.now] \in WebSessions
    BY <1>1 DEF WebSessions
  <2> QED BY <1>1, <2>1 DEF Verified, Matching, AuthFiles
<1> QED BY <1>3, <1>4, <1>5, <1>6

(* A session that is alive was alive before, and an earlier or a fresher   *)
(* check makes no difference to that.                                      *)
LEMMA LivesBefore ==
    ASSUME NEW s \in WebSessions, NEW c \in WebSessions, s.expiresAt = c.expiresAt,
           s.lastSeenAt >= c.lastSeenAt, NEW t \in Nat, NEW u \in Nat, t <= u, Alive(c, u)
    PROVE  Alive(s, t)
<1>1. Grace \in Nat /\ s.expiresAt \in Nat /\ s.lastSeenAt \in Int /\ c.lastSeenAt \in Int
  BY AuthTimes DEF WebSessions
<1> QED BY <1>1 DEF Alive

(* Pruning takes nothing away from those who are signed in. *)
LEMMA FreshKeeps ==
    ASSUME TypesInv, NEW f \in AuthFiles, Keeps(f), NEW t \in Nat, t <= hour
    PROVE  Keeps(Fresh(f, t))
<1>1. hour \in Nat /\ cookies \subseteq WebSessions /\ f.sessions \subseteq WebSessions
  BY DEF TypesInv, AuthFiles
<1>2. Fresh(f, t).links \subseteq f.links /\ Fresh(f, t).sessions = {s \in f.sessions : Alive(s, t)}
  BY DEF Fresh
<1>3. ASSUME NEW c \in cookies, Alive(c, hour)
      PROVE  \E s \in Fresh(f, t).sessions : s.id = c.id /\ s.lastSeenAt >= c.lastSeenAt
  <2>1. PICK s \in f.sessions : s.id = c.id /\ s.lastSeenAt >= c.lastSeenAt
    BY <1>3 DEF Keeps
  <2>2. s.expiresAt = c.expiresAt
    BY <2>1 DEF Keeps
  <2>3. Alive(s, t)
    BY <1>1, <1>3, <2>1, <2>2, LivesBefore
  <2> QED BY <1>2, <2>1, <2>3
<1> QED BY <1>2, <1>3 DEF Keeps

(* A new link has a number no cookie was bought with. *)
LEMMA IssuedKeeps ==
    ASSUME CookieInv, NEW f, NEW q, Keeps(f), q.id \notin sent
    PROVE  Keeps(Issued(f, q))
<1> DEFINE l0 == [id |-> q.id, expiresAt |-> q.now + LinkTtl, used |-> FALSE]
<1>1. Issued(f, q).links \subseteq f.links \cup {l0} /\ Issued(f, q).sessions \subseteq f.sessions
  BY DEF Issued
<1> QED BY DEF Keeps, Issued, CookieInv

(* Opening a link uses it and adds a session of a number nobody has. *)
LEMMA ExchangedKeeps ==
    ASSUME NEW f, NEW q, Keeps(f), \A c \in cookies : c.id # q.id, f.links \subseteq Links
    PROVE  Keeps(Exchanged(f, q))
<1>1. /\ Exchanged(f, q).sessions = f.sessions \cup {Session(q)}
      /\ Exchanged(f, q).links = {[l EXCEPT !.used = @ \/ l.id = q.link] : l \in f.links}
  BY DEF Exchanged
<1>2. ASSUME NEW c \in cookies, NEW k \in Exchanged(f, q).links, k.id = c.link
      PROVE  k.used
  <2>1. PICK l \in f.links : k = [l EXCEPT !.used = @ \/ l.id = q.link]
    BY <1>1
  <2>2. l \in Links
    OBVIOUS
  <2>3. k.id = l.id /\ k.used = (l.used \/ l.id = q.link)
    BY <2>1, <2>2 DEF Links
  <2>4. l.used
    BY <1>2, <2>3, ZenonT(60) DEF Keeps
  <2> QED BY <2>3, <2>4
<1>3. Session(q).id = q.id
  BY DEF Session
<1> QED BY <1>1, <1>2, <1>3 DEF Keeps

(* A check moves lastSeenAt of the sessions it matches, and only forward. *)
LEMMA VerifiedKeeps ==
    ASSUME NEW f \in AuthFiles, NEW q \in RequestStates, Keeps(f), TypesInv,
           \A s \in f.sessions : s.lastSeenAt <= q.now
    PROVE  Keeps(Verified(f, q))
<1>1. f.sessions \subseteq WebSessions /\ cookies \subseteq WebSessions /\ q.now \in Nat
  BY DEF AuthFiles, TypesInv, RequestStates
<1> DEFINE Moved(s) == [s EXCEPT !.lastSeenAt = q.now]
<1>2. /\ Verified(f, q).links = f.links
      /\ Verified(f, q).sessions = (f.sessions \ Matching(f, q)) \cup {Moved(s) : s \in Matching(f, q)}
      /\ Matching(f, q) \subseteq f.sessions
  BY DEF Verified, Matching, AuthFiles
<1>3. \A s \in f.sessions : Moved(s).id = s.id /\ Moved(s).expiresAt = s.expiresAt /\ Moved(s).lastSeenAt = q.now
  BY <1>1 DEF WebSessions
<1> HIDE DEF Moved
<1>4. ASSUME NEW c \in cookies, NEW s \in Verified(f, q).sessions, s.id = c.id
      PROVE  s.expiresAt = c.expiresAt
  <2>1. \E k \in f.sessions : k.id = s.id /\ k.expiresAt = s.expiresAt
    BY <1>2, <1>3
  <2> QED BY <1>4, <2>1 DEF Keeps
<1>5. ASSUME NEW c \in cookies, Alive(c, hour)
      PROVE  \E s \in Verified(f, q).sessions : s.id = c.id /\ s.lastSeenAt >= c.lastSeenAt
  <2>1. PICK s \in f.sessions : s.id = c.id /\ s.lastSeenAt >= c.lastSeenAt
    BY <1>5 DEF Keeps
  <2>2. CASE s \notin Matching(f, q)
    BY <1>2, <2>1, <2>2
  <2>3. CASE s \in Matching(f, q)
    <3>1. Moved(s) \in Verified(f, q).sessions
      BY <1>2, <2>3
    <3>2. s.lastSeenAt \in Int /\ c.lastSeenAt \in Int /\ s.lastSeenAt <= q.now
      BY <1>1 DEF WebSessions
    <3>3. q.now >= c.lastSeenAt
      BY <1>1, <2>1, <3>2
    <3> QED BY <1>3, <2>1, <3>1, <3>3
  <2> QED BY <2>2, <2>3
<1> QED BY <1>2, <1>4, <1>5 DEF Keeps

-----------------------------------------------------------------------------
(* The queue *)

LEMMA InLineHasPlace ==
    ASSUME NEW s \in Seq(AuthRequests)
    PROVE  /\ Len(s) \in Nat
           /\ \A r : r \in ToSet(s) <=> \E i \in 1..Len(s) : s[i] = r
           /\ \A i \in 1..Len(s) : s[i] \in AuthRequests
           /\ s # <<>> => Head(s) = s[1] /\ 1 \in 1..Len(s)
           /\ IsInjective(s) <=> \A i, j \in 1..Len(s) : s[i] = s[j] => i = j
<1>1. Len(s) \in Nat /\ DOMAIN s = 1..Len(s) /\ \A i \in 1..Len(s) : s[i] \in AuthRequests
  BY LenProperties, ElementOfSeq
<1>2. s # <<>> => Head(s) = s[1] /\ 1 \in 1..Len(s)
  BY HeadTailProperties, EmptySeq, <1>1
<1> QED BY <1>1, <1>2 DEF ToSet, IsInjective

(* A request that acts is the first of the queue, so it is the only one    *)
(* that acts and nobody has waited longer.                                 *)
LEMMA HeadIsEldest ==
    ASSUME LineInv, NEW r \in AuthRequests, IsNext(r)
    PROVE  /\ \A t \in AuthRequests : request[t].at \in {"writing", "settled"} => t = r
           /\ \A t \in AuthRequests : request[t].at = "queued" => request[r].now <= request[t].now
<1>1. line # <<>> /\ line \in Seq(AuthRequests) /\ line[1] = r
  BY InLineHasPlace DEF LineInv, IsNext
<1>2. \A t \in AuthRequests : request[t].at = "queued" => \E i \in 1..Len(line) : line[i] = t /\ 1 <= i
  BY <1>1, InLineHasPlace DEF LineInv
<1>3. 1 \in 1..Len(line)
  BY <1>1, InLineHasPlace
<1> QED BY <1>1, <1>2, <1>3 DEF LineInv, IsNext

LEMMA JoinsLine ==
    ASSUME LineInv, NEW r \in AuthRequests, NEW q, LinesUp(r, q), TypesInv, q \in RequestStates
    PROVE  LineInv'
<1> DEFINE n == Len(line)
<1>1. /\ line \in Seq(AuthRequests) /\ line' = Append(line, r) /\ request[r] = NoRequest
      /\ request \in [AuthRequests -> RequestStates] /\ hour \in Nat
  BY DEF LineInv, LinesUp, TypesInv
<1>2. /\ n \in Nat /\ line' \in Seq(AuthRequests) /\ Len(line') = n + 1 /\ line'[n + 1] = r
      /\ \A i \in 1..n : line'[i] = line[i] /\ line[i] \in AuthRequests
  BY <1>1, AppendProperties, InLineHasPlace
<1>3. \A t \in AuthRequests : t \in ToSet(line) <=> \E i \in 1..n : line[i] = t
  BY <1>1, InLineHasPlace
<1>4. \A t \in AuthRequests : t \in ToSet(line') <=> \E i \in 1..(n + 1) : line'[i] = t
  BY <1>2, InLineHasPlace
<1>5. /\ request'[r].at = "queued" /\ request'[r].now = hour
      /\ \A t \in AuthRequests : t # r => request'[t] = request[t]
  BY <1>1 DEF LinesUp, RequestStates
<1>6. request[r].at = "idle"
  BY <1>1 DEF NoRequest
<1>7. \A i \in 1..n : line[i] # r
  BY <1>3, <1>6 DEF LineInv
<1>8. \A i, j \in 1..n : line[i] = line[j] => i = j
  BY <1>1, InLineHasPlace DEF LineInv
<1>9. (n + 1) \notin 1..n /\ 1..(n + 1) = 1..n \cup {n + 1}
  BY <1>2
<1>10. \A t \in AuthRequests : (request[t].at = "idle") = (t \notin ToSet(line))
  BY DEF LineInv
<1>11. \A t \in AuthRequests : request[t].at \in {"writing", "settled"} => line # <<>> /\ line[1] = t /\ 1 \in 1..n
  BY <1>1, InLineHasPlace DEF LineInv, IsNext
<1>12. \A t \in AuthRequests : request[t].now \in Nat /\ request[t].now <= hour
  BY <1>1 DEF TypesInv, WellAsked, RequestStates
<1>13. \A i, j \in 1..n : i <= j => request[line[i]].now <= request[line[j]].now
  BY DEF LineInv
<1> HIDE DEF n
<1>14. line' \in Seq(AuthRequests) /\ IsInjective(line')
  <2>1. \A i, j \in 1..(n + 1) : line'[i] = line'[j] => i = j
    BY <1>2, <1>7, <1>8, <1>9
  <2> QED BY <1>2, <2>1, InLineHasPlace
<1>15. \A t \in AuthRequests : (request'[t].at = "idle") = (t \notin ToSet(line'))
  <2> TAKE t \in AuthRequests
  <2>1. CASE t = r
    BY <1>2, <1>4, <1>5, <1>9, <2>1
  <2>2. CASE t # r
    <3>1. t \in ToSet(line') <=> t \in ToSet(line)
      BY <1>2, <1>3, <1>4, <1>9, <2>2
    <3> QED BY <3>1, <2>2, <1>5, <1>10
  <2> QED BY <2>1, <2>2
<1>16. \A t \in AuthRequests : request'[t].at \in {"writing", "settled"} => IsNext(t)'
  <2> SUFFICES ASSUME NEW t \in AuthRequests, request'[t].at \in {"writing", "settled"}
               PROVE  line' # <<>> /\ Head(line') = t
    BY DEF IsNext
  <2>1. t # r /\ line[1] = t /\ 1 \in 1..n
    BY <1>5, <1>11
  <2>2. line'[1] = t
    BY <1>2, <2>1
  <2>3. line' # <<>>
    BY <1>2, EmptySeq
  <2> QED BY <1>2, <2>2, <2>3, InLineHasPlace
<1>17. \A i, j \in 1..Len(line') : i <= j => request'[line'[i]].now <= request'[line'[j]].now
  <2>1. \A i \in 1..n : request'[line'[i]].now = request[line[i]].now /\ request[line[i]].now <= hour
    BY <1>2, <1>5, <1>7, <1>12
  <2>2. request'[line'[n + 1]].now = hour
    BY <1>2, <1>5
  <2>3. \A i, j \in 1..(n + 1) : i <= j => request'[line'[i]].now <= request'[line'[j]].now
    BY <1>2, <1>9, <1>13, <2>1, <2>2, <1>1
  <2> QED BY <1>2, <2>3
<1> QED BY <1>14, <1>15, <1>16, <1>17 DEF LineInv

LEMMA LeavesLine ==
    ASSUME LineInv, TypesInv, NEW r \in AuthRequests, Leaves(r), request[r].at = "settled"
    PROVE  LineInv'
<1> DEFINE n == Len(line)
<1>1. /\ line \in Seq(AuthRequests) /\ line' = Tail(line)
      /\ line # <<>> /\ line[1] = r /\ request \in [AuthRequests -> RequestStates]
  BY InLineHasPlace DEF LineInv, Leaves, IsNext, TypesInv
<1>2. /\ n \in Nat \ {0} /\ line' \in Seq(AuthRequests) /\ Len(line') = n - 1
      /\ \A i \in 1..(n - 1) : line'[i] = line[i + 1]
      /\ \A i \in 1..n : line[i] \in AuthRequests
  BY <1>1, HeadTailProperties, InLineHasPlace
<1>3. \A t \in AuthRequests : t \in ToSet(line) <=> \E i \in 1..n : line[i] = t
  BY <1>1, InLineHasPlace
<1>4. \A t \in AuthRequests : t \in ToSet(line') <=> \E i \in 1..(n - 1) : line'[i] = t
  BY <1>2, InLineHasPlace
<1>5. /\ request'[r] = NoRequest
      /\ \A t \in AuthRequests : t # r => request'[t] = request[t]
  BY <1>1 DEF Leaves
<1>6. \A i, j \in 1..n : line[i] = line[j] => i = j
  BY <1>1, InLineHasPlace DEF LineInv
<1>7. \A t \in AuthRequests : (request[t].at = "idle") = (t \notin ToSet(line))
  BY DEF LineInv
<1>8. \A t \in AuthRequests : request[t].at \in {"writing", "settled"} => t = r
  BY <1>1, HeadIsEldest DEF LineInv
<1>9. \A i, j \in 1..n : i <= j => request[line[i]].now <= request[line[j]].now
  BY DEF LineInv
<1> HIDE DEF n
<1>10. \A i \in 1..(n - 1) : i + 1 \in 1..n /\ 1 \in 1..n /\ line[i + 1] # r
  BY <1>1, <1>2, <1>6
<1>11. IsInjective(line')
  <2>1. \A i, j \in 1..(n - 1) : line'[i] = line'[j] => i = j
    BY <1>2, <1>6, <1>10
  <2> QED BY <1>2, <2>1, InLineHasPlace
<1>12. \A t \in AuthRequests : (request'[t].at = "idle") = (t \notin ToSet(line'))
  <2> TAKE t \in AuthRequests
  <2>1. CASE t = r
    <3>1. t \notin ToSet(line')
      BY <1>2, <1>4, <1>10, <2>1
    <3> QED BY <3>1, <2>1, <1>5 DEF NoRequest
  <2>2. CASE t # r
    <3>1. t \in ToSet(line) => t \in ToSet(line')
      <4> SUFFICES ASSUME t \in ToSet(line) PROVE t \in ToSet(line')
        OBVIOUS
      <4>1. PICK i \in 1..n : line[i] = t
        BY <1>3
      <4>2. i # 1
        BY <1>1, <2>2, <4>1
      <4>3. i - 1 \in 1..(n - 1) /\ (i - 1) + 1 = i
        BY <1>2, <4>2
      <4> QED BY <1>2, <1>4, <4>1, <4>3
    <3>2. t \in ToSet(line') => t \in ToSet(line)
      BY <1>2, <1>3, <1>4, <1>10
    <3> QED BY <3>1, <3>2, <2>2, <1>5, <1>7
  <2> QED BY <2>1, <2>2
<1>13. \A t \in AuthRequests : request'[t].at \notin {"writing", "settled"}
  BY <1>5, <1>8 DEF NoRequest
<1>14. \A i, j \in 1..Len(line') : i <= j => request'[line'[i]].now <= request'[line'[j]].now
  <2>1. \A i \in 1..(n - 1) : request'[line'[i]] = request[line[i + 1]]
    BY <1>2, <1>5, <1>10
  <2>2. \A i, j \in 1..(n - 1) : i <= j => i + 1 <= j + 1 /\ i + 1 \in 1..n /\ j + 1 \in 1..n
    BY <1>2
  <2>3. \A i, j \in 1..(n - 1) : i <= j => request'[line'[i]].now <= request'[line'[j]].now
    BY <1>9, <2>1, <2>2
  <2> QED BY <1>2, <2>3
<1> QED BY <1>2, <1>11, <1>12, <1>13, <1>14 DEF LineInv

-----------------------------------------------------------------------------
(* Asking *)

(* A new request changes nothing but the queue and brings a new number. *)
LEMMA AskKeeps ==
    ASSUME AuthInv, NEW r \in AuthRequests, NEW q \in RequestStates,
           LinesUp(r, q), UNCHANGED <<hour, authFile, sent, cookies>>,
           count' \in [links : 0..MaxLinks, exchanges : 0..MaxExchanges, faults : 0..MaxAuthFaults],
           count.links <= count'.links, count.exchanges <= count'.exchanges,
           WellAsked(request[r])',
           q.kind \in {"issue", "exchange"} =>
             \A t \in AuthRequests : request[t].kind = q.kind => request[t].id < q.id,
           q.kind = "exchange" => q.id > count.exchanges
    PROVE  AuthInv'
<1> DEFINE nq == [q EXCEPT !.at = "queued", !.now = hour]
<1>1. /\ request[r] = NoRequest /\ request \in [AuthRequests -> RequestStates] /\ hour \in Nat
      /\ request' = [request EXCEPT ![r] = nq]
      /\ count.links \in 0..MaxLinks /\ count.exchanges \in 0..MaxExchanges
      /\ MaxLinks \in Nat /\ MaxExchanges \in Nat
      /\ \A t \in AuthRequests : WellAsked(request[t])
      /\ \A t, u \in AuthRequests :
           t # u /\ request[t].kind = request[u].kind /\ request[t].kind \in {"issue", "exchange"}
             => request[t].id # request[u].id
      /\ sent \subseteq 1..count.links
  BY AuthBounds DEF AuthInv, TypesInv, LinesUp
<1>2. nq \in RequestStates /\ nq.at = "queued" /\ nq.now = hour /\ nq.kind = q.kind /\ nq.id = q.id
  BY <1>1 DEF RequestStates
<1> HIDE DEF nq
<1>4. request'[r] = nq /\ \A t \in AuthRequests : t # r => request'[t] = request[t]
  BY <1>1
<1>5. request' \in [AuthRequests -> RequestStates]
  BY <1>1, <1>2
<1>6. \A t \in AuthRequests : WellAsked(request[t])'
  <2> SUFFICES ASSUME NEW t \in AuthRequests, t # r PROVE WellAsked(request[t])'
    OBVIOUS
  <2>1. WellAsked(request[t]) /\ request'[t] = request[t]
    BY <1>1, <1>4
  <2>2. request[t].id \in Nat
    BY <1>1 DEF RequestStates
  <2>3. count'.links \in Nat /\ count'.exchanges \in Nat
    BY <1>1
  <2> QED BY <1>1, <2>1, <2>2, <2>3 DEF WellAsked
<1>7. \A t \in AuthRequests : request[t].id \in Nat /\ nq.id \in Nat
  BY <1>1, <1>2 DEF RequestStates
<1>8. \A t, u \in AuthRequests :
        t # u /\ request'[t].kind = request'[u].kind /\ request'[t].kind \in {"issue", "exchange"}
          => request'[t].id # request'[u].id
  <2> TAKE t, u \in AuthRequests
  <2>1. CASE t = r
    BY <1>2, <1>4, <1>7, <2>1
  <2>2. CASE u = r
    BY <1>2, <1>4, <1>7, <2>2
  <2>3. CASE t # r /\ u # r
    BY <1>1, <1>4, <2>3
  <2> QED BY <2>1, <2>2, <2>3
<1>9. sent' \subseteq 1..count'.links
  BY <1>1
<1>10. TypesInv'
  BY <1>5, <1>6, <1>8, <1>9 DEF TypesInv, AuthInv
<1>11. LineInv'
  BY JoinsLine DEF AuthInv
<1>12. ASSUME NEW f, Lags(f), f \in AuthFiles PROVE Lags(f)'
  <2> SUFFICES ASSUME NEW s \in f.sessions
               PROVE  /\ s.lastSeenAt <= hour /\ s.id <= count'.exchanges
                      /\ \A t \in AuthRequests : request'[t].at = "queued" => Before(s, request'[t])
    BY DEF Lags
  <2>1. s.lastSeenAt <= hour /\ s.id <= count.exchanges /\ s.id \in Int
    BY <1>12 DEF Lags, AuthFiles, WebSessions
  <2>2. s.id <= count'.exchanges
    BY <1>1, <2>1
  <2>3. Before(s, nq)
    BY <1>1, <1>2, <1>7, <2>1 DEF Before
  <2>4. \A t \in AuthRequests : t # r /\ request[t].at = "queued" => Before(s, request[t])
    BY <1>12 DEF Lags
  <2> QED BY <1>4, <2>1, <2>2, <2>3, <2>4
<1>13. ASSUME NEW f, Keeps(f) PROVE Keeps(f)'
  BY <1>13 DEF Keeps
<1>14. FileInv'
  <2>1. Sound(authFile)'
    <3>1. Sound(authFile) /\ authFile \in AuthFiles
      BY DEF AuthInv, FileInv, TypesInv
    <3> QED BY <3>1, <1>12, <1>13 DEF Sound, Lags, Keeps
  <2>2. ASSUME NEW t \in AuthRequests, request'[t].at = "writing" PROVE Sound(request[t].draft)'
    <3>1. t # r /\ request[t].at = "writing"
      BY <1>2, <1>4, <2>2
    <3>2. Sound(request[t].draft) /\ request[t].draft \in AuthFiles /\ request'[t].draft = request[t].draft
      BY <1>1, <1>4, <3>1 DEF AuthInv, FileInv, RequestStates
    <3> QED BY <3>2, <1>12, <1>13 DEF Sound, Lags, Keeps
  <2> QED BY <2>1, <2>2 DEF FileInv
<1>15. AnswerInv'
  <2> SUFFICES ASSUME NEW t \in AuthRequests, request'[t].at \in {"writing", "settled"}, request'[t].result.ok
               PROVE  Promised(request[t])' /\ (request'[t].at = "settled" => authFile = request'[t].draft)
    BY DEF AnswerInv
  <2>1. t # r /\ request'[t] = request[t]
    BY <1>2, <1>4
  <2>2. Promised(request[t]) /\ (request[t].at = "settled" => authFile = request[t].draft)
    BY <2>1 DEF AuthInv, AnswerInv
  <2> QED BY <2>1, <2>2 DEF Promised
<1>16. CookieInv'
  <2>1. cookies \subseteq WebSessions /\ CookieInv
    BY DEF AuthInv, TypesInv
  <2>2. \A c \in cookies : c.id \in 1..count'.exchanges
    BY <1>1, <2>1 DEF CookieInv
  <2> QED BY <2>1, <2>2 DEF CookieInv, LinkOpensOnce
<1> QED BY <1>10, <1>11, <1>14, <1>15, <1>16 DEF AuthInv

LEMMA IssueKeeps ==
    ASSUME AuthInv, NEW r \in AuthRequests, IssueMagicLink(r)
    PROVE  AuthInv'
<1>1. /\ count \in [links : 0..MaxLinks, exchanges : 0..MaxExchanges, faults : 0..MaxAuthFaults]
      /\ MaxLinks \in Nat /\ MaxExchanges \in Nat /\ MaxAuthFaults \in Nat /\ hour \in Nat
      /\ sent \subseteq 1..count.links /\ cookies \subseteq WebSessions
      /\ \A t \in AuthRequests : request[t] \in RequestStates /\ WellAsked(request[t])
      /\ request \in [AuthRequests -> RequestStates]
      /\ \A c \in cookies : c.id \in 1..count.exchanges
  BY AuthBounds DEF AuthInv, TypesInv, CookieInv
<1>2. NoRequest \in RequestStates
  BY DEF NoRequest, RequestStates, AuthFiles, Refusal
<1>3. /\ \A t \in AuthRequests : request[t].kind = "issue" => request[t].id <= count.links
      /\ \A t \in AuthRequests : request[t].kind = "exchange" => request[t].id <= count.exchanges
      /\ \A t \in AuthRequests : request[t].id \in Int
  BY <1>1 DEF WellAsked, RequestStates
<1> DEFINE q == [NoRequest EXCEPT !.kind = "issue", !.id = count.links + 1]
           nq == [q EXCEPT !.at = "queued", !.now = hour]
<1>10. count.links + 1 \in Nat
  BY <1>1
<1>11. /\ q \in RequestStates /\ q.kind = "issue" /\ q.id = count.links + 1
      /\ nq.id = count.links + 1 /\ nq.now = hour /\ nq.kind = "issue" /\ nq.at = "queued"
  <2>1. q \in RequestStates /\ q.kind = "issue" /\ q.id = count.links + 1
    BY <1>2, <1>10 DEF RequestStates
  <2> HIDE DEF q
  <2> QED BY <1>1, <2>1 DEF RequestStates
<1>12. /\ LinesUp(r, q) /\ UNCHANGED <<hour, authFile, sent, cookies>>
      /\ count.links < MaxLinks /\ count' = [count EXCEPT !.links = @ + 1]
  BY DEF IssueMagicLink
<1>13. /\ count'.links = count.links + 1 /\ count'.exchanges = count.exchanges
      /\ count' \in [links : 0..MaxLinks, exchanges : 0..MaxExchanges, faults : 0..MaxAuthFaults]
  BY <1>1, <1>12
<1>14. \A t \in AuthRequests : request[t].kind = q.kind => request[t].id < q.id
  BY <1>1, <1>3, <1>11
<1>15. count.links + 1 \notin sent /\ count.links + 1 \in 1..(count.links + 1)
  BY <1>1
<1> HIDE DEF q
<1>16. WellAsked(request[r])'
  <2>1. request'[r] = nq
    BY <1>1, <1>12 DEF LinesUp
  <2> HIDE DEF nq
  <2> QED BY <1>1, <1>11, <1>12, <1>13, <1>15, <2>1 DEF WellAsked
<1>17. count.links <= count'.links /\ count.exchanges <= count'.exchanges
  BY <1>1, <1>13
<1> QED BY <1>11, <1>12, <1>13, <1>14, <1>16, <1>17, AskKeeps

LEMMA AskingKeeps ==
    ASSUME AuthInv, NEW r \in AuthRequests, NEW d \in Devices,
           \/ \E l \in 1..MaxLinks : ExchangeMagicLink(r, l, d)
           \/ \E c \in cookies : VerifySession(r, c, d)
    PROVE  AuthInv'
<1>1. /\ count \in [links : 0..MaxLinks, exchanges : 0..MaxExchanges, faults : 0..MaxAuthFaults]
      /\ MaxLinks \in Nat /\ MaxExchanges \in Nat /\ MaxAuthFaults \in Nat /\ hour \in Nat
      /\ sent \subseteq 1..count.links /\ cookies \subseteq WebSessions
      /\ \A t \in AuthRequests : request[t] \in RequestStates /\ WellAsked(request[t])
      /\ request \in [AuthRequests -> RequestStates]
      /\ \A c \in cookies : c.id \in 1..count.exchanges
  BY AuthBounds DEF AuthInv, TypesInv, CookieInv
<1>2. NoRequest \in RequestStates
  BY DEF NoRequest, RequestStates, AuthFiles, Refusal
<1>3. /\ \A t \in AuthRequests : request[t].kind = "issue" => request[t].id <= count.links
      /\ \A t \in AuthRequests : request[t].kind = "exchange" => request[t].id <= count.exchanges
      /\ \A t \in AuthRequests : request[t].id \in Int
  BY <1>1 DEF WellAsked, RequestStates
<1>5. ASSUME NEW l \in 1..MaxLinks, ExchangeMagicLink(r, l, d) PROVE AuthInv'
  <2> DEFINE q == [NoRequest EXCEPT !.kind = "exchange", !.id = count.exchanges + 1, !.link = l, !.device = d]
             nq == [q EXCEPT !.at = "queued", !.now = hour]
  <2>0. count.exchanges + 1 \in Nat /\ l \in Nat
    BY <1>1
  <2>1. /\ q \in RequestStates /\ q.kind = "exchange" /\ q.id = count.exchanges + 1
        /\ nq.id = count.exchanges + 1 /\ nq.now = hour /\ nq.kind = "exchange" /\ nq.at = "queued" /\ nq.link = l /\ nq.device = d
    <3>1. q \in RequestStates /\ q.kind = "exchange" /\ q.id = count.exchanges + 1 /\ q.link = l /\ q.device = d
      BY <1>2, <2>0 DEF RequestStates
    <3> HIDE DEF q
    <3> QED BY <1>1, <3>1 DEF RequestStates
  <2>2. /\ LinesUp(r, q) /\ UNCHANGED <<hour, authFile, sent, cookies>>
        /\ count.exchanges < MaxExchanges /\ count' = [count EXCEPT !.exchanges = @ + 1] /\ l \in sent
    BY <1>5 DEF ExchangeMagicLink
  <2>3. /\ count'.exchanges = count.exchanges + 1 /\ count'.links = count.links
        /\ count' \in [links : 0..MaxLinks, exchanges : 0..MaxExchanges, faults : 0..MaxAuthFaults]
    BY <1>1, <2>2
  <2>4. \A t \in AuthRequests : request[t].kind = q.kind => request[t].id < q.id
    BY <1>1, <1>3, <2>1
  <2>5. /\ \A c \in cookies : c.id # count.exchanges + 1
        /\ count.exchanges + 1 \in 1..(count.exchanges + 1)
    BY <1>1
  <2> HIDE DEF q
  <2>6. WellAsked(request[r])'
    <3>1. request'[r] = nq
      BY <1>1, <2>2 DEF LinesUp
    <3> HIDE DEF nq
    <3> QED BY <1>1, <2>1, <2>2, <2>3, <2>5, <3>1 DEF WellAsked
  <2>7. count.links <= count'.links /\ count.exchanges <= count'.exchanges /\ q.id > count.exchanges
    BY <1>1, <2>1, <2>3
  <2> QED BY <2>1, <2>2, <2>3, <2>4, <2>6, <2>7, AskKeeps
<1>6. ASSUME NEW c \in cookies, VerifySession(r, c, d) PROVE AuthInv'
  <2> DEFINE q == [NoRequest EXCEPT !.kind = "verify", !.id = c.id, !.device = d]
             nq == [q EXCEPT !.at = "queued", !.now = hour]
  <2>0. c.id \in Nat
    BY <1>1
  <2>1. /\ q \in RequestStates /\ q.kind = "verify"
        /\ nq.id = c.id /\ nq.now = hour /\ nq.kind = "verify" /\ nq.at = "queued" /\ nq.device = d
    <3>1. q \in RequestStates /\ q.kind = "verify" /\ q.id = c.id /\ q.device = d
      BY <1>2, <2>0 DEF RequestStates
    <3> HIDE DEF q
    <3> QED BY <1>1, <3>1 DEF RequestStates
  <2>2. LinesUp(r, q) /\ UNCHANGED <<hour, authFile, sent, cookies, count>>
    BY <1>6 DEF VerifySession
  <2> HIDE DEF q
  <2>3. WellAsked(request[r])'
    <3>1. request'[r] = nq
      BY <1>1, <2>2 DEF LinesUp
    <3> HIDE DEF nq
    <3> QED BY <1>1, <2>1, <2>2, <3>1 DEF WellAsked
  <2>4. count.links <= count'.links /\ count.exchanges <= count'.exchanges
    BY <1>1, <2>2
  <2> QED BY <1>1, <2>1, <2>2, <2>3, <2>4, AskKeeps
<1> QED BY <1>5, <1>6

-----------------------------------------------------------------------------
(* Acting *)

(* The head of the queue goes on with what it asked for. *)
HeadMoves(r) ==
    /\ request' \in [AuthRequests -> RequestStates]
    /\ \A t \in AuthRequests : t # r => request'[t] = request[t]
    /\ request'[r].kind = request[r].kind /\ request'[r].now = request[r].now
    /\ request'[r].id = request[r].id /\ request'[r].link = request[r].link
    /\ request'[r].device = request[r].device
    /\ request'[r].at \in {"writing", "settled"}
    /\ UNCHANGED <<hour, line, sent, cookies>>
    /\ count' \in [links : 0..MaxLinks, exchanges : 0..MaxExchanges, faults : 0..MaxAuthFaults]
    /\ count'.links = count.links /\ count'.exchanges = count.exchanges

(* While it goes on, only the file and what it is promised can change. *)
LEMMA GoingOnKeeps ==
    ASSUME AuthInv, NEW r \in AuthRequests, IsNext(r), request[r].at # "idle", HeadMoves(r),
           authFile' \in AuthFiles,
           Sound(authFile)',
           request'[r].at = "writing" => Sound(request[r].draft)',
           request'[r].result.ok => Promised(request[r])' /\ (request'[r].at = "settled" => authFile' = request'[r].draft)
    PROVE  AuthInv'
<1>1. /\ request \in [AuthRequests -> RequestStates]
      /\ \A t \in AuthRequests : WellAsked(request[t])
      /\ \A t, u \in AuthRequests :
           t # u /\ request[t].kind = request[u].kind /\ request[t].kind \in {"issue", "exchange"}
             => request[t].id # request[u].id
      /\ hour \in 0..MaxHours /\ sent \subseteq 1..count.links /\ cookies \subseteq WebSessions
  BY DEF AuthInv, TypesInv
<1>2. \A t \in AuthRequests : /\ request'[t].kind = request[t].kind
                              /\ request'[t].id = request[t].id /\ request'[t].now = request[t].now
  BY DEF HeadMoves
<1>3. request[r].kind # "none"
  BY <1>1 DEF WellAsked, NoRequest
<1>4. \A t \in AuthRequests : t # r => request[t].at \notin {"writing", "settled"}
  BY HeadIsEldest DEF AuthInv
<1>5. TypesInv'
  <2>1. \A t \in AuthRequests : WellAsked(request[t])'
    <3> TAKE t \in AuthRequests
    <3>1. WellAsked(request[t])
      BY <1>1
    <3>2. CASE t # r
      BY <3>1, <3>2 DEF WellAsked, HeadMoves
    <3>3. CASE t = r
      BY <1>3, <3>1, <3>3 DEF WellAsked, HeadMoves
    <3> QED BY <3>2, <3>3
  <2>2. \A t, u \in AuthRequests :
          t # u /\ request'[t].kind = request'[u].kind /\ request'[t].kind \in {"issue", "exchange"}
            => request'[t].id # request'[u].id
    BY <1>1, <1>2
  <2> QED BY <1>1, <2>1, <2>2 DEF TypesInv, HeadMoves
<1>6. LineInv'
  <2>1. /\ line \in Seq(AuthRequests) /\ line' = line /\ IsInjective(line)
        /\ \A i \in 1..Len(line) : line[i] \in AuthRequests
    BY InLineHasPlace DEF AuthInv, LineInv, HeadMoves
  <2>2. \A t \in AuthRequests : (request'[t].at = "idle") = (t \notin ToSet(line))
    BY DEF AuthInv, LineInv, HeadMoves
  <2>3. \A t \in AuthRequests : request'[t].at \in {"writing", "settled"} => IsNext(t)
    BY <1>4 DEF HeadMoves
  <2>4. \A i, j \in 1..Len(line) : i <= j => request'[line[i]].now <= request'[line[j]].now
    BY <1>2, <2>1 DEF AuthInv, LineInv
  <2> QED BY <2>1, <2>2, <2>3, <2>4 DEF LineInv, IsNext
<1>7. FileInv'
  <2>1. \A t \in AuthRequests : request'[t].at = "writing" => t = r
    BY <1>4 DEF HeadMoves
  <2> QED BY <2>1 DEF FileInv
<1>8. AnswerInv'
  <2>1. \A t \in AuthRequests : request'[t].at \in {"writing", "settled"} => t = r
    BY <1>4 DEF HeadMoves
  <2> QED BY <2>1 DEF AnswerInv
<1>9. CookieInv'
  BY DEF AuthInv, CookieInv, LinkOpensOnce, HeadMoves
<1> QED BY <1>5, <1>6, <1>7, <1>8, <1>9 DEF AuthInv

(* What was sound stays so while the head goes on. *)
LEMMA GoingOnStaysSound ==
    ASSUME NEW r \in AuthRequests, HeadMoves(r), NEW f, Sound(f)
    PROVE  Sound(f)'
<1>1. \A t \in AuthRequests : request'[t].at = "queued" => request'[t] = request[t]
  BY DEF HeadMoves
<1>2. hour' = hour /\ cookies' = cookies /\ count'.exchanges = count.exchanges
  BY DEF HeadMoves
<1>3. Keeps(f)'
  BY <1>2 DEF Sound, Keeps
<1>4. Lags(f)'
  BY <1>1, <1>2 DEF Sound, Lags
<1> QED BY <1>3, <1>4 DEF Sound

LEMMA OperateKeeps ==
    ASSUME AuthInv, NEW r \in AuthRequests, Operate(r)
    PROVE  AuthInv'
<1> DEFINE q == request[r]
           f == Fresh(authFile, q.now)
<1>1. /\ q.at = "queued" /\ IsNext(r) /\ UNCHANGED <<hour, authFile, line, sent, cookies, count>>
      /\ request \in [AuthRequests -> RequestStates] /\ q \in RequestStates
      /\ authFile \in AuthFiles /\ WellAsked(q) /\ hour \in 0..MaxHours
      /\ sent \subseteq 1..count.links
      /\ count \in [links : 0..MaxLinks, exchanges : 0..MaxExchanges, faults : 0..MaxAuthFaults]
      /\ MaxLinks \in Nat /\ MaxExchanges \in Nat /\ MaxHours \in Nat
  BY AuthBounds DEF Operate, AuthInv, TypesInv
<1>2. /\ q.now \in Nat /\ q.now <= hour /\ q.now \in 0..MaxHours
      /\ q.kind = "issue" => q.id \in 1..MaxLinks /\ q.id \notin sent
      /\ q.kind = "exchange" => q.id \in 1..MaxExchanges /\ q.link \in 1..MaxLinks /\ q.device \in Devices
                                /\ q.id <= count.exchanges /\ \A c \in cookies : c.id # q.id
  BY <1>1 DEF WellAsked, RequestStates
<1>3. f \in AuthFiles
  BY <1>1, <1>2, FilesTyped
<1>4. Sound(authFile) /\ CookieInv /\ TypesInv /\ LineInv
  BY DEF AuthInv, FileInv
<1>5. Keeps(f)
  BY <1>1, <1>2, <1>4, FreshKeeps DEF Sound
<1>6. f.sessions \subseteq authFile.sessions /\ f.links = {l \in authFile.links : q.now < l.expiresAt /\ ~l.used}
  BY DEF Fresh
<1>7. \A s \in f.sessions : /\ s.lastSeenAt <= hour /\ s.id <= count.exchanges /\ s.lastSeenAt <= q.now
                            /\ q.kind = "exchange" => s.id # q.id
                            /\ \A t \in AuthRequests : request[t].at = "queued" => Before(s, request[t])
  <2>1. Lags(authFile)
    BY <1>4 DEF Sound
  <2> QED BY <1>1, <1>6, <2>1 DEF Lags, Before
<1>8. \A t \in AuthRequests : request[t].at = "queued" => q.now <= request[t].now
  BY <1>1, <1>4, HeadIsEldest
<1>9. \A t \in AuthRequests : t # r /\ q.kind = "exchange" /\ request[t].kind = "exchange" => request[t].id # q.id
  BY DEF AuthInv, TypesInv
<1> DEFINE Writes(g, ok) == request' = [request EXCEPT ![r].at = "writing", ![r].draft = g, ![r].result = [ok |-> ok]]
<1>10. ASSUME NEW g \in AuthFiles, NEW ok \in BOOLEAN, Writes(g, ok), Keeps(g),
              \A s \in g.sessions :
                \/ s \in f.sessions
                \/ /\ s.lastSeenAt = q.now /\ \/ \E k \in f.sessions : k.id = s.id
                                              \/ q.kind = "exchange" /\ s.id = q.id,
              ok => Promised([q EXCEPT !.at = "writing", !.draft = g, !.result = [ok |-> ok]])
       PROVE  AuthInv'
  <2> DEFINE nq == [q EXCEPT !.at = "writing", !.draft = g, !.result = [ok |-> ok]]
  <2>1. request' = [request EXCEPT ![r] = nq]
    BY <1>1, <1>10
  <2>2. /\ nq \in RequestStates /\ nq.at = "writing" /\ nq.draft = g /\ nq.result.ok = ok
        /\ nq.kind = q.kind /\ nq.now = q.now /\ nq.id = q.id /\ nq.link = q.link /\ nq.device = q.device
    BY <1>1 DEF RequestStates
  <2>3. request'[r] = nq
    BY <1>1, <2>1
  <2> HIDE DEF nq
  <2>4. HeadMoves(r)
    BY <1>1, <2>1, <2>2, <2>3 DEF HeadMoves
  <2>5. Lags(g)'
    <3> SUFFICES ASSUME NEW s \in g.sessions
                 PROVE  /\ s.lastSeenAt <= hour /\ s.id <= count.exchanges
                        /\ \A t \in AuthRequests : t # r /\ request[t].at = "queued" => Before(s, request[t])
      BY <1>1, <2>1, <2>2, <2>3, <2>4 DEF Lags, HeadMoves
    <3>1. CASE s \in f.sessions
      BY <1>7, <3>1
    <3>2. CASE s.lastSeenAt = q.now /\ \E k \in f.sessions : k.id = s.id
      <4>1. PICK k \in f.sessions : k.id = s.id
        BY <3>2
      <4> QED BY <1>2, <1>7, <1>8, <3>2, <4>1 DEF Before
    <3>3. CASE s.lastSeenAt = q.now /\ q.kind = "exchange" /\ s.id = q.id
      BY <1>2, <1>8, <1>9, <3>3 DEF Before
    <3> QED BY <1>10, <3>1, <3>2, <3>3
  <2>6. Keeps(g)'
    BY <1>1, <1>10 DEF Keeps
  <2>7. Sound(g)'
    BY <2>5, <2>6 DEF Sound
  <2>8. Sound(authFile)'
    <3>1. Keeps(authFile)'
      BY <1>1, <1>4 DEF Keeps, Sound
    <3>2. Lags(authFile)'
      BY <1>1, <1>4, <2>4 DEF Lags, Sound, HeadMoves
    <3> QED BY <3>1, <3>2 DEF Sound
  <2>9. ok => Promised(request[r])'
    BY <1>1, <1>10, <2>3 DEF Promised, nq
  <2>10. Sound(request[r].draft)'
    BY <2>2, <2>3, <2>7 DEF Sound, Keeps, Lags
  <2> QED BY <1>1, <2>2, <2>3, <2>4, <2>8, <2>9, <2>10, GoingOnKeeps
<1>11. CASE q.kind = "issue" /\ Writes(Issued(f, q), TRUE)
  <2>1. Issued(f, q) \in AuthFiles
    BY <1>1, <1>2, <1>3, <1>11, FilesTyped
  <2>2. Keeps(Issued(f, q))
    BY <1>2, <1>4, <1>5, <1>11, IssuedKeeps
  <2>3. Issued(f, q).sessions = f.sessions
    BY <1>3 DEF Issued, AuthFiles
  <2>4. Promised([q EXCEPT !.at = "writing", !.draft = Issued(f, q), !.result = [ok |-> TRUE]])
    BY <1>1, <1>11 DEF Promised, RequestStates
  <2> HIDE DEF q, f
  <2> QED BY <1>10, <1>11, <2>1, <2>2, <2>3, <2>4
<1>12. CASE q.kind = "exchange" /\ Opens(f, q) /\ Writes(Exchanged(f, q), TRUE)
  <2>1. Exchanged(f, q) \in AuthFiles
    BY <1>1, <1>2, <1>3, <1>12, FilesTyped
  <2>2. Keeps(Exchanged(f, q))
    BY <1>2, <1>3, <1>5, <1>12, ExchangedKeeps DEF AuthFiles
  <2>3. Exchanged(f, q).sessions = f.sessions \cup {Session(q)}
    BY DEF Exchanged
  <2>4. /\ Session(q).id = q.id /\ Session(q).lastSeenAt = q.now
        /\ Session(q).expiresAt = q.now + SessionTtl
    BY DEF Session
  <2>5. \A k \in Exchanged(f, q).links : k.id = q.link => k.used
    <3> SUFFICES ASSUME NEW k \in Exchanged(f, q).links, k.id = q.link PROVE k.used
      OBVIOUS
    <3>1. PICK l \in f.links : k = [l EXCEPT !.used = @ \/ l.id = q.link]
      BY DEF Exchanged
    <3>2. l \in Links
      BY <1>3 DEF AuthFiles
    <3>3. k.id = l.id /\ k.used = (l.used \/ l.id = q.link)
      BY <3>1, <3>2 DEF Links
    <3> QED BY <3>3
  <2>6. \A c \in cookies : c.link # q.link
    <3>1. PICK l \in f.links : l.id = q.link
      BY <1>12 DEF Opens
    <3>2. l \in authFile.links /\ ~l.used
      BY <1>6, <3>1
    <3> QED BY <1>4, <3>1, <3>2 DEF Sound, Keeps
  <2> DEFINE nq == [q EXCEPT !.at = "writing", !.draft = Exchanged(f, q), !.result = [ok |-> TRUE]]
  <2>7. /\ nq.kind = q.kind /\ nq.draft = Exchanged(f, q) /\ Session(nq) = Session(q)
        /\ nq.id = q.id /\ nq.now = q.now /\ nq.link = q.link
    BY <1>1 DEF RequestStates, Session
  <2>8. \A s \in Exchanged(f, q).sessions : s.id = q.id => s.expiresAt = q.now + SessionTtl
    BY <1>7, <1>12, <2>3, <2>4
  <2>9. Promised(nq)
    <3> HIDE DEF nq
    <3> QED BY <1>12, <2>3, <2>5, <2>6, <2>7, <2>8 DEF Promised
  <2>10. \A s \in Exchanged(f, q).sessions : s \in f.sessions \/ (s.lastSeenAt = q.now /\ q.kind = "exchange" /\ s.id = q.id)
    BY <1>12, <2>3, <2>4
  <2> HIDE DEF q, f
  <2> QED BY <1>10, <1>12, <2>1, <2>2, <2>9, <2>10
<1>13. CASE q.kind = "exchange" /\ ~Opens(f, q) /\ request' = [request EXCEPT ![r].at = "settled", ![r].result = Refusal]
  <2> DEFINE nq == [q EXCEPT !.at = "settled", !.result = Refusal]
  <2>1. request' = [request EXCEPT ![r] = nq]
    BY <1>1, <1>13
  <2>2. /\ nq \in RequestStates /\ nq.at = "settled" /\ nq.result.ok = FALSE
        /\ nq.kind = q.kind /\ nq.now = q.now /\ nq.id = q.id /\ nq.link = q.link /\ nq.device = q.device
    BY <1>1 DEF RequestStates, Refusal
  <2>3. request'[r] = nq
    BY <1>1, <2>1
  <2> HIDE DEF nq
  <2>4. HeadMoves(r)
    BY <1>1, <2>1, <2>2, <2>3 DEF HeadMoves
  <2>5. Sound(authFile)'
    <3>1. Keeps(authFile)'
      BY <1>1, <1>4 DEF Keeps, Sound
    <3>2. Lags(authFile)'
      BY <1>1, <1>4, <2>4 DEF Lags, Sound, HeadMoves
    <3> QED BY <3>1, <3>2 DEF Sound
  <2> QED BY <1>1, <2>2, <2>3, <2>4, <2>5, GoingOnKeeps
<1>14. CASE q.kind = "verify" /\ Writes(Verified(f, q), Matching(f, q) # {})
  <2>1. Verified(f, q) \in AuthFiles
    BY <1>1, <1>2, <1>3, FilesTyped
  <2>2. Keeps(Verified(f, q))
    BY <1>1, <1>3, <1>4, <1>5, <1>7, VerifiedKeeps
  <2>3. \A s \in f.sessions : /\ [s EXCEPT !.lastSeenAt = q.now].id = s.id
                              /\ [s EXCEPT !.lastSeenAt = q.now].lastSeenAt = q.now
    BY <1>3 DEF AuthFiles, WebSessions
  <2>4. /\ Verified(f, q).sessions = (f.sessions \ Matching(f, q)) \cup {[s EXCEPT !.lastSeenAt = q.now] : s \in Matching(f, q)}
        /\ Matching(f, q) \subseteq f.sessions /\ \A s \in Matching(f, q) : s.id = q.id
    BY <1>3 DEF Verified, Matching, AuthFiles
  <2> DEFINE nq == [q EXCEPT !.at = "writing", !.draft = Verified(f, q), !.result = [ok |-> Matching(f, q) # {}]]
  <2>5. nq.kind = q.kind /\ nq.draft = Verified(f, q) /\ nq.id = q.id /\ nq.now = q.now
    BY <1>1 DEF RequestStates
  <2>6. ASSUME Matching(f, q) # {} PROVE Promised(nq)
    <3>1. PICK s \in Matching(f, q) : TRUE
      BY <2>6
    <3> DEFINE moved == [s EXCEPT !.lastSeenAt = q.now]
    <3>2. moved \in Verified(f, q).sessions /\ moved.id = q.id /\ moved.lastSeenAt = q.now
      BY <2>3, <2>4, <3>1
    <3>3. moved.lastSeenAt >= q.now
      BY <1>2, <3>2
    <3> HIDE DEF nq, moved
    <3> QED BY <1>14, <2>5, <3>2, <3>3 DEF Promised
  <2>7. \A s \in Verified(f, q).sessions : s \in f.sessions \/ (s.lastSeenAt = q.now /\ \E k \in f.sessions : k.id = s.id)
    <3> SUFFICES ASSUME NEW s \in Verified(f, q).sessions, s \notin f.sessions
                 PROVE  s.lastSeenAt = q.now /\ \E k \in f.sessions : k.id = s.id
      OBVIOUS
    <3>1. PICK k \in Matching(f, q) : s = [k EXCEPT !.lastSeenAt = q.now]
      BY <2>4
    <3>2. k \in f.sessions
      BY <2>4
    <3>3. s.id = k.id /\ s.lastSeenAt = q.now
      BY <2>3, <3>1, <3>2
    <3> QED BY <3>2, <3>3
  <2> HIDE DEF q, f
  <2> QED BY <1>10, <1>14, <2>1, <2>2, <2>6, <2>7
<1> QED BY <1>11, <1>12, <1>13, <1>14 DEF Operate

LEMMA WriteKeeps ==
    ASSUME AuthInv, NEW r \in AuthRequests, WriteState(r) \/ WriteFails(r)
    PROVE  AuthInv'
<1> DEFINE q == request[r]
<1>1. /\ q.at = "writing" /\ UNCHANGED <<hour, line, sent, cookies>>
      /\ request \in [AuthRequests -> RequestStates] /\ q \in RequestStates
      /\ authFile \in AuthFiles
      /\ count \in [links : 0..MaxLinks, exchanges : 0..MaxExchanges, faults : 0..MaxAuthFaults]
      /\ IsNext(r) /\ MaxAuthFaults \in Nat
  BY AuthBounds DEF WriteState, WriteFails, AuthInv, TypesInv, LineInv
<1>2. Sound(authFile) /\ Sound(q.draft) /\ q.draft \in AuthFiles /\ (q.result.ok => Promised(q))
  BY <1>1 DEF AuthInv, FileInv, AnswerInv, RequestStates
<1>3. CASE WriteState(r)
  <2> DEFINE nq == [q EXCEPT !.at = "settled"]
  <2>1. request' = [request EXCEPT ![r] = nq] /\ authFile' = q.draft /\ count' = count
    BY <1>1, <1>3 DEF WriteState
  <2>2. /\ nq \in RequestStates /\ nq.at = "settled" /\ nq.draft = q.draft /\ nq.result = q.result
        /\ nq.kind = q.kind /\ nq.now = q.now /\ nq.id = q.id /\ nq.link = q.link /\ nq.device = q.device
    BY <1>1 DEF RequestStates
  <2>3. request'[r] = nq
    BY <1>1, <2>1
  <2> HIDE DEF nq
  <2>4. HeadMoves(r)
    BY <1>1, <2>1, <2>2, <2>3 DEF HeadMoves
  <2>5. Sound(authFile)'
    <3>1. Keeps(authFile)'
      BY <1>1, <1>2, <2>1 DEF Keeps, Sound
    <3>2. Lags(authFile)'
      BY <1>1, <1>2, <2>1, <2>4 DEF Lags, Sound, HeadMoves
    <3> QED BY <3>1, <3>2 DEF Sound
  <2>6. q.result.ok => Promised(request[r])'
    <3>1. Session(nq) = Session(q)
      BY <2>2 DEF Session
    <3> QED BY <1>1, <1>2, <2>2, <2>3, <3>1 DEF Promised
  <2> QED BY <1>1, <1>2, <2>1, <2>2, <2>3, <2>4, <2>5, <2>6, GoingOnKeeps
<1>4. CASE WriteFails(r)
  <2> DEFINE nq == [q EXCEPT !.at = "settled", !.result = Refusal]
  <2>1. /\ request' = [request EXCEPT ![r] = nq] /\ authFile' \in {authFile, q.draft}
        /\ count.faults < MaxAuthFaults /\ count' = [count EXCEPT !.faults = @ + 1]
    BY <1>1, <1>4 DEF WriteFails
  <2>2. /\ nq \in RequestStates /\ nq.at = "settled" /\ nq.result.ok = FALSE
        /\ nq.kind = q.kind /\ nq.now = q.now /\ nq.id = q.id /\ nq.link = q.link /\ nq.device = q.device
    BY <1>1 DEF RequestStates, Refusal
  <2>3. request'[r] = nq
    BY <1>1, <2>1
  <2> HIDE DEF nq
  <2>4. /\ count' \in [links : 0..MaxLinks, exchanges : 0..MaxExchanges, faults : 0..MaxAuthFaults]
        /\ count'.links = count.links /\ count'.exchanges = count.exchanges
    BY <1>1, <2>1
  <2>5. HeadMoves(r)
    BY <1>1, <2>1, <2>2, <2>3, <2>4 DEF HeadMoves
  <2>6. Sound(authFile)'
    <3>1. Keeps(authFile)'
      BY <1>1, <1>2, <2>1 DEF Keeps, Sound
    <3>2. Lags(authFile)'
      BY <1>1, <1>2, <2>1, <2>5 DEF Lags, Sound, HeadMoves
    <3> QED BY <3>1, <3>2 DEF Sound
  <2>7. authFile' \in AuthFiles
    BY <1>1, <1>2, <2>1
  <2> QED BY <1>1, <2>2, <2>3, <2>5, <2>6, <2>7, GoingOnKeeps
<1> QED BY <1>3, <1>4

LEMMA AnswerKeeps ==
    ASSUME AuthInv, NEW r \in AuthRequests, Answer(r)
    PROVE  AuthInv'
<1> DEFINE q == request[r]
<1>1. /\ q.at = "settled" /\ Leaves(r) /\ UNCHANGED <<hour, authFile, count>>
      /\ request \in [AuthRequests -> RequestStates] /\ q \in RequestStates /\ WellAsked(q)
      /\ \A t \in AuthRequests : WellAsked(request[t])
      /\ authFile \in AuthFiles /\ hour \in 0..MaxHours /\ MaxHours \in Nat
      /\ sent \subseteq 1..count.links /\ cookies \subseteq WebSessions
      /\ count \in [links : 0..MaxLinks, exchanges : 0..MaxExchanges, faults : 0..MaxAuthFaults]
      /\ MaxLinks \in Nat /\ MaxExchanges \in Nat /\ SessionTtl \in Nat
      /\ \A t, u \in AuthRequests :
           t # u /\ request[t].kind = request[u].kind /\ request[t].kind \in {"issue", "exchange"}
             => request[t].id # request[u].id
  BY AuthBounds, AuthTimes DEF Answer, AuthInv, TypesInv
<1>2. /\ request'[r] = NoRequest /\ request' \in [AuthRequests -> RequestStates]
      /\ \A t \in AuthRequests : t # r => request'[t] = request[t]
  <2>1. NoRequest \in RequestStates
    BY DEF NoRequest, RequestStates, AuthFiles, Refusal
  <2> QED BY <1>1, <2>1 DEF Leaves
<1>3. \A t \in AuthRequests : t # r => request[t].at \notin {"writing", "settled"}
  BY <1>1, HeadIsEldest DEF AuthInv, LineInv
<1>4. LineInv'
  BY <1>1, LeavesLine DEF AuthInv
<1>5. CookieInv /\ Sound(authFile)
  BY DEF AuthInv, FileInv
<1>6. \A t \in AuthRequests : request'[t].at \notin {"writing", "settled"}
  BY <1>2, <1>3 DEF NoRequest
<1>7. AnswerInv' /\ (Sound(authFile)' => FileInv')
  BY <1>6 DEF AnswerInv, FileInv
<1>8. Lags(authFile)'
  BY <1>1, <1>2, <1>5 DEF Lags, Sound, NoRequest
(* Nothing is answered, or the answer is a link. *)
<1>9. ASSUME cookies' = cookies,
             \/ sent' = sent
             \/ q.kind = "issue" /\ sent' = sent \cup {q.id}
      PROVE  AuthInv'
  <2>1. sent' \subseteq 1..count.links /\ sent \subseteq sent'
    BY <1>1, <1>9 DEF WellAsked
  <2>2. \A t \in AuthRequests : WellAsked(request[t])'
    <3> TAKE t \in AuthRequests
    <3>1. CASE t = r
      BY <1>1, <1>2, <3>1 DEF WellAsked, NoRequest
    <3>2. CASE t # r
      <4>1. request[t].kind = "issue" => request[t].id \notin sent'
        BY <1>1, <1>9, <3>2 DEF WellAsked
      <4> QED BY <1>1, <1>2, <1>9, <2>1, <3>2, <4>1 DEF WellAsked
    <3> QED BY <3>1, <3>2
  <2>3. \A t, u \in AuthRequests :
          t # u /\ request'[t].kind = request'[u].kind /\ request'[t].kind \in {"issue", "exchange"}
            => request'[t].id # request'[u].id
    BY <1>1, <1>2 DEF NoRequest
  <2>4. TypesInv'
    BY <1>1, <1>2, <1>9, <2>1, <2>2, <2>3 DEF TypesInv
  <2>5. Keeps(authFile)'
    BY <1>1, <1>5, <1>9 DEF Keeps, Sound
  <2>6. CookieInv'
    BY <1>1, <1>5, <1>9, <2>1 DEF CookieInv, LinkOpensOnce
  <2> QED BY <1>4, <1>7, <1>8, <2>4, <2>5, <2>6 DEF AuthInv, Sound
(* A cookie is handed out. *)
<1>10. ASSUME q.result.ok, q.kind = "exchange", sent' = sent, cookies' = cookies \cup {Session(q)}
       PROVE  AuthInv'
  <2>1. Promised(q) /\ authFile = q.draft
    BY <1>1, <1>10 DEF AuthInv, AnswerInv
  <2>2. /\ Session(q) \in authFile.sessions
        /\ \A s \in authFile.sessions : s.id = q.id => s.expiresAt = q.now + SessionTtl
        /\ \A l \in authFile.links : l.id = q.link => l.used
        /\ \A c \in cookies : c.link # q.link
    BY <1>10, <2>1 DEF Promised
  <2>3. /\ Session(q).id = q.id /\ Session(q).lastSeenAt = q.now /\ Session(q).link = q.link
        /\ Session(q).expiresAt = q.now + SessionTtl
    BY DEF Session
  <2>4. q.id \in 1..count.exchanges /\ q.link \in sent /\ q.now \in Nat /\ \A c \in cookies : c.id # q.id
    BY <1>1, <1>10 DEF WellAsked, RequestStates
  <2>5. Session(q) \in WebSessions
    BY <1>1, <2>2 DEF AuthFiles
  <2>6. \A t \in AuthRequests : WellAsked(request[t])'
    <3> TAKE t \in AuthRequests
    <3>1. CASE t = r
      BY <1>1, <1>2, <3>1 DEF WellAsked, NoRequest
    <3>2. CASE t # r
      <4>1. request[t].kind = "exchange" => request[t].id # q.id
        BY <1>1, <1>10, <3>2
      <4>2. request[t].kind = "exchange" => \A c \in cookies' : c.id # request[t].id
        BY <1>1, <1>10, <2>3, <4>1 DEF WellAsked
      <4> QED BY <1>1, <1>2, <1>10, <3>2, <4>2 DEF WellAsked
    <3> QED BY <3>1, <3>2
  <2>7. \A t, u \in AuthRequests :
          t # u /\ request'[t].kind = request'[u].kind /\ request'[t].kind \in {"issue", "exchange"}
            => request'[t].id # request'[u].id
    BY <1>1, <1>2 DEF NoRequest
  <2>8. TypesInv'
    BY <1>1, <1>2, <1>10, <2>5, <2>6, <2>7 DEF TypesInv
  <2>9. Keeps(authFile)'
    <3>1. q.now >= q.now
      BY <2>4
    <3> QED BY <1>1, <1>5, <1>10, <2>2, <2>3, <3>1 DEF Keeps, Sound
  <2>10. CookieInv'
    BY <1>1, <1>5, <1>10, <2>2, <2>3, <2>4 DEF CookieInv, LinkOpensOnce
  <2> QED BY <1>4, <1>7, <1>8, <2>8, <2>9, <2>10 DEF AuthInv, Sound
(* A browser may pass. *)
<1>11. ASSUME q.result.ok, q.kind = "verify", sent' = sent,
              cookies' = {IF c.id = q.id THEN [c EXCEPT !.lastSeenAt = q.now] ELSE c : c \in cookies}
       PROVE  AuthInv'
  <2>1. Promised(q) /\ authFile = q.draft
    BY <1>1, <1>11 DEF AuthInv, AnswerInv
  <2>2. PICK s \in authFile.sessions : s.id = q.id /\ s.lastSeenAt >= q.now
    BY <1>11, <2>1 DEF Promised
  <2> DEFINE Seen(c) == IF c.id = q.id THEN [c EXCEPT !.lastSeenAt = q.now] ELSE c
  <2>3. q.now \in 0..MaxHours
    BY <1>1 DEF WellAsked, RequestStates
  <2>4. \A c \in cookies : /\ Seen(c) \in WebSessions /\ Seen(c).id = c.id /\ Seen(c).link = c.link
                           /\ Seen(c).expiresAt = c.expiresAt
                           /\ Seen(c).lastSeenAt = IF c.id = q.id THEN q.now ELSE c.lastSeenAt
    BY <1>1, <2>3 DEF WebSessions
  <2>5. cookies' = {Seen(c) : c \in cookies}
    BY <1>11
  <2> HIDE DEF Seen
  <2>6. \A t \in AuthRequests : WellAsked(request[t])'
    <3> TAKE t \in AuthRequests
    <3>1. CASE t = r
      BY <1>1, <1>2, <3>1 DEF WellAsked, NoRequest
    <3>2. CASE t # r
      <4>1. request[t].kind = "exchange" => \A c \in cookies' : c.id # request[t].id
        BY <1>1, <2>4, <2>5 DEF WellAsked
      <4>2. request[t].kind = "verify" => \E c \in cookies' : c.id = request[t].id
        BY <1>1, <2>4, <2>5 DEF WellAsked
      <4> QED BY <1>1, <1>2, <1>11, <3>2, <4>1, <4>2 DEF WellAsked
    <3> QED BY <3>1, <3>2
  <2>7. \A t, u \in AuthRequests :
          t # u /\ request'[t].kind = request'[u].kind /\ request'[t].kind \in {"issue", "exchange"}
            => request'[t].id # request'[u].id
    BY <1>1, <1>2 DEF NoRequest
  <2>8. cookies' \subseteq WebSessions
    BY <2>4, <2>5
  <2>9. TypesInv'
    BY <1>1, <1>2, <1>11, <2>8, <2>6, <2>7 DEF TypesInv
  <2>10. Keeps(authFile)'
    <3>1. ASSUME NEW c \in cookies PROVE \A l \in authFile.links : l.id = Seen(c).link => l.used
      BY <1>5, <2>4 DEF Keeps, Sound
    <3>2. ASSUME NEW c \in cookies PROVE \A k \in authFile.sessions : k.id = Seen(c).id => k.expiresAt = Seen(c).expiresAt
      BY <1>5, <2>4 DEF Keeps, Sound
    <3>3. ASSUME NEW c \in cookies, Alive(Seen(c), hour)
          PROVE  \E k \in authFile.sessions : k.id = Seen(c).id /\ k.lastSeenAt >= Seen(c).lastSeenAt
      <4>1. CASE c.id = q.id
        BY <2>2, <2>4, <4>1
      <4>2. CASE c.id # q.id
        <5>1. Alive(c, hour)
          BY <2>4, <3>3, <4>2 DEF Alive
        <5> QED BY <1>5, <2>4, <4>2, <5>1 DEF Keeps, Sound
      <4> QED BY <4>1, <4>2
    <3> QED BY <1>1, <2>5, <3>1, <3>2, <3>3 DEF Keeps
  <2>11. CookieInv'
    <3>1. LinkOpensOnce'
      BY <1>5, <2>4, <2>5 DEF CookieInv, LinkOpensOnce
    <3>2. \A c \in cookies' : c.id \in 1..count.exchanges /\ c.link \in sent
      BY <1>5, <2>4, <2>5 DEF CookieInv
    <3> QED BY <1>1, <1>11, <3>1, <3>2 DEF CookieInv
  <2> QED BY <1>4, <1>7, <1>8, <2>9, <2>10, <2>11 DEF AuthInv, Sound
<1>12. /\ sent' = IF q.result.ok /\ q.kind = "issue" THEN sent \cup {q.id} ELSE sent
       /\ q.result.ok /\ q.kind = "exchange" => cookies' = cookies \cup {Session(q)}
       /\ q.result.ok /\ q.kind = "verify" =>
            cookies' = {IF c.id = q.id THEN [c EXCEPT !.lastSeenAt = q.now] ELSE c : c \in cookies}
       /\ ~(q.result.ok /\ q.kind \in {"exchange", "verify"}) => cookies' = cookies
  BY DEF Answer
<1> HIDE DEF q
<1> QED BY <1>9, <1>10, <1>11, <1>12

-----------------------------------------------------------------------------
(* Time and restarts *)

LEMMA HourKeeps ==
    ASSUME AuthInv, HourPasses
    PROVE  AuthInv'
<1>1. /\ UNCHANGED <<authFile, line, request, sent, cookies, count>>
      /\ hour \in 0..MaxHours /\ hour' = hour + 1 /\ hour' \in 0..MaxHours /\ MaxHours \in Nat
      /\ request \in [AuthRequests -> RequestStates] /\ cookies \subseteq WebSessions
      /\ authFile \in AuthFiles
  BY AuthBounds DEF HourPasses, AuthInv, TypesInv
<1>2. TypesInv'
  <2>1. \A r \in AuthRequests : WellAsked(request[r])'
    <3> TAKE r \in AuthRequests
    <3>1. WellAsked(request[r]) /\ request[r].now \in Nat
      BY <1>1 DEF AuthInv, TypesInv, RequestStates
    <3> QED BY <1>1, <3>1 DEF WellAsked
  <2> QED BY <1>1, <2>1 DEF AuthInv, TypesInv
<1>3. LineInv'
  BY <1>1 DEF AuthInv, LineInv, IsNext
<1>4. ASSUME NEW f \in AuthFiles, Sound(f) PROVE Keeps(f)' /\ Lags(f)'
  <2>1. ASSUME NEW c \in cookies, Alive(c, hour + 1) PROVE Alive(c, hour)
    BY <1>1, <2>1, LivesBefore DEF WebSessions
  <2>2. Keeps(f)'
    BY <1>1, <1>4, <2>1 DEF Sound, Keeps
  <2>3. \A s \in f.sessions : s.lastSeenAt \in Int
    BY DEF AuthFiles, WebSessions
  <2>4. Lags(f)'
    BY <1>1, <1>4, <2>3 DEF Sound, Lags
  <2> QED BY <2>2, <2>4
<1>5. FileInv'
  <2>1. Sound(authFile)'
    <3>1. Sound(authFile)
      BY DEF AuthInv, FileInv
    <3> QED BY <1>1, <1>4, <3>1 DEF Sound, Keeps, Lags
  <2>2. ASSUME NEW r \in AuthRequests, request[r].at = "writing" PROVE Sound(request[r].draft)'
    <3>1. Sound(request[r].draft) /\ request[r].draft \in AuthFiles
      BY <1>1, <2>2 DEF AuthInv, FileInv, RequestStates
    <3> QED BY <1>1, <1>4, <3>1 DEF Sound, Keeps, Lags
  <2> QED BY <1>1, <2>1, <2>2 DEF FileInv
<1>6. AnswerInv' /\ CookieInv'
  BY <1>1 DEF AuthInv, AnswerInv, Promised, CookieInv, LinkOpensOnce
<1> QED BY <1>2, <1>3, <1>5, <1>6 DEF AuthInv

LEMMA NobodyAsks == NoRequest \in RequestStates /\ NoRequest.at = "idle" /\ NoRequest.kind = "none"
BY DEF NoRequest, RequestStates, AuthFiles, Refusal

LEMMA RestartKeeps ==
    ASSUME AuthInv, BotRestarts
    PROVE  AuthInv'
<1>1. /\ UNCHANGED <<hour, authFile, sent, cookies>>
      /\ line' = <<>> /\ request' = [r \in AuthRequests |-> NoRequest]
      /\ count' \in [links : 0..MaxLinks, exchanges : 0..MaxExchanges, faults : 0..MaxAuthFaults]
      /\ count'.links = count.links /\ count'.exchanges = count.exchanges
  BY AuthBounds DEF BotRestarts, AuthInv, TypesInv
<1>2. /\ request' \in [AuthRequests -> RequestStates]
      /\ \A r \in AuthRequests : request'[r].at = "idle" /\ request'[r].kind = "none" /\ request'[r] = NoRequest
  BY <1>1, NobodyAsks
<1>3. hour \in 0..MaxHours /\ MaxHours \in Nat
  BY AuthBounds DEF AuthInv, TypesInv
<1>4. \A r \in AuthRequests : WellAsked(request[r])'
  <2>1. NoRequest.now <= hour
    BY <1>3 DEF NoRequest
  <2> QED BY <1>1, <1>2, <2>1 DEF WellAsked
<1>5. TypesInv'
  BY <1>1, <1>2, <1>4 DEF AuthInv, TypesInv
<1>6. LineInv'
  <2>1. <<>> \in Seq(AuthRequests) /\ Len(<<>>) = 0
    BY EmptySeq
  <2>2. IsInjective(<<>>) /\ \A r : r \notin ToSet(<<>>)
    <3>1. \A i : i \notin 1..Len(<<>>)
      BY <2>1
    <3>2. ToSet(<<>>) = {} /\ IsInjective(<<>>)
      BY <2>1, <3>1, DOMAIN <<>> = {} DEF ToSet, IsInjective
    <3> QED BY <3>2
  <2> QED BY <1>1, <1>2, <2>1, <2>2 DEF LineInv
<1>7. Sound(authFile)'
  <2>1. Sound(authFile)
    BY DEF AuthInv, FileInv
  <2> QED BY <1>1, <1>2, <2>1 DEF Sound, Keeps, Lags
<1>8. FileInv' /\ AnswerInv'
  BY <1>2, <1>7 DEF FileInv, AnswerInv
<1>9. CookieInv'
  BY <1>1 DEF AuthInv, CookieInv, LinkOpensOnce
<1> QED BY <1>5, <1>6, <1>8, <1>9 DEF AuthInv

LEMMA AuthStarts == ASSUME AuthInit PROVE AuthInv
<1>1. /\ hour = 0 /\ sent = {} /\ cookies = {} /\ line = <<>>
      /\ authFile = [links |-> {}, sessions |-> {}]
      /\ request = [r \in AuthRequests |-> NoRequest]
      /\ count = [links |-> 0, exchanges |-> 0, faults |-> 0]
      /\ MaxHours \in Nat /\ MaxLinks \in Nat /\ MaxExchanges \in Nat /\ MaxAuthFaults \in Nat
  BY AuthBounds DEF AuthInit
<1>2. /\ request \in [AuthRequests -> RequestStates]
      /\ \A r \in AuthRequests : request[r].at = "idle" /\ request[r].kind = "none" /\ request[r] = NoRequest
  BY <1>1, NobodyAsks
<1>3. \A r \in AuthRequests : WellAsked(request[r])
  BY <1>1, <1>2 DEF WellAsked, NoRequest
<1>4. TypesInv
  BY <1>1, <1>2, <1>3 DEF TypesInv, AuthFiles
<1>5. LineInv
  <2>1. <<>> \in Seq(AuthRequests) /\ Len(<<>>) = 0
    BY EmptySeq
  <2>2. IsInjective(<<>>) /\ \A r : r \notin ToSet(<<>>)
    <3>1. \A i : i \notin 1..Len(<<>>)
      BY <2>1
    <3>2. ToSet(<<>>) = {} /\ IsInjective(<<>>)
      BY <2>1, <3>1, DOMAIN <<>> = {} DEF ToSet, IsInjective
    <3> QED BY <3>2
  <2> QED BY <1>1, <1>2, <2>1, <2>2 DEF LineInv
<1>6. FileInv /\ AnswerInv /\ CookieInv
  BY <1>1, <1>2 DEF FileInv, Sound, Keeps, Lags, AnswerInv, CookieInv, LinkOpensOnce
<1> QED BY <1>4, <1>5, <1>6 DEF AuthInv

-----------------------------------------------------------------------------

LEMMA AuthHolds == AuthSpec => []AuthInv
<1>1. AuthInit => AuthInv
  BY AuthStarts
<1>2. AuthInv /\ [AuthNext]_auth => AuthInv'
  <2> SUFFICES ASSUME AuthInv, [AuthNext]_auth PROVE AuthInv'
    OBVIOUS
  <2>1. CASE HourPasses
    BY <2>1, HourKeeps
  <2>2. CASE BotRestarts
    BY <2>2, RestartKeeps
  <2>3. ASSUME NEW r \in AuthRequests, IssueMagicLink(r) PROVE AuthInv'
    BY <2>3, IssueKeeps
  <2>4. ASSUME NEW r \in AuthRequests, Operate(r) PROVE AuthInv'
    BY <2>4, OperateKeeps
  <2>5. ASSUME NEW r \in AuthRequests, WriteState(r) \/ WriteFails(r) PROVE AuthInv'
    BY <2>5, WriteKeeps
  <2>6. ASSUME NEW r \in AuthRequests, Answer(r) PROVE AuthInv'
    BY <2>6, AnswerKeeps
  <2>7. ASSUME NEW r \in AuthRequests, NEW d \in Devices,
               \/ \E l \in 1..MaxLinks : ExchangeMagicLink(r, l, d)
               \/ \E c \in cookies : VerifySession(r, c, d)
        PROVE AuthInv'
    BY <2>7, AskingKeeps
  <2>8. CASE UNCHANGED auth
    BY <2>8 DEF auth, AuthInv, TypesInv, LineInv, FileInv, AnswerInv, CookieInv, WellAsked, Sound, Keeps,
                Lags, Promised, LinkOpensOnce, IsNext
  <2> QED BY <2>1, <2>2, <2>3, <2>4, <2>5, <2>6, <2>7, <2>8 DEF AuthNext
<1> QED BY <1>1, <1>2, PTL DEF AuthSpec

(* withLockedState: exchanges of one link that run side by side, a failing *)
(* write or a restart of the bot sign in one browser at most, and a        *)
(* browser that has its cookie keeps its session, and its last check, in   *)
(* the file for as long as it is alive.                                    *)
THEOREM SignInsAreKept == AuthSpec => []SignInIsKept
<1>1. AuthInv => SignInIsKept
  BY DEF AuthInv, CookieInv, FileInv, Sound, Keeps, SignInIsKept, StaysSignedIn
<1> QED BY <1>1, AuthHolds, PTL

(* No operation that waits has acted: the file is read, changed and        *)
(* replaced by the operation at the head of operationQueue alone.          *)
THEOREM OneOperationActs ==
    AuthSpec => [](\A r, t \in AuthRequests :
                     request[r].at \in {"writing", "settled"} /\ request[t].at \in {"writing", "settled"} => r = t)
<1>1. AuthInv => \A r, t \in AuthRequests :
        request[r].at \in {"writing", "settled"} /\ request[t].at \in {"writing", "settled"} => r = t
  BY DEF AuthInv, LineInv, IsNext
<1> QED BY <1>1, AuthHolds, PTL

-----------------------------------------------------------------------------
(* Messages to the bot *)

Dealt == [kind : {"text", "voice", "slash"},
          at : {"settings", "status", "transcribe", "edit", "bind", "submit", "resolve", "sync", "resolve again",
                "command", "telling", "over"},
          by : {"nobody", "reply", "call", "handler", "guard"},
          done : BOOLEAN, told : BOOLEAN, refused : BOOLEAN, lost : BOOLEAN]

(* Whoever tells the admin is somebody, and who is through has an outcome. *)
Accounted(t) ==
    /\ t.at = "telling" => t.by # "nobody"
    /\ t.at = "over" => t.done \/ t.told \/ t.refused \/ t.lost

DealtInv == tasks \in Seq(Dealt) /\ \A d \in DOMAIN tasks : Accounted(tasks[d])

(* The voice's path goes on to its next call. *)
LEMMA PathGoesOn ==
    ASSUME NEW at \in {"settings", "status", "transcribe", "edit", "bind"}
    PROVE  After(at) \in {"status", "transcribe", "edit", "bind", "submit"}
<1> DEFINE k == CHOOSE k \in DOMAIN VoicePath : k > 1 /\ VoicePath[k - 1] = at
<1>1. DOMAIN VoicePath = 1 .. 6
  BY DEF VoicePath
<1>2. \E j \in 1 .. 6 : j > 1 /\ VoicePath[j - 1] = at
  <2>1. CASE at = "settings"
    BY <2>1, 2 > 1 /\ VoicePath[2 - 1] = at DEF VoicePath
  <2>2. CASE at = "status"
    BY <2>2, 3 > 1 /\ VoicePath[3 - 1] = at DEF VoicePath
  <2>3. CASE at = "transcribe"
    BY <2>3, 4 > 1 /\ VoicePath[4 - 1] = at DEF VoicePath
  <2>4. CASE at = "edit"
    BY <2>4, 5 > 1 /\ VoicePath[5 - 1] = at DEF VoicePath
  <2>5. CASE at = "bind"
    BY <2>5, 6 > 1 /\ VoicePath[6 - 1] = at DEF VoicePath
  <2> QED BY <2>1, <2>2, <2>3, <2>4, <2>5
<1>3. k \in 1 .. 6 /\ k > 1
  BY <1>1, <1>2
<1>4. k \in 2 .. 6
  BY <1>3
<1>5. After(at) = VoicePath[k]
  BY DEF After
<1> HIDE DEF k
<1> QED BY <1>4, <1>5 DEF VoicePath

(* One message's path changes. *)
LEMMA TaskMoves ==
    ASSUME DealtInv, NEW d \in DOMAIN tasks, NEW t \in Dealt, Accounted(t),
           tasks' = [tasks EXCEPT ![d] = t]
    PROVE  DealtInv'
BY DEF DealtInv

LEMMA TaskTurn ==
    ASSUME DealtInv, NEW d \in DOMAIN tasks,
           \/ CallSucceeds(d) \/ CallFails(d) \/ NotConfigured(d) \/ Submitted(d) \/ SubmitFails(d)
           \/ Told(d) \/ TellingFails(d) \/ HandlerTimesOut(d)
           \/ Resolves(d) \/ UnknownAtFirst(d) \/ SyncsAgain(d) \/ Unknown(d)
    PROVE  DealtInv'
<1>0. tasks[d] \in Dealt /\ Accounted(tasks[d])
  BY DEF DealtInv
<1> USE <1>0 DEF Dealt
<1>1. CASE CallSucceeds(d)
  <2> DEFINE at == IF tasks[d].at = "bind" /\ tasks[d].kind = "slash" THEN "command" ELSE After(tasks[d].at)
             t == [tasks[d] EXCEPT !.at = at]
  <2>1. at \in {"status", "transcribe", "edit", "bind", "submit", "command"}
    BY <1>1, PathGoesOn DEF CallSucceeds
  <2>2. tasks' = [tasks EXCEPT ![d] = t]
    BY <1>1 DEF CallSucceeds
  <2> HIDE DEF at
  <2>3. t \in Dealt /\ Accounted(t)
    BY <2>1 DEF Accounted
  <2> HIDE DEF t, Dealt
  <2> QED BY <2>2, <2>3, TaskMoves
<1>2. CASE CallFails(d) \/ SubmitFails(d)
  <2>1. PICK reached \in BOOLEAN : Caught(d, reached)
    BY <1>2 DEF CallFails, SubmitFails
  <2> DEFINE by == Teller(tasks[d])
             done == tasks[d].done \/ reached
             t == [tasks[d] EXCEPT !.by = by, !.done = done, !.at = "telling"]
  <2>2. by \in {"call", "handler", "guard"}
    BY DEF Teller
  <2>3. tasks' = [tasks EXCEPT ![d] = t]
    BY <2>1, <2>2 DEF Caught
  <2>4. done \in BOOLEAN
    OBVIOUS
  <2> HIDE DEF by, done
  <2>5. t \in Dealt /\ Accounted(t)
    BY <2>2, <2>4 DEF Accounted
  <2> HIDE DEF t, Dealt
  <2> QED BY <2>3, <2>5, TaskMoves
<1>3. CASE NotConfigured(d) \/ Unknown(d)
  <2> DEFINE t == [tasks[d] EXCEPT !.at = "telling", !.by = "reply"]
  <2>1. tasks' = [tasks EXCEPT ![d] = t]
    BY <1>3 DEF NotConfigured, Unknown
  <2>2. t \in Dealt /\ Accounted(t)
    BY DEF Accounted
  <2> HIDE DEF t, Dealt
  <2> QED BY <2>1, <2>2, TaskMoves
<1>4. CASE Submitted(d)
  <2> DEFINE t == [tasks[d] EXCEPT !.at = "over", !.done = TRUE]
  <2>1. tasks' = [tasks EXCEPT ![d] = t]
    BY <1>4 DEF Submitted
  <2>2. t \in Dealt /\ Accounted(t)
    BY DEF Accounted
  <2> HIDE DEF t, Dealt
  <2> QED BY <2>1, <2>2, TaskMoves
<1>5. CASE Told(d)
  <2> DEFINE t == [tasks[d] EXCEPT !.at = "over", !.told = TRUE, !.by = "nobody"]
  <2>1. tasks' = [tasks EXCEPT ![d] = t]
    BY <1>5 DEF Told
  <2>2. t \in Dealt /\ Accounted(t)
    BY DEF Accounted
  <2> HIDE DEF t, Dealt
  <2> QED BY <2>1, <2>2, TaskMoves
<1>6. CASE TellingFails(d)
  <2> DEFINE by == NextTeller(tasks[d])
             refused == (by = "nobody")
             at == IF by = "nobody" THEN "over" ELSE "telling"
             t == [tasks[d] EXCEPT !.by = by, !.refused = refused, !.at = at]
  <2>1. by \in {"nobody", "handler", "guard"}
    BY DEF NextTeller
  <2>2. tasks' = [tasks EXCEPT ![d] = t]
    BY <1>6 DEF TellingFails
  <2>3. refused \in BOOLEAN /\ at \in {"over", "telling"} /\ (at = "over" => refused) /\ (at = "telling" => by # "nobody")
    OBVIOUS
  <2> HIDE DEF by, refused, at
  <2>4. t \in Dealt /\ Accounted(t)
    BY <2>1, <2>3 DEF Accounted
  <2> HIDE DEF t, Dealt
  <2> QED BY <2>2, <2>4, TaskMoves
<1>7. CASE HandlerTimesOut(d)
  <2> DEFINE t == [tasks[d] EXCEPT !.told = TRUE]
  <2>1. tasks' = [tasks EXCEPT ![d] = t]
    BY <1>7 DEF HandlerTimesOut
  <2>2. t \in Dealt /\ Accounted(t)
    BY DEF Accounted
  <2> HIDE DEF t, Dealt
  <2> QED BY <2>1, <2>2, TaskMoves
<1>8. CASE Resolves(d) \/ UnknownAtFirst(d) \/ SyncsAgain(d)
  <2>1. PICK at \in {"bind", "sync", "resolve again"} : Goto(d, at)
    BY <1>8 DEF Resolves, UnknownAtFirst, SyncsAgain
  <2> DEFINE t == [tasks[d] EXCEPT !.at = at]
  <2>2. tasks' = [tasks EXCEPT ![d] = t]
    BY <2>1 DEF Goto
  <2>3. t \in Dealt /\ Accounted(t)
    BY DEF Accounted
  <2> HIDE DEF t, Dealt
  <2> QED BY <2>2, <2>3, TaskMoves
<1> QED BY <1>1, <1>2, <1>3, <1>4, <1>5, <1>6, <1>7, <1>8

LEMMA MessagesStart == ASSUME PromptsInit PROVE DealtInv
BY DEF PromptsInit, DealtInv

LEMMA MessagesStep == ASSUME DealtInv, [PromptsNext]_prompts PROVE DealtInv'
<1>1. ASSUME NEW kind \in MessageKinds, Receive(kind) PROVE DealtInv'
  <2> DEFINE t == Task(kind)
  <2>1. kind \in {"text", "voice", "slash"}
    BY PromptKinds
  <2>2. First(kind) \in {"bind", "settings", "resolve"}
    BY <2>1 DEF First
  <2>3. t \in Dealt /\ Accounted(t)
    BY <2>1, <2>2 DEF Task, Dealt, Accounted
  <2>4. tasks' = Append(tasks, t)
    BY <1>1 DEF Receive
  <2> HIDE DEF t
  <2> QED BY <2>3, <2>4 DEF DealtInv
<1>2. CASE BotCrashes
  <2> DEFINE q(d) == [tasks[d] EXCEPT !.lost = @ \/ tasks[d].at # "over", !.at = "over", !.by = "nobody"]
  <2>1. ASSUME NEW d \in DOMAIN tasks PROVE q(d) \in Dealt /\ Accounted(q(d))
    <3> DEFINE lost == tasks[d].lost \/ tasks[d].at # "over"
               t == [tasks[d] EXCEPT !.lost = lost, !.at = "over", !.by = "nobody"]
    <3>1. tasks[d] \in Dealt /\ Accounted(tasks[d])
      BY <2>1 DEF DealtInv
    <3>2. lost \in BOOLEAN /\ (tasks[d].at # "over" => lost) /\ (tasks[d].lost => lost)
      BY <3>1 DEF Dealt
    <3>3. q(d) = t
      OBVIOUS
    <3> HIDE DEF lost
    <3>4. t \in Dealt
      BY <3>1, <3>2 DEF Dealt
    <3>5. Accounted(t)
      BY <3>1, <3>2 DEF Dealt, Accounted
    <3> QED BY <3>3, <3>4, <3>5
  <2>2. tasks' = [d \in DOMAIN tasks |-> q(d)]
    BY <1>2 DEF BotCrashes
  <2> HIDE DEF q
  <2> QED BY <2>1, <2>2 DEF DealtInv
<1>3. CASE tasks' = tasks
  BY <1>3 DEF DealtInv
<1>4. CASE PeriodicSyncAsks \/ PeriodicSyncEnds \/ CatalogChanges \/ UNCHANGED prompts
  BY <1>3, <1>4 DEF PeriodicSyncAsks, PeriodicSyncEnds, CatalogChanges, prompts
<1> QED BY <1>1, <1>2, <1>4, TaskTurn DEF PromptsNext

LEMMA NobodySilent == ASSUME DealtInv PROVE NothingSwallowed
BY DEF DealtInv, Accounted, NothingSwallowed

-----------------------------------------------------------------------------
(* Drafts of tasks *)

Wishes == [id : Nat, slug : Keys, text : SUBSET TypedWords, kind : {"create", "move"},
           done : BOOLEAN, early : BOOLEAN, lost : BOOLEAN]

Pens == [words : Nat, erased : SUBSET TypedWords, copied : SUBSET TypedWords,
         asks : Nat, faults : Nat, turns : Nat]

(* An open form shows what is stored for its project, a shut one nothing.  *)
FormInv ==
    /\ active \in Keys
    /\ modal \in [open : BOOLEAN, slug : Keys, text : SUBSET TypedWords]
    /\ stored \in [Keys -> SUBSET TypedWords]
    /\ modal.text \subseteq stored[modal.slug]
    /\ modal.open => modal.text = stored[modal.slug]
    /\ pen \in Pens
    /\ writes \subseteq Wishes /\ made \subseteq Wishes

LEMMA FormStarts == ASSUME DraftsInit PROVE FormInv
<1>1. active \in Keys
  BY DraftBounds DEF DraftsInit, Keys
<1> QED BY <1>1 DEF DraftsInit, FormInv, Shut, Keys, Pens

(* What a form that is filled in leaves. *)
LEMMA FillsKeeps ==
    ASSUME FormInv, NEW s \in Keys, NEW text \in SUBSET TypedWords, Fills(s, text)
    PROVE  /\ modal' \in [open : BOOLEAN, slug : Keys, text : SUBSET TypedWords]
           /\ stored' \in [Keys -> SUBSET TypedWords]
           /\ modal'.text = stored'[modal'.slug]
           /\ modal'.text = text /\ stored'[s] = text
           /\ \A k \in Keys \ {s} : stored'[k] = stored[k]
BY DEF Fills, FormInv

LEMMA FormTurns ==
    ASSUME FormInv, OpenCreate \/ Types \/ Closes \/ (\E s \in DraftSlugs : ActiveMoves(s))
                       \/ (\E s \in Keys : Retarget(s)) \/ (\E w \in TypedWords : Erases(w))
    PROVE  FormInv' /\ \A w \in TypedWords : IsKept(w) /\ ~IsKept(w)' => w \in pen'.erased
<1>1. /\ modal.text \in SUBSET TypedWords /\ modal.slug \in Keys
      /\ \A s \in Keys : stored[s] \in SUBSET TypedWords
  BY DEF FormInv
<1>2. CASE Closes
  BY <1>1, <1>2 DEF Closes, FormInv, Shut, IsKept, Keys
<1>3. ASSUME NEW s \in Keys, NEW text \in SUBSET TypedWords, Fills(s, text), active' \in Keys,
             pen' \in Pens, UNCHANGED <<writes, made>>,
             \A w \in stored[s] \cup (IF s = modal.slug THEN modal.text ELSE {}) : w \in text \cup pen'.erased
      PROVE  FormInv' /\ \A w \in TypedWords : IsKept(w) /\ ~IsKept(w)' => w \in pen'.erased
  <2>1. FormInv'
    BY <1>3, FillsKeeps DEF FormInv
  <2>2. ASSUME NEW w \in TypedWords, IsKept(w), ~IsKept(w)', w \notin pen'.erased PROVE FALSE
    <3>1. PICK k \in Keys : w \in stored[k]
      BY <1>1, <1>3, <2>2 DEF IsKept, FormInv
    <3> QED BY <1>3, <2>2, <3>1, FillsKeeps DEF IsKept
  <2> QED BY <2>1, <2>2
<1>4. CASE OpenCreate
  <2>1. /\ Fills(active, stored[active]) /\ active' = active /\ UNCHANGED <<writes, made>>
        /\ pen' = [pen EXCEPT !.turns = @ + 1]
    BY <1>4 DEF OpenCreate, TurnsPage
  <2>2. active \in Keys /\ pen' \in Pens
    BY <2>1 DEF FormInv, Pens
  <2>3. modal.text \subseteq stored[modal.slug]
    BY DEF FormInv
  <2> QED BY <1>1, <1>3, <2>1, <2>2, <2>3 DEF FormInv
<1>5. ASSUME NEW s \in DraftSlugs, ActiveMoves(s)
      PROVE  FormInv' /\ \A w \in TypedWords : IsKept(w) /\ ~IsKept(w)' => w \in pen'.erased
  <2>1. s \in Keys /\ active' = s /\ UNCHANGED <<writes, made>> /\ pen' \in Pens
    <3>1. s \in Keys /\ active' = s /\ UNCHANGED <<writes, made>> /\ pen' = [pen EXCEPT !.turns = @ + 1]
      BY <1>5 DEF ActiveMoves, TurnsPage, Keys
    <3> QED BY <3>1 DEF FormInv, Pens
  <2>2. CASE modal.open
    <3>1. Fills(s, stored[s])
      BY <1>5, <2>2 DEF ActiveMoves
    <3>2. modal.text \subseteq stored[modal.slug]
      BY DEF FormInv
    <3> QED BY <1>1, <1>3, <2>1, <3>1, <3>2
  <2>3. CASE ~modal.open
    <3>1. UNCHANGED <<modal, stored>>
      BY <1>5, <2>3 DEF ActiveMoves
    <3> QED BY <2>1, <3>1 DEF FormInv, IsKept
  <2> QED BY <2>2, <2>3
<1>6. ASSUME NEW s \in Keys, Retarget(s)
      PROVE  FormInv' /\ \A w \in TypedWords : IsKept(w) /\ ~IsKept(w)' => w \in pen'.erased
  <2> DEFINE text == IF stored[s] = {} THEN modal.text ELSE stored[s]
  <2>1. s # modal.slug /\ Fills(s, text) /\ active' = active /\ UNCHANGED <<writes, made>>
    BY <1>6 DEF Retarget
  <2>2. pen' \in Pens
    <3> DEFINE copied == IF stored[s] = {} THEN pen.copied \cup modal.text ELSE pen.copied
    <3>1. copied \in SUBSET TypedWords /\ pen \in Pens
      BY <1>1 DEF FormInv, Pens
    <3>2. pen' = [pen EXCEPT !.turns = @ + 1, !.copied = copied]
      BY <1>6 DEF Retarget
    <3> HIDE DEF copied
    <3>3. pen.turns + 1 \in Nat
      BY <3>1 DEF Pens
    <3> QED BY <3>1, <3>2, <3>3 DEF Pens
  <2>3. text \in SUBSET TypedWords /\ stored[s] \subseteq text
    BY <1>1
  <2> HIDE DEF text
  <2> QED BY <1>3, <2>1, <2>2, <2>3 DEF FormInv
<1>7. CASE Types
  <2> DEFINE text == modal.text \cup {pen.words + 1}
  <2>1. Fills(modal.slug, text) /\ active' = active /\ UNCHANGED <<writes, made>>
    BY <1>7 DEF Types
  <2>2. pen' \in Pens
    <3>1. pen \in Pens /\ pen' = [pen EXCEPT !.words = @ + 1]
      BY <1>7 DEF Types, FormInv
    <3> QED BY <3>1 DEF Pens
  <2>3. pen.words + 1 \in TypedWords
    <3>1. MaxWords \in Nat /\ pen.words \in Nat /\ pen.words < MaxWords
      BY <1>7, DraftBounds DEF Types, FormInv, Pens
    <3> QED BY <3>1 DEF TypedWords
  <2>4. text \in SUBSET TypedWords /\ modal.text \subseteq text
    BY <1>1, <2>3
  <2>5. stored[modal.slug] \subseteq text
    BY <1>7 DEF FormInv, Types
  <2> HIDE DEF text
  <2> QED BY <1>1, <1>3, <2>1, <2>2, <2>4, <2>5 DEF FormInv
<1>8. ASSUME NEW e \in TypedWords, Erases(e)
      PROVE  FormInv' /\ \A w \in TypedWords : IsKept(w) /\ ~IsKept(w)' => w \in pen'.erased
  <2>1. Fills(modal.slug, modal.text \ {e}) /\ active' = active /\ UNCHANGED <<writes, made>>
    BY <1>8 DEF Erases
  <2>2. pen' \in Pens /\ e \in pen'.erased
    <3> DEFINE erased == pen.erased \cup {e}
    <3>1. erased \in SUBSET TypedWords /\ pen \in Pens /\ e \in erased
      BY DEF FormInv, Pens
    <3>2. pen' = [pen EXCEPT !.erased = erased]
      BY <1>8 DEF Erases
    <3> HIDE DEF erased
    <3> QED BY <3>1, <3>2 DEF Pens
  <2>3. active \in Keys /\ UNCHANGED <<writes, made>> /\ stored[modal.slug] = modal.text
    BY <1>8 DEF FormInv, Erases
  <2>4. \A w \in stored[modal.slug] \cup modal.text : w \in (modal.text \ {e}) \cup pen'.erased
    BY <2>2, <2>3
  <2>5. modal.text \ {e} \in SUBSET TypedWords
    BY <1>1
  <2> QED BY <1>1, <1>3, <2>1, <2>2, <2>3, <2>4, <2>5
<1> QED BY <1>2, <1>4, <1>5, <1>6, <1>7, <1>8

(* What the board's requests leave of the form. *)
LEMMA FormRequests ==
    ASSUME FormInv, Submits \/ Drags \/ \E j \in writes : Makes(j) \/ WriteAnswered(j) \/ Fails(j)
    PROVE  /\ FormInv'
           /\ \A w \in TypedWords : IsKept(w) /\ ~IsKept(w)' =>
                 \E j \in writes : /\ j.kind = "create" /\ j.done /\ pen' = pen
                                  /\ w \in stored[""] \cup stored[j.slug]
<1>1. /\ modal.text \in SUBSET TypedWords /\ modal.slug \in Keys /\ "" \in Keys /\ pen \in Pens
      /\ \A s \in Keys : stored[s] \in SUBSET TypedWords
  BY DEF FormInv, Keys
<1>0. pen.asks + 1 \in Nat /\ pen.faults + 1 \in Nat
  <2>1. pen \in Pens
    BY DEF FormInv
  <2> QED BY <2>1 DEF Pens
<1>2. ASSUME NEW r \in Wishes, Mutates(r), UNCHANGED <<active, modal, stored, made>>
      PROVE  FormInv' /\ \A w \in TypedWords : IsKept(w) => IsKept(w)'
  <2>1. pen' \in Pens /\ writes' \subseteq Wishes
    <3>1. pen' = [pen EXCEPT !.asks = @ + 1] /\ writes' = writes \cup {r} /\ writes \subseteq Wishes
      BY <1>2 DEF Mutates, FormInv
    <3>2. pen.asks + 1 \in Nat
      BY <1>0
    <3>3. pen' \in Pens
      <4>1. pen \in Pens
        BY <1>1
      <4> QED BY <3>1, <3>2, <4>1 DEF Pens
    <3> QED BY <3>1, <3>3
  <2> QED BY <1>2, <2>1 DEF FormInv, IsKept
<1>3. CASE Submits
  <2>1. AWrite("create", modal.slug, modal.text) \in Wishes
    <3>1. pen.asks + 1 \in Nat
      BY <1>0
    <3>2. modal.text \in SUBSET TypedWords /\ modal.slug \in Keys
      BY <1>1
    <3> QED BY <3>1, <3>2 DEF AWrite, Wishes
  <2> QED BY <1>2, <1>3, <2>1 DEF Submits
<1>4. CASE Drags
  <2>1. AWrite("move", "", {}) \in Wishes
    <3>1. pen.asks + 1 \in Nat
      BY <1>0
    <3>2. {} \in SUBSET TypedWords /\ "" \in Keys
      BY <1>1
    <3> QED BY <3>1, <3>2 DEF AWrite, Wishes
  <2> QED BY <1>2, <1>4, <2>1 DEF Drags
<1>5. ASSUME NEW j \in writes, Makes(j) PROVE FormInv' /\ \A w \in TypedWords : IsKept(w) => IsKept(w)'
  <2>1. [j EXCEPT !.done = TRUE] \in Wishes
    BY DEF FormInv, Wishes
  <2>2. /\ writes' \subseteq Wishes /\ made \subseteq made' /\ made' \subseteq Wishes
        /\ UNCHANGED <<active, modal, stored, pen>>
    BY <1>5, <2>1 DEF Makes, FormInv
  <2> QED BY <2>2 DEF FormInv, IsKept
<1>6. ASSUME NEW j \in writes, NEW faulty \in BOOLEAN, WriteSettles(j), Remembers(j, faulty)
      PROVE  /\ writes' \subseteq Wishes /\ made' \subseteq Wishes
             /\ \A w \in TypedWords : (\E k \in made : w \in k.text) => (\E k \in made' : w \in k.text)
  <2>1. j \in Wishes /\ writes \subseteq Wishes /\ made \subseteq Wishes
    BY DEF FormInv
  <2>2. writes' \subseteq Wishes
    <3>1. \A k \in Wishes : [k EXCEPT !.early = TRUE] \in Wishes
      BY DEF Wishes
    <3> QED BY <1>6, <2>1, <3>1 DEF WriteSettles
  <2> DEFINE kept(k) == IF k.id = j.id THEN [k EXCEPT !.early = j.early, !.lost = faulty] ELSE k
  <2>3. \A k \in Wishes : kept(k) \in Wishes /\ kept(k).text = k.text
    <3> TAKE k \in Wishes
    <3> DEFINE x == [k EXCEPT !.early = j.early, !.lost = faulty]
    <3>0. x = [k EXCEPT !.early = j.early, !.lost = faulty]
      OBVIOUS
    <3> HIDE DEF x
    <3>1. x \in Wishes /\ x.text = k.text
      BY <2>1, <3>0 DEF Wishes
    <3> QED BY <3>1 DEF x
  <2>4. made' = {kept(k) : k \in made}
    BY <1>6 DEF Remembers
  <2> HIDE DEF kept
  <2>5. made' \subseteq Wishes
    BY <2>1, <2>3, <2>4
  <2>6. ASSUME NEW w \in TypedWords, NEW k \in made, w \in k.text PROVE \E l \in made' : w \in l.text
    BY <2>1, <2>3, <2>4, <2>6
  <2> QED BY <2>2, <2>5, <2>6
<1>7. ASSUME NEW j \in writes, WriteSettles(j), Remembers(j, FALSE) \/ Remembers(j, TRUE),
             UNCHANGED <<active, stored, modal>>, pen' \in Pens
      PROVE  FormInv' /\ \A w \in TypedWords : IsKept(w) => IsKept(w)'
  BY <1>6, <1>7 DEF FormInv, IsKept
<1>8. ASSUME NEW j \in writes, Fails(j) PROVE FormInv' /\ \A w \in TypedWords : IsKept(w) => IsKept(w)'
  <2>1. pen' \in Pens
    <3>1. pen.faults + 1 \in Nat /\ pen' = [pen EXCEPT !.faults = @ + 1]
      BY <1>0, <1>8 DEF Fails
    <3>2. pen \in Pens
      BY <1>1
    <3> QED BY <3>1, <3>2 DEF Pens
  <2> QED BY <1>7, <1>8, <2>1 DEF Fails, Forgets
<1>9. ASSUME NEW j \in writes, WriteAnswered(j)
      PROVE  /\ FormInv'
             /\ \A w \in TypedWords : IsKept(w) /\ ~IsKept(w)' =>
                   j.kind = "create" /\ j.done /\ pen' = pen /\ w \in stored[""] \cup stored[j.slug]
  <2>1. CASE j.kind # "create"
    BY <1>1, <1>7, <1>9, <2>1 DEF WriteAnswered, Forgets
  <2>2. CASE j.kind = "create"
    <3>1. /\ stored' = [s \in Keys |-> IF s \in {j.slug, ""} THEN {} ELSE stored[s]]
          /\ modal' = Shut /\ UNCHANGED <<active, pen>> /\ j.done
      BY <1>9, <2>2 DEF WriteAnswered, Forgets
    <3>2. FormInv'
      BY <1>1, <1>6, <1>9, <3>1 DEF WriteAnswered, FormInv, Shut
    <3>3. ASSUME NEW w \in TypedWords, IsKept(w), ~IsKept(w)' PROVE w \in stored[""] \cup stored[j.slug]
      <4>1. PICK s \in Keys : w \in stored[s]
        BY <1>1, <1>6, <1>9, <3>3 DEF IsKept, WriteAnswered, FormInv
      <4> QED BY <3>1, <3>3, <4>1 DEF IsKept
    <3> QED BY <2>2, <3>1, <3>2, <3>3
  <2> QED BY <2>1, <2>2
<1> QED BY <1>3, <1>4, <1>5, <1>8, <1>9

THEOREM DraftsAreKept == DraftsInit /\ [][DraftsNext]_drafts => DraftsSurvive
<1>1. DraftsInit => FormInv
  BY FormStarts
<1>2. FormInv /\ [DraftsNext]_drafts => FormInv'
  BY FormTurns, FormRequests DEF DraftsNext, drafts, FormInv
<1>3. FormInv /\ [DraftsNext]_drafts =>
        [\A w \in TypedWords : IsKept(w) /\ ~IsKept(w)' =>
           \/ w \in pen'.erased
           \/ \E j \in writes : /\ j.kind = "create" /\ j.done /\ pen' = pen
                              /\ w \in stored[""] \cup stored[j.slug]]_drafts
  BY FormTurns, FormRequests DEF DraftsNext
<1> QED BY <1>1, <1>2, <1>3, PTL DEF DraftsSurvive

(* A task once made is known to have been sent twice, or to have been lost. *)
Flagged(k) == \/ k.lost \/ k.early
              \/ \E l \in writes : l.id = k.id /\ l.early

NoWriteLeft(k) == \A l \in writes : l.id # k.id
Creates == {l \in writes : l.kind = "create"}
Uncopied(a, b) == (a.text \cap b.text) \ pen.copied # {}

(* A word that was not copied is stored for one project at most, the one   *)
(* that a request with the word is for.                                    *)
WordsInv ==
    /\ \A s \in Keys : \A w \in stored[s] : w <= pen.words
    /\ \A x \in Creates \cup made : \A w \in x.text : w <= pen.words
    /\ \A s, t \in Keys : \A w \in stored[s] \cap stored[t] : w \in pen.copied \/ s = t
    /\ \A x \in Creates \cup made : \A s \in Keys : \A w \in stored[s] \cap x.text :
          w \in pen.copied \/ s = x.slug

(* A request and the task it made have one number. *)
IdsInv ==
    /\ \A x \in writes \cup made : x.id <= pen.asks
    /\ \A a, b \in writes : a.id = b.id => a = b
    /\ \A a, b \in made : a.id = b.id => a = b
    /\ \A l \in writes : ~l.lost
    /\ \A k \in made : \A l \in writes : k.id = l.id =>
          /\ l.kind = "create" /\ l.done /\ l.slug = k.slug /\ l.text = k.text
          /\ ~k.lost /\ (k.early => l.early)

(* A creation that no other request cleared holds isSaving; a word whose   *)
(* task was answered for is stored nowhere.                                *)
OnceInv ==
    /\ \A l \in Creates : l.early \/ isSaving
    /\ \A l, m \in Creates : l = m \/ l.early \/ m.early
    /\ \A i \in made : \A l \in Creates : i.id # l.id /\ Uncopied(i, l) => Flagged(i) \/ l.early
    /\ \A i, j \in made : i # j /\ Uncopied(i, j) => Flagged(i) \/ Flagged(j)
    /\ \A i \in made : NoWriteLeft(i) /\ ~Flagged(i) =>
          \A s \in Keys : \A w \in i.text \ pen.copied : w \notin stored[s]

DraftInv == FormInv /\ isSaving \in BOOLEAN /\ WordsInv /\ IdsInv /\ OnceInv

LEMMA DraftStarts == ASSUME DraftsInit PROVE DraftInv
<1>1. FormInv
  BY FormStarts
<1>2. /\ writes = {} /\ made = {} /\ stored = [s \in Keys |-> {}] /\ isSaving = FALSE
  BY DEF DraftsInit
<1> QED BY <1>1, <1>2 DEF DraftInv, WordsInv, IdsInv, OnceInv, Creates

(* A step of the form alone adds the next word or copies. *)
LEMMA WordsMove ==
    ASSUME DraftInv, UNCHANGED <<writes, made, isSaving>>,
           pen'.asks = pen.asks, pen'.words \in Nat, pen.words <= pen'.words, pen.copied \subseteq pen'.copied,
           NEW k \in Keys,
           \A s \in Keys : \A w \in stored'[s] :
              \/ w \in stored[s]
              \/ w \in pen'.copied /\ w <= pen.words
              \/ w = pen.words + 1 /\ pen'.words = pen.words + 1 /\ s = k,
           FormInv'
    PROVE  DraftInv'
<1>1. /\ pen.words \in Nat /\ pen.asks \in Nat
      /\ \A x \in writes \cup made : x \in Wishes /\ x.text \in SUBSET Nat
      /\ \A s \in Keys : stored[s] \in SUBSET Nat /\ stored'[s] \in SUBSET Nat
  BY DEF DraftInv, FormInv, Pens, Wishes, TypedWords
<1>2. Creates' = Creates
  BY DEF Creates
<1>3. \A x \in Creates \cup made : x \in writes \cup made
  BY DEF Creates
<1>4. WordsInv'
  <2>1. \A s \in Keys : \A w \in stored'[s] : w <= pen'.words
    BY <1>1 DEF DraftInv, WordsInv
  <2>2. \A x \in Creates \cup made : \A w \in x.text : w <= pen.words /\ w <= pen'.words /\ w \in Nat
    BY <1>1, <1>3 DEF DraftInv, WordsInv
  <2>3. ASSUME NEW s \in Keys, NEW t \in Keys, NEW w \in stored'[s] \cap stored'[t], w \notin pen'.copied
        PROVE  s = t
    <3>1. w \in Nat /\ \A x \in Keys : w \in stored[x] => w <= pen.words
      BY <1>1, <2>3 DEF DraftInv, WordsInv
    <3>2. w \notin pen.copied
      BY <2>3
    <3>3. CASE w = pen.words + 1
      BY <1>1, <2>3, <3>1, <3>3
    <3>4. CASE w # pen.words + 1
      <4>1. w \in stored[s] /\ w \in stored[t]
        BY <2>3, <3>4
      <4> QED BY <3>2, <4>1 DEF DraftInv, WordsInv
    <3> QED BY <3>3, <3>4
  <2>4. ASSUME NEW x \in Creates \cup made, NEW s \in Keys, NEW w \in stored'[s] \cap x.text, w \notin pen'.copied
        PROVE  s = x.slug
    <3>1. w <= pen.words /\ w \in Nat
      BY <2>2, <2>4
    <3>2. w \in stored[s] /\ w \notin pen.copied
      BY <1>1, <2>4, <3>1
    <3> QED BY <2>4, <3>2 DEF DraftInv, WordsInv
  <2> QED BY <1>2, <2>1, <2>2, <2>3, <2>4 DEF WordsInv
<1>5. IdsInv'
  BY DEF DraftInv, IdsInv
<1>6. \A i : Flagged(i)' = Flagged(i) /\ NoWriteLeft(i)' = NoWriteLeft(i)
  BY DEF Flagged, NoWriteLeft
<1>7. \A a, b : Uncopied(a, b)' => Uncopied(a, b)
  BY DEF Uncopied
<1>8. OnceInv'
  <2>1. ASSUME NEW i \in made, NoWriteLeft(i), ~Flagged(i), NEW s \in Keys, NEW w \in i.text \ pen'.copied,
               w \in stored'[s]
        PROVE  FALSE
    <3>1. w <= pen.words /\ w \in Nat
      BY <1>1, <2>1 DEF DraftInv, WordsInv
    <3>2. w \in stored[s] /\ w \notin pen.copied
      BY <1>1, <2>1, <3>1
    <3> QED BY <2>1, <3>2 DEF DraftInv, OnceInv
  <2> QED BY <1>2, <1>6, <1>7, <2>1 DEF DraftInv, OnceInv
<1> QED BY <1>4, <1>5, <1>8 DEF DraftInv

LEMMA FormMoves ==
    ASSUME DraftInv, OpenCreate \/ Types \/ Closes \/ (\E s \in DraftSlugs : ActiveMoves(s))
                       \/ (\E s \in Keys : Retarget(s)) \/ (\E w \in TypedWords : Erases(w))
    PROVE  DraftInv'
<1>1. FormInv' /\ FormInv
  BY FormTurns DEF DraftInv
<1>2. /\ UNCHANGED <<writes, made, isSaving>> /\ pen \in Pens
      /\ modal.slug \in Keys /\ modal.text \subseteq stored[modal.slug]
      /\ (modal.open => modal.text = stored[modal.slug])
      /\ pen.words \in Nat /\ pen.words + 1 \in Nat
      /\ stored \in [Keys -> SUBSET TypedWords] /\ active \in Keys
  <2>1. UNCHANGED <<writes, made, isSaving>>
    BY DEF OpenCreate, Types, Closes, ActiveMoves, Retarget, Erases
  <2>2. pen.words \in Nat /\ pen.words + 1 \in Nat
    BY <1>1 DEF FormInv, Pens
  <2> QED BY <1>1, <2>1, <2>2 DEF FormInv
<1>3. CASE Types
  <2>1. /\ pen' = [pen EXCEPT !.words = pen.words + 1] /\ modal.open
        /\ stored' = [stored EXCEPT ![modal.slug] = modal.text \cup {pen.words + 1}]
    BY <1>3 DEF Types, Fills
  <2>2. /\ pen'.asks = pen.asks /\ pen'.words = pen.words + 1 /\ pen'.copied = pen.copied
    BY <1>2, <2>1 DEF Pens
  <2>3. \A s \in Keys : \A w \in stored'[s] : w \in stored[s] \/ (w = pen.words + 1 /\ s = modal.slug)
    BY <1>2, <2>1
  <2> QED BY <1>1, <1>2, <2>2, <2>3, WordsMove
<1>4. ASSUME pen'.asks = pen.asks, pen'.words = pen.words, pen.copied \subseteq pen'.copied,
             \A s \in Keys : \A w \in stored'[s] : w \in stored[s] \/ (w \in pen'.copied /\ w <= pen.words)
      PROVE  DraftInv'
  BY <1>1, <1>2, <1>4, WordsMove
<1>5. CASE OpenCreate
  <2>1. pen' = [pen EXCEPT !.turns = pen.turns + 1] /\ stored' = [stored EXCEPT ![active] = stored[active]]
    BY <1>5 DEF OpenCreate, TurnsPage, Fills
  <2> QED BY <1>2, <1>4, <2>1 DEF Pens
<1>6. CASE Closes
  BY <1>2, <1>4, <1>6 DEF Closes
<1>7. ASSUME NEW s \in DraftSlugs, ActiveMoves(s) PROVE DraftInv'
  <2>1. /\ pen' = [pen EXCEPT !.turns = pen.turns + 1]
        /\ stored' = [stored EXCEPT ![s] = stored[s]] \/ stored' = stored
    BY <1>7 DEF ActiveMoves, TurnsPage, Fills
  <2>2. s \in Keys
    BY DEF Keys
  <2> QED BY <1>2, <1>4, <2>1, <2>2 DEF Pens
<1>8. ASSUME NEW s \in Keys, Retarget(s) PROVE DraftInv'
  <2> DEFINE copied == IF stored[s] = {} THEN pen.copied \cup modal.text ELSE pen.copied
  <2>1. /\ pen' = [pen EXCEPT !.turns = pen.turns + 1, !.copied = copied]
        /\ stored' = [stored EXCEPT ![s] = IF stored[s] = {} THEN modal.text ELSE stored[s]]
    BY <1>8 DEF Retarget, Fills
  <2>2. pen.copied \subseteq copied /\ (stored[s] = {} => modal.text \subseteq copied)
    OBVIOUS
  <2> HIDE DEF copied
  <2>3. pen'.asks = pen.asks /\ pen'.words = pen.words /\ pen'.copied = copied
    BY <1>2, <2>1 DEF Pens
  <2>4. \A w \in modal.text : w <= pen.words
    BY <1>2 DEF DraftInv, WordsInv
  <2> QED BY <1>2, <1>4, <2>1, <2>2, <2>3, <2>4
<1>9. ASSUME NEW w \in TypedWords, Erases(w) PROVE DraftInv'
  <2>1. /\ pen' = [pen EXCEPT !.erased = pen.erased \cup {w}]
        /\ stored' = [stored EXCEPT ![modal.slug] = modal.text \ {w}]
    BY <1>9 DEF Erases, Fills
  <2>2. pen'.asks = pen.asks /\ pen'.words = pen.words /\ pen'.copied = pen.copied
    BY <1>2, <2>1 DEF Pens
  <2> QED BY <1>2, <1>4, <2>1, <2>2
<1> QED BY <1>3, <1>5, <1>6, <1>7, <1>8, <1>9

(* A request that begins: a creation of what the form holds, or a move.    *)
LEMMA SubmitsKeep == ASSUME DraftInv, Submits \/ Drags PROVE DraftInv'
<1> DEFINE x == IF CanSubmit /\ writes' = writes \cup {AWrite("create", modal.slug, modal.text)}
                THEN AWrite("create", modal.slug, modal.text) ELSE AWrite("move", "", {})
<1>1. FormInv' /\ FormInv
  BY FormRequests DEF DraftInv
<1>2. /\ pen \in Pens /\ pen.asks \in Nat /\ pen.asks + 1 \in Nat
      /\ modal.slug \in Keys /\ modal.text \subseteq stored[modal.slug]
  BY <1>1 DEF FormInv, Pens
<1>3. /\ writes' = writes \cup {x} /\ isSaving' = TRUE /\ UNCHANGED <<modal, stored, made>>
      /\ pen' = [pen EXCEPT !.asks = pen.asks + 1]
      /\ \/ x = AWrite("create", modal.slug, modal.text) /\ ~isSaving
         \/ x = AWrite("move", "", {})
  BY DEF Submits, Drags, Mutates, CanSubmit, AWrite
<1> HIDE DEF x
<1>4. /\ pen'.asks = pen.asks + 1 /\ pen'.words = pen.words /\ pen'.copied = pen.copied
  BY <1>2, <1>3 DEF Pens
<1>5. /\ x.id = pen.asks + 1 /\ ~x.lost /\ ~x.early
      /\ x.kind = "create" => x.slug = modal.slug /\ x.text = modal.text /\ ~isSaving
  <2>1. CASE x = AWrite("create", modal.slug, modal.text) /\ ~isSaving
    BY <2>1 DEF AWrite
  <2>2. CASE x = AWrite("move", "", {})
    BY <2>2 DEF AWrite
  <2> QED BY <1>3, <2>1, <2>2
<1>6. \A y \in writes \cup made : y.id \in Nat /\ y.id <= pen.asks /\ y.id # x.id
  <2>1. \A y \in writes \cup made : y.id \in Nat /\ y.id <= pen.asks
    BY <1>1 DEF DraftInv, IdsInv, FormInv, Wishes
  <2> QED BY <1>2, <1>5, <2>1
<1>7. Creates' \subseteq Creates \cup {x} /\ (x \in Creates' => x.kind = "create") /\ Creates \subseteq Creates'
  BY <1>3 DEF Creates
<1>8. WordsInv'
  <2>1. x \in Creates' => \A w \in x.text : w <= pen.words
    BY <1>2, <1>5, <1>7 DEF DraftInv, WordsInv
  <2>2. x \in Creates' => \A s \in Keys : \A w \in stored[s] \cap x.text : w \in pen.copied \/ s = x.slug
    BY <1>2, <1>5, <1>7 DEF DraftInv, WordsInv
  <2> QED BY <1>3, <1>4, <1>7, <2>1, <2>2 DEF DraftInv, WordsInv
<1>9. IdsInv'
  <2>1. \A y \in writes' \cup made' : y.id <= pen'.asks
    <3>1. \A y \in writes \cup made : y.id <= pen.asks + 1
      BY <1>2, <1>6
    <3>2. x.id <= pen.asks + 1
      BY <1>2, <1>5
    <3> QED BY <1>3, <1>4, <3>1, <3>2
  <2>2. \A y \in writes' : y \in writes \/ y = x
    BY <1>3
  <2>3. \A k \in made' : k \in made /\ k.id # x.id
    BY <1>3, <1>6
  <2>4. \A y \in writes : y.id # x.id
    BY <1>6
  <2>5. \A a, b \in writes' : a.id = b.id => a = b
    BY <2>2, <2>4 DEF DraftInv, IdsInv
  <2>6. \A l \in writes' : ~l.lost
    BY <1>5, <2>2 DEF DraftInv, IdsInv
  <2>7. \A a, b \in made' : a.id = b.id => a = b
    BY <2>3 DEF DraftInv, IdsInv
  <2>8. \A k \in made' : \A l \in writes' : k.id = l.id =>
          /\ l.kind = "create" /\ l.done /\ l.slug = k.slug /\ l.text = k.text
          /\ ~k.lost /\ (k.early => l.early)
    BY <2>2, <2>3 DEF DraftInv, IdsInv
  <2> QED BY <2>1, <2>5, <2>6, <2>7, <2>8 DEF IdsInv
<1>10. /\ \A i : Flagged(i) => Flagged(i)'
       /\ \A i \in made : NoWriteLeft(i)' => NoWriteLeft(i)
       /\ \A i \in made : ~NoWriteLeft(i) /\ x.kind = "create" => Flagged(i)
  <2>1. ASSUME NEW i \in made, NEW l \in writes, l.id = i.id, x.kind = "create" PROVE Flagged(i)
    <3>1. l \in Creates
      BY <2>1 DEF DraftInv, IdsInv, Creates
    <3> QED BY <1>5, <2>1, <3>1 DEF DraftInv, OnceInv, Flagged
  <2> QED BY <1>3, <2>1 DEF Flagged, NoWriteLeft
<1>11. \A a, b : Uncopied(a, b)' = Uncopied(a, b)
  BY <1>4 DEF Uncopied
<1>12. OnceInv'
  <2>1. \A l, m \in Creates' : l = m \/ l.early \/ m.early
    BY <1>5, <1>7 DEF DraftInv, OnceInv
  <2>2. ASSUME NEW i \in made, x \in Creates', Uncopied(i, x) PROVE Flagged(i)'
    <3>1. x.kind = "create"
      BY <1>7, <2>2
    <3>2. PICK w \in (i.text \cap x.text) \ pen.copied : TRUE
      BY <2>2 DEF Uncopied
    <3>3. w \in stored[modal.slug] /\ w \in i.text \ pen.copied
      BY <1>2, <1>5, <3>1, <3>2
    <3>4. CASE NoWriteLeft(i)
      BY <1>2, <1>10, <3>3, <3>4 DEF DraftInv, OnceInv
    <3>5. CASE ~NoWriteLeft(i)
      BY <1>10, <3>1, <3>5
    <3> QED BY <3>4, <3>5
  <2>3. \A i \in made : NoWriteLeft(i)' /\ ~Flagged(i)' =>
           \A s \in Keys : \A w \in i.text \ pen.copied : w \notin stored[s]
    BY <1>10 DEF DraftInv, OnceInv
  <2>4. \A i \in made' : \A l \in Creates' : i.id # l.id /\ Uncopied(i, l) => Flagged(i)' \/ l.early
    BY <1>3, <1>7, <1>10, <2>2 DEF DraftInv, OnceInv
  <2>5. \A i, j \in made' : i # j /\ Uncopied(i, j) => Flagged(i)' \/ Flagged(j)'
    BY <1>3, <1>10 DEF DraftInv, OnceInv
  <2>6. \A l \in Creates' : l.early \/ isSaving'
    BY <1>3
  <2> QED BY <1>3, <1>4, <1>11, <2>1, <2>3, <2>4, <2>5, <2>6 DEF OnceInv
<1> QED BY <1>1, <1>3, <1>8, <1>9, <1>12 DEF DraftInv

(* A request that the server serves. *)
LEMMA MakesKeep == ASSUME DraftInv, NEW j \in writes, Makes(j) PROVE DraftInv'
<1> DEFINE x == [j EXCEPT !.done = TRUE]
<1>1. FormInv' /\ FormInv
  BY FormRequests DEF DraftInv
<1>2. j \in Wishes /\ ~j.done
  BY <1>1 DEF Makes, FormInv
<1>3. /\ writes' = (writes \ {j}) \cup {x} /\ UNCHANGED <<modal, stored, isSaving, pen>>
      /\ made' = IF j.kind = "create" THEN made \cup {x} ELSE made
  BY DEF Makes
<1>4. /\ x.id = j.id /\ x.slug = j.slug /\ x.text = j.text /\ x.kind = j.kind /\ x.early = j.early
      /\ x.lost = j.lost /\ x.done /\ x.early \in BOOLEAN
  BY <1>2 DEF Wishes
<1> HIDE DEF x
<1>5. \A k \in made : k.id # j.id
  BY <1>2 DEF DraftInv, IdsInv
<1>6. /\ \A l \in Creates' : l \in Creates \/ (l = x /\ j \in Creates)
      /\ \A l \in Creates' : l # x => l # j
      /\ \A l \in writes' : l = x \/ (l \in writes /\ l # j /\ l.id # j.id)
  BY <1>3, <1>4 DEF Creates, DraftInv, IdsInv
<1>7. \A i \in made' : i \in made \/ (i = x /\ j \in Creates)
  BY <1>3 DEF Creates
<1>8. WordsInv'
  <2>1. j \in Creates => /\ \A w \in x.text : w <= pen.words
                         /\ \A s \in Keys : \A w \in stored[s] \cap x.text : w \in pen.copied \/ s = x.slug
    BY <1>4 DEF DraftInv, WordsInv
  <2> QED BY <1>3, <1>6, <1>7, <2>1 DEF DraftInv, WordsInv
<1>9. IdsInv'
  <2>1. \A k \in made' : \A l \in writes' : k.id = l.id =>
            /\ l.kind = "create" /\ l.done /\ l.slug = k.slug /\ l.text = k.text
            /\ ~k.lost /\ (k.early => l.early)
    <3> SUFFICES ASSUME NEW k \in made', NEW l \in writes', k.id = l.id
                 PROVE  /\ l.kind = "create" /\ l.done /\ l.slug = k.slug /\ l.text = k.text
                        /\ ~k.lost /\ (k.early => l.early)
      OBVIOUS
    <3>1. CASE l = x
      <4>1. k = x /\ j.kind = "create"
        BY <1>4, <1>5, <1>7, <3>1 DEF Creates
      <4> QED BY <1>4, <3>1, <4>1 DEF DraftInv, IdsInv
    <3>2. CASE l # x
      <4>1. l \in writes /\ l.id # j.id /\ k \in made
        BY <1>4, <1>6, <1>7, <3>2
      <4> QED BY <4>1 DEF DraftInv, IdsInv
    <3> QED BY <3>1, <3>2
  <2>2. \A y \in writes' \cup made' : y.id <= pen'.asks
    BY <1>3, <1>4, <1>6, <1>7 DEF DraftInv, IdsInv
  <2>3. \A a, b \in writes' : a.id = b.id => a = b
    BY <1>4, <1>6 DEF DraftInv, IdsInv
  <2>4. \A a, b \in made' : a.id = b.id => a = b
    BY <1>4, <1>5, <1>7 DEF DraftInv, IdsInv
  <2>5. \A l \in writes' : ~l.lost
    BY <1>4, <1>6 DEF DraftInv, IdsInv
  <2> QED BY <2>1, <2>2, <2>3, <2>4, <2>5 DEF IdsInv
<1>10. /\ \A i : Flagged(i)' = Flagged(i) /\ NoWriteLeft(i)' = NoWriteLeft(i)
       /\ ~NoWriteLeft(x)'
  BY <1>3, <1>4, <1>6 DEF Flagged, NoWriteLeft
<1>11. \A a : /\ \A b : Uncopied(a, b)' = Uncopied(a, b) /\ Uncopied(a, b) = Uncopied(b, a)
              /\ Uncopied(a, x) = Uncopied(a, j)
  BY <1>3, <1>4 DEF Uncopied
<1>12. j \in Creates => (x.early => Flagged(x)') /\ (x.early = j.early)
  BY <1>4 DEF Flagged
<1>13. OnceInv'
  <2>1. \A l \in Creates' : l.early \/ isSaving'
    BY <1>3, <1>4, <1>6 DEF DraftInv, OnceInv
  <2>2. \A l, m \in Creates' : l = m \/ l.early \/ m.early
    BY <1>4, <1>6 DEF DraftInv, OnceInv
  <2>3. ASSUME NEW i \in made', NEW l \in Creates', i.id # l.id, Uncopied(i, l), ~l.early
        PROVE  Flagged(i)'
    <3>1. CASE i \in made /\ l # x
      BY <1>6, <1>10, <2>3, <3>1 DEF DraftInv, OnceInv
    <3>2. CASE i \in made /\ l = x
      <4>1. j \in Creates /\ Uncopied(i, j) /\ i.id # j.id /\ ~j.early
        BY <1>4, <1>6, <1>11, <2>3, <3>2 DEF Creates
      <4> QED BY <1>10, <3>2, <4>1 DEF DraftInv, OnceInv
    <3>3. CASE i \notin made
      <4>1. i = x /\ j \in Creates /\ l # x
        BY <1>7, <2>3, <3>3
      <4>2. l \in Creates /\ l # j
        BY <1>6, <4>1
      <4>3. j.early
        BY <2>3, <4>1, <4>2 DEF DraftInv, OnceInv
      <4> QED BY <1>12, <4>1, <4>3
    <3> QED BY <3>1, <3>2, <3>3
  <2>4. ASSUME NEW i \in made, j \in Creates, Uncopied(i, x) PROVE Flagged(i)' \/ Flagged(x)'
    <3>1. Uncopied(i, j) /\ i.id # j.id
      BY <1>5, <1>11, <2>4
    <3>2. Flagged(i) \/ j.early
      BY <2>4, <3>1 DEF DraftInv, OnceInv
    <3> QED BY <1>10, <1>12, <2>4, <3>2
  <2>5. \A i, k \in made' : i # k /\ Uncopied(i, k) => Flagged(i)' \/ Flagged(k)'
    BY <1>7, <1>10, <1>11, <2>4 DEF DraftInv, OnceInv
  <2>6. \A i \in made' : NoWriteLeft(i)' /\ ~Flagged(i)' =>
           \A s \in Keys : \A w \in i.text \ pen.copied : w \notin stored[s]
    BY <1>7, <1>10 DEF DraftInv, OnceInv
  <2> QED BY <1>3, <1>11, <2>1, <2>2, <2>3, <2>5, <2>6 DEF OnceInv
<1> QED BY <1>1, <1>3, <1>8, <1>9, <1>13 DEF DraftInv

(* A request that is answered or lost. *)
LEMMA SettlesKeep ==
    ASSUME DraftInv, NEW j \in writes, WriteAnswered(j) \/ Fails(j)
    PROVE  DraftInv'
<1> DEFINE faulty == ~(j.done /\ made' = {IF k.id = j.id THEN [k EXCEPT !.early = j.early, !.lost = FALSE] ELSE k : k \in made}
                      /\ (j.kind = "create" => stored' = [s \in Keys |-> IF s \in {j.slug, ""} THEN {} ELSE stored[s]]))
           Amended(k) == IF k.id = j.id THEN [k EXCEPT !.early = j.early, !.lost = faulty] ELSE k
           Early(k) == [k EXCEPT !.early = TRUE]
<1>1. FormInv' /\ FormInv
  BY FormRequests DEF DraftInv
<1>2. /\ pen \in Pens /\ j \in Wishes /\ faulty \in BOOLEAN /\ stored \in [Keys -> SUBSET TypedWords]
  BY <1>1 DEF FormInv
<1>3. /\ isSaving' = FALSE /\ writes' = {Early(k) : k \in writes \ {j}}
      /\ made' = {Amended(k) : k \in made}
      /\ pen'.asks = pen.asks /\ pen'.words = pen.words /\ pen'.copied = pen.copied
      /\ \A s \in Keys : stored'[s] \subseteq stored[s]
      /\ ~faulty /\ j.kind = "create" => stored'[j.slug] = {}
  <2>1. CASE WriteAnswered(j)
    <3>1. /\ WriteSettles(j) /\ Remembers(j, FALSE) /\ Forgets(j, FALSE) /\ pen' = pen /\ j.done
      BY <2>1 DEF WriteAnswered
    <3>2. faulty = FALSE
      BY <3>1 DEF Remembers, Forgets
    <3>3. stored' = stored \/ stored' = [s \in Keys |-> IF s \in {j.slug, ""} THEN {} ELSE stored[s]]
      BY <3>1 DEF Forgets
    <3>4. j.kind = "create" => stored' = [s \in Keys |-> IF s \in {j.slug, ""} THEN {} ELSE stored[s]]
      BY <3>1 DEF Forgets
    <3>5. j.slug \in Keys
      BY <1>2 DEF Wishes
    <3>6. made' = {Amended(k) : k \in made}
      BY <3>1, <3>2, ZenonT(60) DEF Remembers
    <3>7. isSaving' = FALSE /\ writes' = {Early(k) : k \in writes \ {j}}
      BY <3>1 DEF WriteSettles
    <3> HIDE DEF faulty, Amended, Early
    <3>8. \A s \in Keys : stored'[s] \subseteq stored[s]
      BY <3>3
    <3>9. j.kind = "create" => stored'[j.slug] = {}
      BY <3>4, <3>5
    <3> QED BY <3>1, <3>6, <3>7, <3>8, <3>9
  <2>2. CASE Fails(j)
    <3>1. /\ WriteSettles(j) /\ Remembers(j, TRUE) /\ stored' = stored
          /\ pen' = [pen EXCEPT !.faults = @ + 1]
      BY <2>2 DEF Fails, Forgets
    <3>2. made' = {Amended(k) : k \in made}
      <4>1. CASE faulty
        BY <3>1, <4>1 DEF Remembers
      <4>2. CASE ~faulty
        BY <4>2, ZenonT(60)
      <4> QED BY <4>1, <4>2
    <3>3. ~faulty /\ j.kind = "create" => stored'[j.slug] = {}
      BY <1>2 DEF Wishes
    <3> HIDE DEF faulty
    <3> QED BY <1>2, <3>1, <3>2, <3>3 DEF WriteSettles, Pens
  <2> QED BY <2>1, <2>2
<1> HIDE DEF faulty
<1>4. \A k \in made : /\ Amended(k).id = k.id /\ Amended(k).slug = k.slug /\ Amended(k).text = k.text
                      /\ Amended(k).early = (IF k.id = j.id THEN j.early ELSE k.early)
                      /\ Amended(k).lost = (IF k.id = j.id THEN faulty ELSE k.lost)
  <2> SUFFICES ASSUME NEW k \in made
               PROVE  /\ Amended(k).id = k.id /\ Amended(k).slug = k.slug /\ Amended(k).text = k.text
                      /\ Amended(k).early = (IF k.id = j.id THEN j.early ELSE k.early)
                      /\ Amended(k).lost = (IF k.id = j.id THEN faulty ELSE k.lost)
    OBVIOUS
  <2>1. k \in Wishes
    BY <1>1 DEF FormInv
  <2> QED BY <2>1 DEF Wishes
<1>5. \A k \in writes : /\ Early(k).id = k.id /\ Early(k).slug = k.slug /\ Early(k).text = k.text
                        /\ Early(k).kind = k.kind /\ Early(k).done = k.done /\ Early(k).lost = k.lost
                        /\ Early(k).early
  <2> SUFFICES ASSUME NEW k \in writes
               PROVE  /\ Early(k).id = k.id /\ Early(k).slug = k.slug /\ Early(k).text = k.text
                      /\ Early(k).kind = k.kind /\ Early(k).done = k.done /\ Early(k).lost = k.lost
                      /\ Early(k).early
    OBVIOUS
  <2>1. k \in Wishes
    BY <1>1 DEF FormInv
  <2> QED BY <2>1 DEF Wishes
<1> HIDE DEF Amended, Early
<1>6. /\ \A l \in writes' : l.early /\ \E k \in writes : k # j /\ l = Early(k) /\ k.id # j.id
      /\ \A k \in writes : k # j => Early(k) \in writes'
  <2>1. \A k \in writes : k # j => k.id # j.id
    BY DEF DraftInv, IdsInv
  <2> QED BY <1>3, <1>5, <2>1
<1>7. \A i \in made' : \E k \in made : i = Amended(k)
  BY <1>3
<1>8. \A l \in Creates' : l.early /\ \E k \in Creates : l.id = k.id /\ l.slug = k.slug /\ l.text = k.text
  BY <1>5, <1>6 DEF Creates
<1>9. WordsInv'
  <2>1. \A x \in Creates' \cup made' : \E y \in Creates \cup made : x.slug = y.slug /\ x.text = y.text
    BY <1>4, <1>7, <1>8
  <2> QED BY <1>3, <2>1 DEF DraftInv, WordsInv
<1>10. IdsInv'
  <2>1. \A x \in writes' \cup made' : \E y \in writes \cup made : x.id = y.id
    BY <1>4, <1>5, <1>6, <1>7
  <2>2. \A a, b \in writes' : a.id = b.id => a = b
    BY <1>5, <1>6 DEF DraftInv, IdsInv
  <2>3. \A a, b \in made' : a.id = b.id => a = b
    BY <1>4, <1>7 DEF DraftInv, IdsInv
  <2>4. \A l \in writes' : ~l.lost
    BY <1>5, <1>6 DEF DraftInv, IdsInv
  <2>5. ASSUME NEW k \in made', NEW l \in writes', k.id = l.id
        PROVE  /\ l.kind = "create" /\ l.done /\ l.slug = k.slug /\ l.text = k.text
               /\ ~k.lost /\ (k.early => l.early)
    <3>1. PICK m \in writes : m # j /\ l = Early(m) /\ m.id # j.id
      BY <1>6
    <3>2. PICK i \in made : k = Amended(i)
      BY <1>7
    <3>3. i.id = m.id
      BY <1>4, <1>5, <2>5, <3>1, <3>2
    <3> QED BY <1>4, <1>5, <3>1, <3>2, <3>3 DEF DraftInv, IdsInv
  <2> QED BY <1>3, <2>1, <2>2, <2>3, <2>4, <2>5 DEF DraftInv, IdsInv
<1>11. \A k \in made : Flagged(k) => (Amended(k).lost \/ Amended(k).early \/ \E l \in writes' : l.id = Amended(k).id /\ l.early)
  <2> SUFFICES ASSUME NEW k \in made, Flagged(k)
               PROVE  Amended(k).lost \/ Amended(k).early \/ \E l \in writes' : l.id = Amended(k).id /\ l.early
    OBVIOUS
  <2>1. CASE k.id = j.id
    <3>1. ~k.lost /\ (k.early => j.early) /\ \A l \in writes : l.id = k.id => l = j
      BY <2>1 DEF DraftInv, IdsInv
    <3> QED BY <1>4, <2>1, <3>1 DEF Flagged
  <2>2. CASE k.id # j.id
    <3>1. CASE k.lost \/ k.early
      BY <1>4, <2>2, <3>1
    <3>2. CASE \E l \in writes : l.id = k.id /\ l.early
      <4>1. PICK l \in writes : l.id = k.id /\ l.early
        BY <3>2
      <4>2. Early(l) \in writes' /\ Early(l).id = k.id /\ Early(l).early
        BY <1>5, <1>6, <2>2, <4>1
      <4> QED BY <1>4, <4>2
    <3> QED BY <3>1, <3>2 DEF Flagged
  <2> QED BY <2>1, <2>2
<1>12. \A a, b : Uncopied(a, b)' = Uncopied(a, b)
  BY <1>3 DEF Uncopied
<1>13. OnceInv'
  <2>1. ASSUME NEW i \in made', NEW k \in made', i # k, Uncopied(i, k) PROVE Flagged(i)' \/ Flagged(k)'
    <3>1. PICK a \in made : i = Amended(a)
      BY <1>7
    <3>2. PICK b \in made : k = Amended(b)
      BY <1>7
    <3>3. a # b /\ Uncopied(a, b)
      BY <1>4, <2>1, <3>1, <3>2 DEF Uncopied
    <3>4. Flagged(a) \/ Flagged(b)
      BY <3>3 DEF DraftInv, OnceInv
    <3> QED BY <1>11, <3>1, <3>2, <3>4 DEF Flagged
  <2>2. ASSUME NEW i \in made', NoWriteLeft(i)', ~Flagged(i)', NEW s \in Keys, NEW w \in i.text \ pen.copied,
               w \in stored'[s]
        PROVE  FALSE
    <3>1. PICK a \in made : i = Amended(a)
      BY <1>7
    <3>2. ~Flagged(a) /\ w \in a.text \ pen.copied /\ w \in stored[s]
      BY <1>3, <1>4, <1>11, <2>2, <3>1 DEF Flagged
    <3>3. CASE a.id = j.id
      <4>1. j.kind = "create" /\ j.slug = a.slug /\ ~faulty
        BY <1>4, <2>2, <3>1, <3>3 DEF DraftInv, IdsInv, Flagged
      <4>2. s = a.slug
        BY <3>2 DEF DraftInv, WordsInv
      <4> QED BY <1>3, <2>2, <4>1, <4>2
    <3>4. CASE a.id # j.id
      <4>1. NoWriteLeft(a)
        <5> SUFFICES ASSUME NEW l \in writes, l.id = a.id PROVE FALSE
          BY DEF NoWriteLeft
        <5>1. Early(l) \in writes' /\ Early(l).id = i.id
          BY <1>4, <1>5, <1>6, <3>1, <3>4
        <5> QED BY <2>2, <5>1 DEF NoWriteLeft
      <4> QED BY <3>2, <4>1 DEF DraftInv, OnceInv
    <3> QED BY <3>3, <3>4
  <2> QED BY <1>3, <1>8, <1>12, <2>1, <2>2 DEF OnceInv
<1> QED BY <1>1, <1>3, <1>9, <1>10, <1>13 DEF DraftInv

LEMMA DraftStep == ASSUME DraftInv, [DraftsNext]_drafts PROVE DraftInv'
<1>1. CASE UNCHANGED drafts
  BY <1>1 DEF drafts, DraftInv, FormInv, WordsInv, IdsInv, OnceInv, Creates, Flagged, NoWriteLeft, Uncopied
<1> QED BY <1>1, FormMoves, SubmitsKeep, MakesKeep, SettlesKeep DEF DraftsNext

LEMMA SentOnce == ASSUME DraftInv PROVE MadeOnce
BY DEF DraftInv, OnceInv, MadeOnce, Flagged, Uncopied

-----------------------------------------------------------------------------
(* Modes *)

(* Records, whatever their fields hold. *)
ModeFields == {"model", "thinking", "agent", "voice"}
HandlerFields == {"at", "admin", "act", "menu", "index", "found", "stale", "prev", "next", "taken"}

IsMode(p) == p = [x \in ModeFields |-> p[x]]
IsHandler(k) == k = [x \in HandlerFields |-> k[x]]

Picks == {"model", "agentSet", "thinkingSet"}

(* A button of the menu names what it shows. *)
ShownThinking(m) == m.screen = "thinking" => m.page = 0 /\ m.list \in {<<>>, <<"high">>}

(* What a handler is about to store is what its button named and beside    *)
(* it what was read.                                                       *)
NextIsChosen(k) ==
    /\ IsMode(k.prev) /\ IsMode(k.next) /\ k.act \in Picks
    /\ k.next.voice = k.prev.voice
    /\ k.act = "model" => k.next.model = <<k.menu.provider, k.found>>
    /\ k.act = "agentSet" => k.next.agent = k.found /\ k.next.thinking \in {k.prev.thinking, "default"}
    /\ k.act = "thinkingSet" => k.next.thinking = k.found /\ k.next.agent \in {k.prev.agent, "default"}

HandlerInv(k) ==
    /\ IsHandler(k)
    /\ k.at # "free" => k.admin \in Admins
    /\ k.at = "asks" => /\ k.act # "voice"
                        /\ k.act = "model" => k.index # 0
                        /\ k.act = "thinkingSet" /\ k.index = 1 => k.menu.page = 0 /\ k.menu.list = <<"high">>
                        /\ k.act = "thinkingSet" => k.index \in {0, 1}
    /\ k.at = "found" => k.act # "voice"
    /\ k.at \in {"found", "validated", "adopted"} /\ k.act \in Picks => k.stale \/ k.found = Label(k)
    /\ k.at \in {"validated", "adopted"} => NextIsChosen(k)
    /\ k.at = "adopted" => [model |-> k.next.model, agent |-> k.next.agent] \in k.taken
    /\ k.at = "checks" => /\ k.act = "voice" /\ IsMode(k.prev)
                          /\ k.next = [k.prev EXCEPT !.voice = "on"]

ModesInv ==
    /\ prefs = [a \in Admins |-> prefs[a]] /\ \A a \in Admins : IsMode(prefs[a])
    /\ menus = [a \in Admins |-> menus[a]] /\ \A a \in Admins : ShownThinking(menus[a])
    /\ handlers = [h \in Handlers |-> handlers[h]] /\ \A h \in Handlers : HandlerInv(handlers[h])

LEMMA BlankHandler == IsHandler(NoHandler) /\ IsMode(NoPrefs)
BY DEF IsHandler, HandlerFields, NoHandler, IsMode, ModeFields, NoPrefs

(* A handler that only starts. *)
LEMMA NewCommand ==
    ASSUME NEW a \in Admins, NEW k, k = [NoHandler EXCEPT !.at = "asks", !.admin = a, !.act = "main"]
    PROVE  HandlerInv(k)
<1>1. DOMAIN NoHandler = HandlerFields
  BY DEF NoHandler, HandlerFields
<1>2. IsHandler(k)
  BY BlankHandler DEF IsHandler
<1>3. k.at = "asks" /\ k.admin = a /\ k.act = "main"
  BY <1>1 DEF HandlerFields
<1> QED BY <1>2, <1>3 DEF HandlerInv

LEMMA FreeHandler == HandlerInv(NoHandler)
<1>1. NoHandler.at = "free"
  BY DEF NoHandler
<1> QED BY <1>1, BlankHandler DEF HandlerInv

LEMMA ModesStart == ASSUME ModeInit PROVE ModesInv
<1>1. IsMode(NoPrefs) /\ ShownThinking(NoMenu)
  BY BlankHandler DEF ShownThinking, NoMenu
<1> QED BY <1>1, FreeHandler DEF ModeInit, ModesInv

LEMMA HandlerMoves ==
    ASSUME ModesInv, NEW h \in Handlers, NEW k, HandlerInv(k), Replaces(h, k), UNCHANGED <<prefs, menus>>
    PROVE  ModesInv'
BY DEF ModesInv, Replaces

(* The menu's buttons carry an index they show. *)
LEMMA ButtonsNamed ==
    ASSUME NEW m, ShownThinking(m), NEW b \in Buttons(m)
    PROVE  /\ b[1] # "voice"
           /\ b[1] = "model" => b[2] # 0
           /\ b[1] = "thinkingSet" => b[2] = 0 \/ (b[2] = 1 /\ m.page = 0 /\ m.list = <<"high">>)
<1>1. CASE m.screen = "main"
  <2>1. b \in {"providers", "thinking", "agents"} \X {0}
    BY <1>1 DEF Buttons
  <2> QED BY <2>1
<1>2. CASE m.screen = "thinking"
  <2>1. b \in {<<"main", 0>>} \cup {"thinkingSet"} \X (0 .. Len(m.list))
    BY <1>2 DEF Buttons
  <2>2. CASE m.list = <<>>
    BY <2>1, <2>2
  <2>3. CASE m.list = <<"high">>
    <3>1. Len(m.list) = 1
      BY <2>3
    <3> QED BY <1>2, <2>1, <2>3, <3>1 DEF ShownThinking
  <2> QED BY <1>2, <2>2, <2>3 DEF ShownThinking
<1>3. CASE m.screen = "none"
  BY <1>3 DEF Buttons
<1>4. CASE m.screen \notin {"main", "thinking", "none"}
  <2> DEFINE word == CASE m.screen = "providers" -> "provider" [] m.screen = "models" -> "model" [] OTHER -> "agentSet"
             home == IF m.screen = "models" THEN "providers" ELSE "main"
  <2>1. b \in {<<home, 0>>}
              \cup {<<word, i>> : i \in {k \in 1..PageSize : Item(m.list, m.page, k) # "none"}}
              \cup (IF m.screen = "agents" THEN {<<"agentSet", 0>>} ELSE {})
              \cup (IF m.page > 0 THEN {<<"back", 0>>} ELSE {})
              \cup (IF (m.page + 1) * PageSize < Len(m.list) THEN {<<"forward", 0>>} ELSE {})
    BY <1>4, Zenon DEF Buttons
  <2>2. word \in {"provider", "model", "agentSet"} /\ home \in {"providers", "main"}
    OBVIOUS
  <2> HIDE DEF word, home
  <2>3. \/ b = <<home, 0>> \/ b = <<"agentSet", 0>> \/ b = <<"back", 0>> \/ b = <<"forward", 0>>
        \/ \E i \in 1 .. PageSize : b = <<word, i>>
    BY <2>1, Zenon
  <2> QED BY <2>2, <2>3, ModeBounds
<1> QED BY <1>1, <1>2, <1>3, <1>4

(* A name that was found is the one on the button, or the list changed. *)
LEMMA FoundIsLabel ==
    ASSUME ModesInv, NEW h \in Handlers, NEW item, NEW ls, Found(h, item, ls),
           handlers[h].at = "asks",
           handlers[h].act \in Picks /\ ls = handlers[h].menu.list => item = Label(handlers[h])
    PROVE  ModesInv'
<1> DEFINE k == handlers[h]
           stale == ls # k.menu.list
           c == [k EXCEPT !.at = "found", !.found = item, !.stale = stale]
<1>1. HandlerInv(k)
  BY DEF ModesInv
<1>2. Replaces(h, NoHandler) \/ Replaces(h, c)
  BY DEF Found, Frees
<1>3. UNCHANGED <<prefs, menus>>
  BY DEF Found
<1>4. HandlerInv(c)
  <2>1. IsHandler(k) /\ DOMAIN k = HandlerFields
    BY <1>1 DEF HandlerInv, IsHandler
  <2>2. stale \/ ls = k.menu.list
    OBVIOUS
  <2> HIDE DEF stale
  <2>3. /\ c.at = "found" /\ c.found = item /\ c.stale = stale
        /\ c.menu = k.menu /\ c.index = k.index /\ c.admin = k.admin /\ c.act = k.act
    BY <2>1 DEF HandlerFields
  <2>5. IsHandler(c)
    BY <2>1 DEF IsHandler
  <2> HIDE DEF c
  <2>4. Label(c) = Label(k)
    BY <2>3 DEF Label
  <2> QED BY <1>1, <2>2, <2>3, <2>4, <2>5 DEF HandlerInv
<1> HIDE DEF k, c
<1> QED BY <1>2, <1>3, <1>4, FreeHandler, HandlerMoves

LEMMA FindersTurn ==
    ASSUME ModesInv, NEW h \in Handlers, FindProvider(h) \/ FindModel(h) \/ FindAgent(h) \/ FindFixed(h)
    PROVE  ModesInv'
<1> DEFINE k == handlers[h]
<1>0. HandlerInv(k)
  BY DEF ModesInv
<1>1. CASE FindProvider(h)
  BY <1>1, FoundIsLabel DEF FindProvider, Picks
<1>2. CASE FindModel(h)
  <2>1. /\ k.at = "asks" /\ k.act = "model"
        /\ Found(h, Item(ModelsOf(k.menu.provider), k.menu.page, k.index), ModelsOf(k.menu.provider))
    BY <1>2 DEF FindModel
  <2>2. k.index # 0
    BY <1>0, <2>1 DEF HandlerInv
  <2> QED BY <2>1, <2>2, FoundIsLabel DEF Label
<1>3. CASE FindAgent(h)
  <2>1. /\ k.at = "asks" /\ k.index # 0
        /\ Found(h, AgentAt(k.menu.page, k.index), Selectable)
    BY <1>3 DEF FindAgent
  <2> QED BY <2>1, FoundIsLabel DEF Label, AgentAt
<1>4. CASE FindFixed(h)
  <2> DEFINE item == IF k.act = "thinkingSet" /\ k.index = 1 THEN "high" ELSE "default"
  <2>1. /\ k.at = "asks" /\ Found(h, item, k.menu.list)
        /\ k.act = "thinkingSet" \/ (k.act = "agentSet" /\ k.index = 0)
    BY <1>4 DEF FindFixed
  <2>2. k.index = 0 => item = Label(k)
    BY DEF Label
  <2>3. k.act = "thinkingSet" /\ k.index = 1 => item = Label(k)
    <3> SUFFICES ASSUME k.act = "thinkingSet", k.index = 1 PROVE item = Label(k)
      OBVIOUS
    <3>1. k.menu.page = 0 /\ k.menu.list = <<"high">>
      BY <1>0, <2>1 DEF HandlerInv
    <3>2. 0 * PageSize + 1 = 1
      BY ModeBounds
    <3>3. Label(k) = Item(<<"high">>, 0, 1)
      BY <3>1 DEF Label
    <3>4. Item(<<"high">>, 0, 1) = "high"
      BY <3>2 DEF Item
    <3> QED BY <3>3, <3>4
  <2>4. item = Label(k)
    BY <1>0, <2>1, <2>2, <2>3 DEF HandlerInv
  <2> HIDE DEF item, k
  <2> QED BY <2>1, <2>4, FoundIsLabel DEF k
<1> QED BY <1>1, <1>2, <1>3, <1>4

LEMMA StartersTurn ==
    ASSUME ModesInv, NEW h \in Handlers, NEW a \in Admins,
           ButtonPressed(a, h) \/ Commanded(a, h) \/ UpdateVoiceControlSettings(a, h)
    PROVE  ModesInv'
<1>1. CASE ButtonPressed(a, h)
  <2>1. PICK b \in Buttons(menus[a]) :
           Starts(h, [NoHandler EXCEPT !.at = "asks", !.admin = a, !.act = b[1], !.menu = menus[a], !.index = b[2]])
    BY <1>1 DEF ButtonPressed
  <2> DEFINE m == menus[a]
             k == [NoHandler EXCEPT !.at = "asks", !.admin = a, !.act = b[1], !.menu = m, !.index = b[2]]
  <2>2. ShownThinking(m)
    BY DEF ModesInv
  <2>3. /\ b[1] # "voice" /\ (b[1] = "model" => b[2] # 0)
        /\ b[1] = "thinkingSet" => b[2] = 0 \/ (b[2] = 1 /\ m.page = 0 /\ m.list = <<"high">>)
    BY <2>2, ButtonsNamed
  <2>4. Replaces(h, k) /\ UNCHANGED <<prefs, menus>>
    BY <2>1 DEF Starts
  <2>7. DOMAIN NoHandler = HandlerFields
    BY DEF NoHandler, HandlerFields
  <2>8. IsHandler(k)
    BY BlankHandler DEF IsHandler
  <2>9. k.at = "asks" /\ k.admin = a /\ k.act = b[1] /\ k.menu = m /\ k.index = b[2]
    BY <2>7 DEF HandlerFields
  <2>5. IsHandler(k) /\ k.at = "asks" /\ k.admin = a /\ k.act = b[1] /\ k.menu = m /\ k.index = b[2]
    BY <2>8, <2>9
  <2>6. HandlerInv(k)
    <3> HIDE DEF k
    <3> QED BY <2>3, <2>5 DEF HandlerInv
  <2> HIDE DEF k
  <2> QED BY <2>4, <2>6, HandlerMoves
<1>2. CASE Commanded(a, h)
  <2> DEFINE k == [NoHandler EXCEPT !.at = "asks", !.admin = a, !.act = "main"]
  <2>1. Replaces(h, k) /\ UNCHANGED <<prefs, menus>>
    BY <1>2 DEF Commanded, Starts
  <2>2. HandlerInv(k)
    BY NewCommand
  <2> HIDE DEF k
  <2> QED BY <2>1, <2>2, HandlerMoves
<1>3. CASE UpdateVoiceControlSettings(a, h)
  <2> DEFINE p == prefs[a]
             n == [p EXCEPT !.voice = "on"]
             k == [NoHandler EXCEPT !.at = "checks", !.admin = a, !.act = "voice", !.prev = p, !.next = n]
  <2>1. Replaces(h, k) /\ UNCHANGED <<prefs, menus>>
    BY <1>3 DEF UpdateVoiceControlSettings, Starts
  <2>2. IsMode(p)
    BY DEF ModesInv
  <2>3. n = [p EXCEPT !.voice = "on"]
    OBVIOUS
  <2> HIDE DEF n, p
  <2>5. DOMAIN NoHandler = HandlerFields
    BY DEF NoHandler, HandlerFields
  <2>6. IsHandler(k)
    BY BlankHandler DEF IsHandler
  <2>7. k.at = "checks" /\ k.admin = a /\ k.act = "voice" /\ k.prev = p /\ k.next = n
    BY <2>5 DEF HandlerFields
  <2> HIDE DEF k
  <2>4. HandlerInv(k)
    BY <2>2, <2>3, <2>6, <2>7 DEF HandlerInv
  <2> QED BY <2>1, <2>4, HandlerMoves
<1> QED BY <1>1, <1>2, <1>3

LEMMA StorersTurn ==
    ASSUME ModesInv, NEW h \in Handlers,
           \/ UpdateSettings(h) \/ UpdateDefaultExecutionMode(h) \/ Stored(h) \/ VoiceStored(h)
    PROVE  ModesInv'
<1> DEFINE k == handlers[h]
<1>0. HandlerInv(k) /\ IsHandler(k) /\ DOMAIN k = HandlerFields
  BY DEF ModesInv, HandlerInv, IsHandler
<1>1. CASE UpdateSettings(h)
  <2> DEFINE p == prefs[k.admin]
             n == NextPrefs(k, p)
             c == [k EXCEPT !.at = "validated", !.prev = p, !.next = n]
  <2>1. k.at = "found" /\ k.act \in Picks /\ Replaces(h, c) /\ UNCHANGED <<prefs, menus>>
    BY <1>1 DEF UpdateSettings, Picks
  <2>2. IsMode(p)
    BY <1>0, <2>1 DEF ModesInv, HandlerInv
  <2> DEFINE m == IF k.act = "model" THEN <<k.menu.provider, k.found>> ELSE SelectedModel(p)
             t == IF k.act = "thinkingSet" THEN k.found ELSE ThinkingFor(p.thinking, m)
             g == IF k.act = "agentSet" THEN k.found ELSE AgentFor(p.agent)
  <2>3. IsMode(n) /\ n.model = m /\ n.thinking = t /\ n.agent = g /\ n.voice = p.voice
    <3>1. n = [p EXCEPT !.model = m, !.thinking = t, !.agent = g]
      BY DEF NextPrefs
    <3>2. DOMAIN p = ModeFields
      BY <2>2 DEF IsMode
    <3> HIDE DEF m, t, g, n
    <3>3. IsMode(n)
      BY <2>2, <3>1 DEF IsMode
    <3> QED BY <3>1, <3>2, <3>3 DEF ModeFields
  <2>4. /\ k.act = "model" => m = <<k.menu.provider, k.found>>
        /\ k.act = "thinkingSet" => t = k.found /\ g \in {p.agent, "default"}
        /\ k.act = "agentSet" => g = k.found /\ t \in {p.thinking, "default"}
    BY DEF ThinkingFor, AgentFor
  <2> HIDE DEF m, t, g, n, p
  <2>5. /\ c.at = "validated" /\ c.prev = p /\ c.next = n /\ c.found = k.found /\ c.stale = k.stale
        /\ c.menu = k.menu /\ c.index = k.index /\ c.admin = k.admin /\ c.act = k.act
    BY <1>0 DEF HandlerFields
  <2>9. IsHandler(c)
    BY <1>0 DEF IsHandler
  <2> HIDE DEF c
  <2>6. Label(c) = Label(k)
    BY <2>5 DEF Label
  <2>7. NextIsChosen(c)
    BY <2>1, <2>2, <2>3, <2>4, <2>5 DEF NextIsChosen
  <2>8. HandlerInv(c)
    BY <1>0, <2>1, <2>5, <2>6, <2>7, <2>9 DEF HandlerInv
  <2> QED BY <2>1, <2>8, HandlerMoves
<1>2. CASE UpdateDefaultExecutionMode(h)
  <2> DEFINE taken == {[model |-> k.next.model, agent |-> k.next.agent]}
             c == [k EXCEPT !.at = "adopted", !.taken = taken]
  <2>1. k.at = "validated" /\ Replaces(h, c) /\ UNCHANGED <<prefs, menus>>
    BY <1>2 DEF UpdateDefaultExecutionMode
  <2>2. [model |-> k.next.model, agent |-> k.next.agent] \in taken
    OBVIOUS
  <2> HIDE DEF taken
  <2>3. /\ c.at = "adopted" /\ c.prev = k.prev /\ c.next = k.next /\ c.found = k.found /\ c.stale = k.stale
        /\ c.menu = k.menu /\ c.index = k.index /\ c.admin = k.admin /\ c.act = k.act /\ c.taken = taken
    BY <1>0 DEF HandlerFields
  <2>7. IsHandler(c)
    BY <1>0 DEF IsHandler
  <2> HIDE DEF c
  <2>4. Label(c) = Label(k)
    BY <2>3 DEF Label
  <2>5. NextIsChosen(c)
    BY <1>0, <2>1, <2>3 DEF NextIsChosen, HandlerInv
  <2>6. HandlerInv(c)
    BY <1>0, <2>1, <2>2, <2>3, <2>4, <2>5, <2>7 DEF HandlerInv
  <2> QED BY <2>1, <2>6, HandlerMoves
<1>3. CASE Stored(h)
  <2> DEFINE c == [NoHandler EXCEPT !.at = "asks", !.admin = k.admin, !.act = "main"]
  <2>1. /\ k.at = "adopted" /\ Replaces(h, c) /\ menus' = menus
        /\ prefs' = [prefs EXCEPT ![k.admin] = k.next]
    BY <1>3 DEF Stored
  <2>2. k.admin \in Admins /\ IsMode(k.next)
    BY <1>0, <2>1 DEF HandlerInv, NextIsChosen
  <2>3. HandlerInv(c)
    BY <2>2, NewCommand
  <2> HIDE DEF c, k
  <2> QED BY <2>1, <2>2, <2>3 DEF ModesInv, Replaces
<1>4. CASE VoiceStored(h)
  <2>1. /\ k.at = "checks" /\ Replaces(h, NoHandler) /\ menus' = menus
        /\ prefs' = [prefs EXCEPT ![k.admin] = k.next]
    BY <1>4 DEF VoiceStored, Frees
  <2>2. k.admin \in Admins /\ IsMode(k.next)
    BY <1>0, <2>1 DEF HandlerInv, IsMode
  <2> HIDE DEF k
  <2> QED BY <2>1, <2>2, FreeHandler DEF ModesInv, Replaces
<1> QED BY <1>1, <1>2, <1>3, <1>4

LEMMA MenuShown ==
    ASSUME ModesInv, NEW h \in Handlers, NEW m, ShownThinking(m), Shows(h, m)
    PROVE  ModesInv'
BY FreeHandler DEF Shows, Frees, Replaces, ModesInv

LEMMA ShowersTurn ==
    ASSUME ModesInv, NEW h \in Handlers, ShowMain(h) \/ ShowList(h) \/ ShowThinking(h) \/ ShowModels(h)
    PROVE  ModesInv'
<1>1. PICK m : Shows(h, m) /\ ShownThinking(m)
  <2>1. CASE ShowMain(h)
    <3>1. ShownThinking([NoMenu EXCEPT !.screen = "main"])
      BY DEF ShownThinking, NoMenu
    <3> QED BY <2>1, <3>1 DEF ShowMain
  <2>2. CASE ShowList(h)
    <3> DEFINE s == IF handlers[h].act \in {"back", "forward"} THEN handlers[h].menu.screen ELSE handlers[h].act
               ls == IF s = "agents" THEN Selectable ELSE Known.providers
               pg == Page(handlers[h])
    <3>1. s \in {"providers", "agents"} /\ Shows(h, [NoMenu EXCEPT !.screen = s, !.page = pg, !.list = ls])
      BY <2>2 DEF ShowList
    <3> HIDE DEF s, ls, pg
    <3>2. ShownThinking([NoMenu EXCEPT !.screen = s, !.page = pg, !.list = ls])
      BY <3>1 DEF ShownThinking, NoMenu
    <3> QED BY <3>1, <3>2
  <2>3. CASE ShowThinking(h)
    <3> DEFINE ls == IF SelectedModel(prefs[handlers[h].admin])[2] \in DeepModels THEN <<"high">> ELSE <<>>
    <3>1. Shows(h, [NoMenu EXCEPT !.screen = "thinking", !.list = ls])
      BY <2>3 DEF ShowThinking
    <3>2. ls \in {<<>>, <<"high">>}
      OBVIOUS
    <3> HIDE DEF ls
    <3>3. ShownThinking([NoMenu EXCEPT !.screen = "thinking", !.list = ls])
      BY <3>2 DEF ShownThinking, NoMenu
    <3> QED BY <3>1, <3>3
  <2>4. CASE ShowModels(h)
    <3> DEFINE p == IF handlers[h].act = "provider" THEN handlers[h].found ELSE handlers[h].menu.provider
               m == [screen |-> "models", provider |-> p, page |-> Page(handlers[h]), list |-> ModelsOf(p)]
    <3>1. Shows(h, m)
      BY <2>4 DEF ShowModels
    <3>2. ShownThinking(m)
      BY DEF ShownThinking
    <3> QED BY <3>1, <3>2
  <2> QED BY <2>1, <2>2, <2>3, <2>4
<1> QED BY <1>1, MenuShown

LEMMA ModesStep == ASSUME ModesInv, [ModeNext]_modes PROVE ModesInv'
<1>1. ASSUME NEW h \in Handlers, HandlerFails(h) \/ AdoptionFails(h) \/ KeyRejected(h) PROVE ModesInv'
  <2>1. Replaces(h, NoHandler) /\ UNCHANGED <<prefs, menus>>
    BY <1>1 DEF HandlerFails, AdoptionFails, KeyRejected, Frees
  <2> QED BY <2>1, FreeHandler, HandlerMoves
<1>2. CASE OpenCodeChanges \/ UNCHANGED modes
  BY <1>2 DEF OpenCodeChanges, modes, ModesInv
<1>3. CASE PreferencesRestart
  BY <1>3, FreeHandler DEF PreferencesRestart, ModesInv
<1> QED BY <1>1, <1>2, <1>3, StartersTurn, ShowersTurn, FindersTurn, StorersTurn DEF ModeNext

(* What a step stores was on the button. *)
Chose(k, a, n) ==
    /\ k.admin = a
    /\ k.act = "voice" => [n EXCEPT !.voice = k.prev.voice] = k.prev
    /\ k.act # "voice" =>
          /\ [model |-> n.model, agent |-> n.agent] \in k.taken
          /\ n.voice = k.prev.voice
          /\ k.stale \/
               CASE k.act = "model" -> n.model = <<k.menu.provider, Label(k)>>
                 [] k.act = "agentSet" -> n.agent = Label(k) /\ n.thinking \in {k.prev.thinking, "default"}
                 [] OTHER -> n.thinking = Label(k) /\ n.agent \in {k.prev.agent, "default"}

StoresChoice == \A a \in Admins : prefs'[a] # prefs[a] => \E h \in Handlers : Chose(handlers[h], a, prefs'[a])

LEMMA ChoiceStored == ASSUME ModesInv, [ModeNext]_modes PROVE StoresChoice
<1>1. ASSUME NEW h \in Handlers, Stored(h) PROVE StoresChoice
  <2> DEFINE k == handlers[h]
  <2>1. /\ k.at = "adopted" /\ prefs' = [prefs EXCEPT ![k.admin] = k.next]
    BY <1>1 DEF Stored
  <2>2. /\ k.admin \in Admins /\ NextIsChosen(k) /\ (k.stale \/ k.found = Label(k))
        /\ [model |-> k.next.model, agent |-> k.next.agent] \in k.taken
    BY <2>1 DEF ModesInv, HandlerInv, NextIsChosen
  <2>3. prefs'[k.admin] = k.next /\ \A a \in Admins : a # k.admin => prefs'[a] = prefs[a]
    BY <2>1, <2>2 DEF ModesInv
  <2> HIDE DEF k
  <2>4. k.act \in Picks /\ k.act # "voice" /\ k.next.voice = k.prev.voice
    BY <2>2 DEF NextIsChosen, Picks
  <2>5. k.stale \/
          CASE k.act = "model" -> k.next.model = <<k.menu.provider, Label(k)>>
            [] k.act = "agentSet" -> k.next.agent = Label(k) /\ k.next.thinking \in {k.prev.thinking, "default"}
            [] OTHER -> k.next.thinking = Label(k) /\ k.next.agent \in {k.prev.agent, "default"}
    <3> SUFFICES ASSUME ~k.stale
                 PROVE  CASE k.act = "model" -> k.next.model = <<k.menu.provider, Label(k)>>
                          [] k.act = "agentSet" -> k.next.agent = Label(k) /\ k.next.thinking \in {k.prev.thinking, "default"}
                          [] OTHER -> k.next.thinking = Label(k) /\ k.next.agent \in {k.prev.agent, "default"}
      OBVIOUS
    <3>1. CASE k.act = "model"
      <4>1. k.next.model = <<k.menu.provider, Label(k)>> /\ k.act # "agentSet"
        BY <2>2, <3>1 DEF NextIsChosen
      <4> QED BY <3>1, <4>1, Zenon
    <3>2. CASE k.act = "agentSet"
      <4>1. k.next.agent = Label(k) /\ k.next.thinking \in {k.prev.thinking, "default"} /\ k.act # "model"
        BY <2>2, <3>2 DEF NextIsChosen
      <4> QED BY <3>2, <4>1, Zenon
    <3>3. CASE k.act = "thinkingSet"
      <4>1. k.next.thinking = Label(k) /\ k.next.agent \in {k.prev.agent, "default"} /\ k.act # "model" /\ k.act # "agentSet"
        BY <2>2, <3>3 DEF NextIsChosen
      <4> QED BY <4>1, Zenon
    <3> QED BY <2>4, <3>1, <3>2, <3>3 DEF Picks
  <2>6. Chose(k, k.admin, k.next)
    BY <2>2, <2>4, <2>5, Zenon DEF Chose
  <2> QED BY <2>3, <2>6 DEF StoresChoice, k
<1>2. ASSUME NEW h \in Handlers, VoiceStored(h) PROVE StoresChoice
  <2> DEFINE k == handlers[h]
  <2>1. k.at = "checks" /\ prefs' = [prefs EXCEPT ![k.admin] = k.next]
    BY <1>2 DEF VoiceStored
  <2>2. /\ k.admin \in Admins /\ k.act = "voice" /\ IsMode(k.prev)
        /\ k.next = [k.prev EXCEPT !.voice = "on"]
    BY <2>1 DEF ModesInv, HandlerInv
  <2>3. prefs'[k.admin] = k.next /\ \A a \in Admins : a # k.admin => prefs'[a] = prefs[a]
    BY <2>1, <2>2 DEF ModesInv
  <2> HIDE DEF k
  <2>4. [k.next EXCEPT !.voice = k.prev.voice] = k.prev
    <3> DEFINE p == k.prev
               q == [[p EXCEPT !.voice = "on"] EXCEPT !.voice = p.voice]
    <3>1. p = [x \in ModeFields |-> p[x]] /\ DOMAIN q = ModeFields
      BY <2>2 DEF IsMode
    <3>2. \A x \in ModeFields : q[x] = p[x]
      BY <3>1
    <3>3. q = [x \in ModeFields |-> q[x]]
      BY <3>1
    <3>4. q = p
      BY <3>1, <3>2, <3>3
    <3> QED BY <2>2, <3>4
  <2>5. Chose(k, k.admin, k.next)
    BY <2>2, <2>4, Zenon DEF Chose
  <2> QED BY <2>3, <2>5 DEF StoresChoice, k
<1>3. CASE prefs' = prefs
  BY <1>3 DEF StoresChoice
<1>4. \/ prefs' = prefs \/ \E h \in Handlers : Stored(h) \/ VoiceStored(h)
  BY ZenonT(60) DEF ModeNext, modes, ButtonPressed, Commanded, UpdateVoiceControlSettings, Starts, ShowMain, ShowList, ShowThinking,
         ShowModels, Shows, FindProvider, FindModel, FindAgent, FindFixed, Found, HandlerFails, UpdateSettings,
         UpdateDefaultExecutionMode, AdoptionFails, KeyRejected, OpenCodeChanges, PreferencesRestart
<1> QED BY <1>1, <1>2, <1>3, <1>4

(* What is stored for an administrator is what one of their buttons named, *)
(* and what the browser surface has adopted (ModeControl,                  *)
(* TelegramPreferencesService.updateSettings).                             *)
THEOREM ChosenModesAreStored == ModeSpec => StoresWhatWasChosen
<1>1. ModeInit => ModesInv
  BY ModesStart
<1>2. ModesInv /\ [ModeNext]_modes => ModesInv'
  BY ModesStep
<1>3. ModesInv /\ [ModeNext]_modes => [StoresChoice]_prefs
  BY ChoiceStored
<1> QED BY <1>1, <1>2, <1>3, PTL DEF ModeSpec, StoresWhatWasChosen, StoresChoice, Chose

-----------------------------------------------------------------------------
(* Browser sessions *)

BrowserSpec == BrowserInit /\ [][BrowserNext]_browser

TabWindow == [opened : {"telegram", "link"}, token : Nat, expired : BOOLEAN,
           refreshing : BOOLEAN, booting : BOOLEAN, lastRefresh : Nat]
TabCall == [kind : {"api", "refresh", "boot"}, token : Nat, issued : Nat,
         answer : {"none", "ok", "lost", "tokenInvalid", "initDataInvalid"}]
TabActivity == [touched : Nat, served : Nat, failed : Nat, trouble : Nat]

WindowTyped ==
    /\ tick \in Nat /\ window \in TabWindow /\ traffic \subseteq TabCall /\ activity \in TabActivity
    /\ window.token <= tick /\ activity.served <= tick
    /\ \A c \in traffic : c.issued <= tick

(* One request of a kind at a time, and the flags tell which. *)
RequestsInv ==
    /\ \A c, d \in traffic : c.kind = d.kind => c = d
    /\ window.refreshing <=> \E c \in traffic : c.kind = "refresh"
    /\ window.booting <=> \E c \in traffic : c.kind = "boot"

(* A first token is asked for where there is none, and a new one for the   *)
(* one there is, which an act of the user has called for.                  *)
TokenInv ==
    /\ window.booting => window.token = 0 /\ ~window.expired /\ ~window.refreshing
    /\ window.refreshing /\ window.token = 0 => window.expired
    /\ window.refreshing => activity.touched >= window.token
    /\ window.token # 0 => window.lastRefresh = window.token

(* The last act was followed by a refresh, or came too soon after one. *)
ServedInv ==
    /\ \A c \in traffic : c.kind # "api" /\ c.answer = "ok" => activity.served <= c.issued
    /\ window.token # 0 /\ ~window.refreshing =>
          activity.served < window.lastRefresh + RefreshEvery \/ activity.failed >= activity.served

BrowserInv == WindowTyped /\ RequestsInv /\ TokenInv /\ ServedInv

LEMMA SessionEnds ==
    ASSUME NEW w \in TabWindow
    PROVE  LET e == Ended(w)
           IN /\ e \in TabWindow /\ e.token = 0 /\ e.expired = TRUE /\ e.refreshing = w.refreshing
              /\ e.booting = w.booting /\ e.lastRefresh = w.lastRefresh
BY DEF Ended, TabWindow

LEMMA TokenTaken ==
    ASSUME NEW w \in TabWindow, NEW t \in Nat
    PROVE  LET e == TokenStored(w, t)
           IN /\ e \in TabWindow /\ e.token = t /\ e.lastRefresh = t /\ e.refreshing = w.refreshing
              /\ e.booting = w.booting /\ e.expired = w.expired
BY DEF TokenStored, TabWindow

LEMMA WindowOpens == ASSUME BrowserInit PROVE BrowserInv
<1>1. RefreshEvery \in Nat \ {0}
  BY BrowserBounds
<1>2. PICK opened \in {"telegram", "link"} :
          window = [opened |-> opened, token |-> IF opened = Link THEN 1 ELSE 0,
                    expired |-> FALSE, refreshing |-> FALSE, booting |-> FALSE,
                    lastRefresh |-> IF opened = Link THEN 1 ELSE 0]
  BY DEF BrowserInit, Telegram, Link
<1>3. window \in TabWindow /\ window.token <= 1 /\ window.lastRefresh = window.token /\ ~window.refreshing /\ ~window.booting
  BY <1>2 DEF TabWindow
<1> QED BY <1>1, <1>3 DEF BrowserInit, BrowserInv, WindowTyped, RequestsInv, TokenInv, ServedInv, TabActivity

(* A request gets its answer. *)
LEMMA TabCallAnswered ==
    ASSUME BrowserInv, NEW c \in traffic, c.answer = "none",
           NEW d \in TabCall, d.kind = c.kind, d.issued <= tick,
           d.kind # "api" /\ d.answer = "ok" => d.issued = tick,
           traffic' = (traffic \ {c}) \cup {d},
           NEW n \in Nat, activity' \in {activity, [activity EXCEPT !.trouble = n]},
           UNCHANGED <<tick, window>>
    PROVE  BrowserInv'
<1>1. /\ activity' \in TabActivity /\ activity'.touched = activity.touched
      /\ activity'.served = activity.served /\ activity'.failed = activity.failed
  BY DEF BrowserInv, WindowTyped, TabActivity
<1>2. WindowTyped'
  BY <1>1 DEF BrowserInv, WindowTyped
<1>3. RequestsInv'
  BY DEF BrowserInv, RequestsInv
<1>4. TokenInv' /\ ServedInv'
  BY <1>1 DEF BrowserInv, WindowTyped, TokenInv, ServedInv, TabActivity
<1> QED BY <1>2, <1>3, <1>4 DEF BrowserInv

LEMMA BackendTurn ==
    ASSUME BrowserInv, NEW c \in traffic, Handled(c) \/ CallLost(c)
    PROVE  BrowserInv'
<1>1. c \in TabCall /\ tick \in Nat /\ activity \in TabActivity
  BY DEF BrowserInv, WindowTyped
<1>2. CASE Handled(c)
  <2> DEFINE d == IF TokenValid(c.token) \/ (c.token = 0 /\ InitDataValid)
                  THEN [c EXCEPT !.answer = "ok", !.issued = IF c.kind = "api" THEN 0 ELSE tick]
                  ELSE [c EXCEPT !.answer = IF c.token # 0 THEN "tokenInvalid" ELSE "initDataInvalid"]
  <2>1. /\ d \in TabCall /\ d.kind = c.kind /\ (d.kind # "api" /\ d.answer = "ok" => d.issued = tick)
        /\ d.issued \in {0, tick, c.issued}
    BY <1>1 DEF TabCall
  <2>2. c.issued <= tick
    BY DEF BrowserInv, WindowTyped
  <2>3. c.answer = "none" /\ traffic' = (traffic \ {c}) \cup {d} /\ UNCHANGED <<tick, window, activity>>
    BY <1>2 DEF Handled
  <2> HIDE DEF d
  <2> QED BY <1>1, <2>1, <2>2, <2>3, TabCallAnswered
<1>3. CASE CallLost(c)
  <2> DEFINE d == [c EXCEPT !.answer = "lost"]
             n == activity.trouble + 1
  <2>1. d \in TabCall /\ d.kind = c.kind /\ d.answer = "lost" /\ d.issued = c.issued /\ n \in Nat
    BY <1>1 DEF TabCall, TabActivity
  <2>2. c.issued <= tick
    BY DEF BrowserInv, WindowTyped
  <2>3. c.answer = "none" /\ traffic' = (traffic \ {c}) \cup {d} /\ UNCHANGED <<tick, window>>
    BY <1>3 DEF CallLost
  <2>4. activity' = [activity EXCEPT !.trouble = n]
    BY <1>3 DEF CallLost
  <2> HIDE DEF d, n
  <2> QED BY <2>1, <2>2, <2>3, <2>4, TabCallAnswered
<1> QED BY <1>2, <1>3

LEMMA ActsTurn == ASSUME BrowserInv, UserActs PROVE BrowserInv'
<1> DEFINE served == IF window.expired \/ ~TokenValid(window.token) \/ \E c \in traffic : c.kind = "refresh"
                     THEN activity.served ELSE tick
<1>1. /\ activity' = [activity EXCEPT !.touched = tick, !.served = served]
      /\ UNCHANGED tick
  BY DEF UserActs
<1>2. /\ served \in {activity.served, tick}
      /\ served # activity.served => ~window.expired /\ TokenValid(window.token) /\ ~window.refreshing
  BY DEF BrowserInv, RequestsInv
<1> HIDE DEF served
<1>0. tick \in Nat /\ activity \in TabActivity /\ served \in Nat /\ served <= tick /\ activity.served <= tick
  BY <1>2 DEF BrowserInv, WindowTyped, TabActivity
<1>3. /\ tick \in Nat /\ activity' \in TabActivity /\ activity'.touched = tick /\ activity'.served = served
      /\ activity'.failed = activity.failed /\ served <= tick /\ served \in Nat
      /\ window \in TabWindow /\ activity.served <= tick /\ RefreshEvery \in Nat
  BY <1>0, <1>1, BrowserBounds DEF BrowserInv, WindowTyped, TabActivity
<1>4. ASSUME NEW k \in {"refresh", "boot"}, NEW t \in Nat, traffic' = traffic \cup {ApiCall(k, t)}
      PROVE  /\ traffic' \subseteq TabCall /\ \A c \in traffic' : c.issued <= tick
             /\ \A c \in traffic' : c.answer = "ok" => c \in traffic
             /\ \A c \in traffic' : c \in traffic \/ c.kind = k
             /\ \E c \in traffic' : c.kind = k
             /\ (\A c \in traffic : c.kind # k) => \A c, d \in traffic' : c.kind = d.kind => c = d
  <2>1. ApiCall(k, t) \in TabCall /\ ApiCall(k, t).kind = k /\ ApiCall(k, t).answer = "none" /\ ApiCall(k, t).issued = 0
    BY DEF ApiCall, TabCall
  <2> QED BY <1>4, <2>1, <1>3 DEF BrowserInv, WindowTyped, RequestsInv
<1>5. CASE window' = window /\ traffic' = traffic /\ (served = activity.served \/ ~Due(window))
  <2>1. served < window.lastRefresh + RefreshEvery \/ served = activity.served
    BY <1>2, <1>3, <1>5 DEF Due, TabWindow
  <2>2. \A c \in traffic : c.kind # "api" /\ c.answer = "ok" => served <= c.issued
    <3>1. served # activity.served => window.token # 0
      BY <1>2 DEF TokenValid
    <3>2. served # activity.served => \A c \in traffic : c.kind \notin {"refresh", "boot"}
      BY <1>2, <3>1 DEF BrowserInv, RequestsInv, TokenInv
    <3> QED BY <3>2 DEF BrowserInv, ServedInv, WindowTyped, TabCall
  <2> QED BY <1>1, <1>3, <1>5, <2>1, <2>2 DEF BrowserInv, WindowTyped, RequestsInv, TokenInv, ServedInv, TabWindow
<1>6. CASE window.token = 0 /\ Bootstrap(window)
  <2>1. served = activity.served
    BY <1>2, <1>6 DEF TokenValid
  <2>2. CASE ~Boots(window)
    BY <1>5, <1>6, <2>1, <2>2 DEF Bootstrap
  <2>3. CASE Boots(window)
    <3>1. window' = [window EXCEPT !.booting = TRUE] /\ traffic' = traffic \cup {ApiCall("boot", 0)}
      BY <1>6, <2>3 DEF Bootstrap
    <3>2. ~window.expired /\ ~window.booting /\ ~window.refreshing
      BY <1>6, <2>3 DEF Boots, BrowserInv, TokenInv, RequestsInv, WindowTyped, TabWindow
    <3>3. /\ window' \in TabWindow /\ window'.booting /\ window'.token = 0 /\ ~window'.refreshing
          /\ ~window'.expired /\ window'.lastRefresh = window.lastRefresh
      BY <1>3, <1>6, <3>1, <3>2 DEF TabWindow
    <3>4. \A c \in traffic : c.kind \notin {"refresh", "boot"}
      BY <3>2 DEF BrowserInv, RequestsInv
    <3>5. /\ traffic' \subseteq TabCall /\ \A c \in traffic' : c.issued <= tick
          /\ \A c \in traffic' : c.answer = "ok" => c \in traffic
          /\ \A c \in traffic' : c \in traffic \/ c.kind = "boot"
          /\ \E c \in traffic' : c.kind = "boot"
          /\ \A c, d \in traffic' : c.kind = d.kind => c = d
      BY <1>4, <3>1, <3>4
    <3>6. WindowTyped' /\ RequestsInv'
      BY <1>1, <1>3, <3>3, <3>4, <3>5 DEF WindowTyped, RequestsInv
    <3>7. TokenInv' /\ ServedInv'
      BY <1>3, <2>1, <3>3, <3>5 DEF BrowserInv, TokenInv, ServedInv
    <3> QED BY <3>6, <3>7 DEF BrowserInv
  <2> QED BY <2>2, <2>3
<1>7. CASE window' = Ended(window) /\ UNCHANGED traffic /\ window.token # 0 /\ ~window.refreshing /\ ~TokenValid(window.token)
  <2>1. /\ window' \in TabWindow /\ window'.token = 0 /\ window'.expired /\ window'.refreshing = window.refreshing
        /\ window'.booting = window.booting
    BY <1>3, <1>7 DEF Ended, TabWindow
  <2>2. served = activity.served
    BY <1>2, <1>7
  <2> QED BY <1>1, <1>3, <1>7, <2>1, <2>2 DEF BrowserInv, WindowTyped, RequestsInv, TokenInv, ServedInv
<1>8. CASE /\ window' = [window EXCEPT !.refreshing = TRUE]
           /\ traffic' = traffic \cup {ApiCall("refresh", window.token)}
           /\ window.token # 0 /\ ~window.expired /\ ~window.refreshing
  <2>1. /\ window' \in TabWindow /\ window'.refreshing /\ window'.token = window.token
        /\ window'.expired = window.expired /\ window'.booting = window.booting
        /\ window'.lastRefresh = window.lastRefresh
    BY <1>3, <1>8 DEF TabWindow
  <2>2. ~window.booting /\ \A c \in traffic : c.kind \notin {"refresh", "boot"}
    BY <1>8 DEF BrowserInv, RequestsInv, TokenInv
  <2>3. window.token \in Nat /\ window.token <= tick
    BY DEF BrowserInv, WindowTyped, TabWindow
  <2>4. /\ traffic' \subseteq TabCall /\ \A c \in traffic' : c.issued <= tick
        /\ \A c \in traffic' : c.answer = "ok" => c \in traffic
        /\ \A c \in traffic' : c \in traffic \/ c.kind = "refresh"
        /\ \E c \in traffic' : c.kind = "refresh"
        /\ \A c, d \in traffic' : c.kind = d.kind => c = d
    BY <1>4, <1>8, <2>2, <2>3
  <2>5. WindowTyped' /\ RequestsInv'
    BY <1>1, <1>3, <2>1, <2>2, <2>3, <2>4 DEF WindowTyped, RequestsInv
  <2>6. \A c \in traffic' : c.kind # "api" => c.answer # "ok"
    BY <2>2, <2>4 DEF BrowserInv, WindowTyped, TabCall
  <2>7. TokenInv' /\ ServedInv'
    BY <1>3, <1>8, <2>1, <2>2, <2>3, <2>6 DEF BrowserInv, TokenInv, ServedInv
  <2> QED BY <2>5, <2>7 DEF BrowserInv
<1>9. CASE window.expired \/ window.refreshing
  BY <1>2, <1>5, <1>6, <1>9 DEF UserActs
<1> QED BY <1>2, <1>5, <1>6, <1>7, <1>8, <1>9 DEF UserActs

LEMMA WindowTurn ==
    ASSUME BrowserInv, RequestSent \/ ExpiryNoticed \/ PageReloads \/ TickPasses
    PROVE  BrowserInv'
<1>1. tick \in Nat /\ window \in TabWindow /\ activity \in TabActivity /\ window.token <= tick
  BY DEF BrowserInv, WindowTyped
<1>2. CASE RequestSent
  <2> DEFINE d == ApiCall("api", window.token)
  <2>1. d \in TabCall /\ d.kind = "api" /\ d.issued = 0 /\ d.answer = "none"
    BY <1>1 DEF ApiCall, TabCall, TabWindow
  <2>2. traffic' = traffic \cup {d} /\ (\A c \in traffic : c.kind # "api") /\ UNCHANGED <<tick, window, activity>>
    BY <1>2 DEF RequestSent
  <2> HIDE DEF d
  <2>3. WindowTyped' /\ RequestsInv'
    BY <1>1, <2>1, <2>2 DEF BrowserInv, WindowTyped, RequestsInv
  <2>4. TokenInv' /\ ServedInv'
    BY <2>1, <2>2 DEF BrowserInv, TokenInv, ServedInv
  <2> QED BY <2>3, <2>4 DEF BrowserInv
<1>3. CASE ExpiryNoticed
  <2>1. window' = Ended(window) /\ window.token # 0 /\ UNCHANGED <<tick, traffic, activity>>
    BY <1>3 DEF ExpiryNoticed
  <2>2. /\ window' \in TabWindow /\ window'.token = 0 /\ window'.expired /\ window'.refreshing = window.refreshing
        /\ window'.booting = window.booting
    BY <1>1, <2>1 DEF Ended, TabWindow
  <2> QED BY <1>1, <2>1, <2>2 DEF BrowserInv, WindowTyped, RequestsInv, TokenInv, ServedInv, TabActivity
<1>4. CASE PageReloads
  <2> DEFINE w == [window EXCEPT !.expired = FALSE, !.refreshing = FALSE, !.booting = FALSE,
                                 !.lastRefresh = window.token]
             failed == IF \E c \in traffic : c.kind = "refresh" THEN tick ELSE activity.failed
  <2>1. /\ window' = IF Boots(w) THEN [w EXCEPT !.booting = TRUE] ELSE w
        /\ traffic' = IF Boots(w) THEN {ApiCall("boot", 0)} ELSE {}
        /\ activity' = [activity EXCEPT !.trouble = @ + 1, !.failed = failed]
        /\ UNCHANGED tick
    BY <1>4 DEF PageReloads
  <2>2. /\ w \in TabWindow /\ ~w.expired /\ ~w.refreshing /\ ~w.booting /\ w.lastRefresh = w.token
        /\ w.token = window.token
    BY <1>1 DEF TabWindow
  <2>3. failed \in Nat /\ (window.refreshing => failed = tick) /\ (~window.refreshing => failed = activity.failed)
    BY <1>1 DEF BrowserInv, RequestsInv, TabActivity
  <2> HIDE DEF w, failed
  <2>4. /\ window' \in TabWindow /\ ~window'.expired /\ ~window'.refreshing /\ window'.lastRefresh = window'.token
        /\ window'.token = window.token /\ window'.booting = Boots(w)
    BY <2>1, <2>2 DEF TabWindow, Boots
  <2>5. /\ ApiCall("boot", 0) \in TabCall /\ ApiCall("boot", 0).kind = "boot"
        /\ ApiCall("boot", 0).issued = 0 /\ ApiCall("boot", 0).answer = "none"
    BY DEF ApiCall, TabCall
  <2>6. /\ activity' \in TabActivity /\ activity'.failed = failed /\ activity'.served = activity.served
    <3> DEFINE n == activity.trouble + 1
    <3>1. n \in Nat /\ activity' = [activity EXCEPT !.trouble = n, !.failed = failed]
      BY <1>1, <2>1 DEF TabActivity
    <3> HIDE DEF n
    <3> QED BY <1>1, <2>3, <3>1 DEF TabActivity
  <2>7. WindowTyped'
    BY <1>1, <2>1, <2>4, <2>5, <2>6 DEF BrowserInv, WindowTyped
  <2>8. RequestsInv'
    BY <2>1, <2>4, <2>5 DEF RequestsInv
  <2>9. TokenInv'
    BY <2>2, <2>4 DEF TokenInv, Boots
  <2>10. ServedInv'
    <3>1. window.token # 0 /\ window.refreshing => failed >= activity.served
      BY <2>3, <1>1 DEF BrowserInv, WindowTyped, TabActivity
    <3>2. window.token # 0 /\ ~window.refreshing =>
             activity.served < window.token + RefreshEvery \/ failed >= activity.served
      BY <2>3 DEF BrowserInv, ServedInv, TokenInv
    <3> QED BY <2>1, <2>4, <2>5, <2>6, <3>1, <3>2 DEF ServedInv
  <2> QED BY <2>7, <2>8, <2>9, <2>10 DEF BrowserInv
<1>5. CASE TickPasses
  <2>1. tick' = tick + 1 /\ UNCHANGED <<window, traffic, activity>>
    BY <1>5 DEF TickPasses
  <2>2. \A c \in traffic : c.issued \in Nat
    BY DEF BrowserInv, WindowTyped, TabCall
  <2>3. window.token \in Nat /\ activity.served \in Nat
    BY <1>1 DEF TabWindow, TabActivity
  <2> QED BY <1>1, <2>1, <2>2, <2>3 DEF BrowserInv, WindowTyped, RequestsInv, TokenInv, ServedInv
<1> QED BY <1>2, <1>3, <1>4, <1>5

(* What a window is after an answer: as before, ended or with a new token. *)
LEMMA AnswerReturns ==
    ASSUME BrowserInv, NEW c \in traffic, CallReturned(c)
    PROVE  BrowserInv'
<1>1. /\ tick \in Nat /\ window \in TabWindow /\ activity \in TabActivity /\ window.token <= tick /\ c \in TabCall
      /\ c.issued <= tick /\ activity.served <= tick /\ RefreshEvery \in Nat \ {0}
  BY BrowserBounds DEF BrowserInv, WindowTyped
<1>2. traffic' = traffic \ {c} /\ UNCHANGED tick
  BY DEF CallReturned
<1>3. \A d \in traffic' : d.kind # c.kind
  BY <1>2 DEF BrowserInv, RequestsInv
<1>4. /\ traffic' \subseteq TabCall /\ \A d \in traffic' : d.issued <= tick
      /\ \A d, e \in traffic' : d.kind = e.kind => d = e
  BY <1>2 DEF BrowserInv, WindowTyped, RequestsInv
<1>5. CASE c.kind = "refresh"
  <2> DEFINE free == [window EXCEPT !.refreshing = FALSE]
  <2>1. window.refreshing /\ ~window.booting
    BY <1>5 DEF BrowserInv, RequestsInv, TokenInv
  <2>2. /\ free \in TabWindow /\ ~free.refreshing /\ ~free.booting /\ free.token = window.token
        /\ free.lastRefresh = window.lastRefresh
    BY <1>1, <2>1 DEF TabWindow
  <2>3. window' = RefreshReturned(window, c)
    BY <1>5 DEF CallReturned
  <2>4. CASE c.answer = "ok"
    <3>1. window' = TokenStored(free, c.issued) /\ activity' = activity
      BY <1>5, <2>3, <2>4 DEF RefreshReturned, CallReturned
    <3> HIDE DEF free
    <3>2. /\ window' \in TabWindow /\ ~window'.refreshing /\ ~window'.booting /\ window'.token = c.issued
          /\ window'.lastRefresh = c.issued
      BY <2>2, <3>1, <1>1 DEF TokenStored, TabWindow, TabCall
    <3>3. activity.served <= c.issued
      BY <1>5, <2>4 DEF BrowserInv, ServedInv
    <3>4. WindowTyped' /\ RequestsInv'
      BY <1>1, <1>2, <1>3, <1>4, <1>5, <2>1, <3>1, <3>2 DEF BrowserInv, WindowTyped, RequestsInv
    <3>5. TokenInv' /\ ServedInv'
      BY <1>1, <1>2, <3>1, <3>2, <3>3 DEF BrowserInv, TokenInv, ServedInv, TabActivity, TabCall
    <3> QED BY <3>4, <3>5 DEF BrowserInv
  <2>5. CASE c.answer # "ok"
    <3>1. activity' = [activity EXCEPT !.failed = tick]
      BY <1>5, <2>5 DEF CallReturned
    <3>2. activity' \in TabActivity /\ activity'.failed = tick /\ activity'.served = activity.served
      BY <1>1, <3>1 DEF TabActivity
    <3>3. window' = free \/ window' = Ended(free) \/ window' = Ended(Ended(free))
      BY <2>3, <2>5 DEF RefreshReturned, RefusalHeard
    <3> HIDE DEF free
    <3>5. /\ window' \in TabWindow /\ ~window'.refreshing /\ ~window'.booting
          /\ window'.token \in {0, window.token} /\ window'.lastRefresh = window.lastRefresh
      BY <2>2, <3>3, SessionEnds, ZenonT(60)
    <3>6. WindowTyped' /\ RequestsInv'
      BY <1>1, <1>2, <1>3, <1>4, <1>5, <2>1, <3>2, <3>5 DEF BrowserInv, WindowTyped, RequestsInv
    <3>7. TokenInv' /\ ServedInv'
      BY <1>1, <1>2, <3>2, <3>5 DEF BrowserInv, TokenInv, ServedInv, TabActivity
    <3> QED BY <3>6, <3>7 DEF BrowserInv
  <2> QED BY <2>4, <2>5
<1>6. CASE c.kind = "boot"
  <2> DEFINE free == [window EXCEPT !.booting = FALSE]
  <2>1. window.booting /\ window.token = 0 /\ ~window.refreshing /\ activity' = activity
    BY <1>6 DEF BrowserInv, RequestsInv, TokenInv, CallReturned
  <2>2. free \in TabWindow /\ ~free.refreshing /\ ~free.booting /\ free.token = 0
    BY <1>1, <2>1 DEF TabWindow
  <2>3. window' = BootReturned(window, c)
    BY <1>6 DEF CallReturned
  <2>4. window' = free \/ window' = Ended(free) \/ (c.answer = "ok" /\ window' = TokenStored(free, c.issued))
    BY <2>3, Zenon DEF BootReturned
  <2> HIDE DEF free
  <2>5. /\ window' \in TabWindow /\ ~window'.refreshing /\ ~window'.booting
        /\ window'.token = 0 \/ (c.answer = "ok" /\ window'.token = c.issued /\ window'.lastRefresh = c.issued)
    <3>1. c.issued \in Nat
      BY <1>1 DEF TabCall
    <3>2. CASE c.answer = "ok" /\ window' = TokenStored(free, c.issued)
      BY <2>2, <3>1, <3>2, TokenTaken
    <3>3. CASE window' = Ended(free)
      BY <2>2, <3>3, SessionEnds
    <3> QED BY <2>2, <2>4, <3>2, <3>3
  <2>6. c.answer = "ok" => activity.served <= c.issued
    BY <1>6 DEF BrowserInv, ServedInv
  <2>7. WindowTyped' /\ RequestsInv'
    BY <1>1, <1>2, <1>3, <1>4, <1>6, <2>1, <2>5 DEF BrowserInv, WindowTyped, RequestsInv
  <2>8. TokenInv' /\ ServedInv'
    BY <1>1, <1>2, <2>1, <2>5, <2>6 DEF BrowserInv, TokenInv, ServedInv, TabActivity, TabCall
  <2> QED BY <2>7, <2>8 DEF BrowserInv
<1>7. CASE c.kind = "api"
  <2>1. activity' = activity /\ window' = RefusalHeard(window, c)
    BY <1>7 DEF CallReturned
  <2>2. \/ window' = window
        \/ window' = Ended(window) /\ window.token # 0
    BY <2>1 DEF RefusalHeard, EndsSession
  <2>3. /\ window' \in TabWindow /\ window'.refreshing = window.refreshing /\ window'.booting = window.booting
        /\ window' = window \/ (window.token # 0 /\ window'.token = 0 /\ window'.expired)
    BY <1>1, <2>2, SessionEnds
  <2>4. RequestsInv'
    BY <1>2, <1>3, <1>4, <1>7, <2>3 DEF BrowserInv, RequestsInv
  <2>5. WindowTyped' /\ TokenInv' /\ ServedInv'
    BY <1>1, <1>2, <1>4, <2>1, <2>3 DEF BrowserInv, WindowTyped, TokenInv, ServedInv, TabActivity
  <2> QED BY <2>4, <2>5 DEF BrowserInv
<1> QED BY <1>1, <1>5, <1>6, <1>7 DEF TabCall

LEMMA BrowserStep == ASSUME BrowserInv, [BrowserNext]_browser PROVE BrowserInv'
<1>1. CASE UNCHANGED browser
  BY <1>1 DEF browser, BrowserInv, WindowTyped, RequestsInv, TokenInv, ServedInv
<1> QED BY <1>1, ActsTurn, WindowTurn, BackendTurn, AnswerReturns DEF BrowserNext

(* Sessions end for a reason, and idle tabs renew none. *)
LEMMA EndsAndRenewals ==
    ASSUME BrowserInv, [BrowserNext]_browser
    PROVE  EndsForAReason /\ IdleTabsDoNotRenew
<1>1. tick \in Nat /\ window \in TabWindow /\ activity \in TabActivity
  BY DEF BrowserInv, WindowTyped
<1>2. CASE UNCHANGED window
  BY <1>2, <1>1 DEF EndsForAReason, IdleTabsDoNotRenew, TabWindow
<1>3. CASE window' = Ended(window) /\ window.token # 0 /\ ~TokenValid(window.token)
  <2>1. window'.token = 0
    BY <1>1, <1>3 DEF Ended, TabWindow
  <2>2. \/ activity.served < window.lastRefresh + RefreshEvery
        \/ \E c \in traffic : c.kind = "refresh"
        \/ activity.failed >= activity.served
    BY <1>3 DEF BrowserInv, ServedInv, RequestsInv
  <2> QED BY <1>3, <2>1, <2>2 DEF EndsForAReason, IdleTabsDoNotRenew
<1>4. CASE UserActs
  <2>1. \/ UNCHANGED window
        \/ window' = Ended(window) /\ window.token # 0 /\ ~TokenValid(window.token)
        \/ window' = [window EXCEPT !.refreshing = TRUE]
        \/ window' = [window EXCEPT !.booting = TRUE]
    BY <1>4 DEF UserActs, Bootstrap
  <2>2. ASSUME window' = [window EXCEPT !.refreshing = TRUE] \/ window' = [window EXCEPT !.booting = TRUE]
        PROVE  window'.expired = window.expired /\ window'.token = window.token
    BY <1>1, <2>2 DEF TabWindow
  <2> QED BY <1>2, <1>3, <2>1, <2>2 DEF EndsForAReason, IdleTabsDoNotRenew
<1>5. CASE PageReloads
  <2> DEFINE w == [window EXCEPT !.expired = FALSE, !.refreshing = FALSE, !.booting = FALSE,
                                 !.lastRefresh = window.token]
  <2>1. window' = IF Boots(w) THEN [w EXCEPT !.booting = TRUE] ELSE w
    BY <1>5 DEF PageReloads
  <2>2. w \in TabWindow /\ ~w.expired /\ w.token = window.token
    BY <1>1 DEF TabWindow
  <2> HIDE DEF w
  <2>3. ~window'.expired /\ window'.token = window.token
    BY <2>1, <2>2 DEF TabWindow
  <2> QED BY <2>3 DEF EndsForAReason, IdleTabsDoNotRenew
<1>6. ASSUME NEW c \in traffic, CallReturned(c) PROVE EndsForAReason /\ IdleTabsDoNotRenew
  <2>1. c \in TabCall /\ c \in traffic \ traffic'
    BY <1>6 DEF BrowserInv, WindowTyped, CallReturned
  <2>2. SUFFICES /\ ~window.expired /\ window'.expired => c.answer \in {"tokenInvalid", "initDataInvalid"}
                 /\ window.token # 0 /\ window'.token \notin {0, window.token} => window.refreshing
    BY <2>1 DEF EndsForAReason, IdleTabsDoNotRenew, BrowserInv, TokenInv
  <2>3. CASE c.kind = "refresh"
    <3> DEFINE free == [window EXCEPT !.refreshing = FALSE]
    <3>1. window' = RefreshReturned(window, c) /\ window.refreshing
      BY <1>6, <2>3 DEF CallReturned, BrowserInv, RequestsInv
    <3>2. free \in TabWindow /\ free.token = window.token /\ free.expired = window.expired
      BY <1>1 DEF TabWindow
    <3>3. ~window.expired => free.token # 0
      BY <3>1, <3>2 DEF BrowserInv, TokenInv
    <3>4. ~window.expired => \/ window' = TokenStored(free, c.issued) \/ window' = free
                             \/ c.answer = "tokenInvalid"
      BY <3>1, <3>3 DEF RefreshReturned, RefusalHeard, EndsSession
    <3> HIDE DEF free
    <3>5. TokenStored(free, c.issued).expired = free.expired
      BY <3>2 DEF TokenStored, TabWindow
    <3> QED BY <3>1, <3>2, <3>4, <3>5
  <2>4. CASE c.kind = "boot"
    <3> DEFINE free == [window EXCEPT !.booting = FALSE]
    <3>1. window' = BootReturned(window, c) /\ window.token = 0
      BY <1>6, <2>4 DEF CallReturned, BrowserInv, RequestsInv, TokenInv
    <3>2. free \in TabWindow /\ free.expired = window.expired
      BY <1>1 DEF TabWindow
    <3>3. window' = TokenStored(free, c.issued) \/ window' = free \/ c.answer = "initDataInvalid"
      BY <3>1, Zenon DEF BootReturned
    <3> HIDE DEF free
    <3>4. TokenStored(free, c.issued).expired = free.expired
      BY <3>2 DEF TokenStored, TabWindow
    <3> QED BY <3>1, <3>2, <3>3, <3>4
  <2>5. CASE c.kind = "api"
    <3>1. window' = RefusalHeard(window, c)
      BY <1>6, <2>5 DEF CallReturned
    <3>2. Ended(window).token = 0
      BY <1>1 DEF Ended, TabWindow
    <3> QED BY <3>1, <3>2 DEF RefusalHeard, EndsSession
  <2> QED BY <2>1, <2>3, <2>4, <2>5 DEF TabCall
<1> QED BY <1>2, <1>3, <1>4, <1>5, <1>6
    DEF BrowserNext, browser, RequestSent, ExpiryNoticed, TickPasses, Handled, CallLost

(* A session ends for a reason while its user is active, and no idle tab   *)
(* renews one (useBrowserSession, WebTokenController).                     *)
THEOREM SessionsFollowActivity == BrowserSpec => SessionFollowsActivity
<1>1. BrowserInit => BrowserInv
  BY WindowOpens
<1>2. BrowserInv /\ [BrowserNext]_browser => BrowserInv' /\ EndsForAReason /\ IdleTabsDoNotRenew
  BY BrowserStep, EndsAndRenewals
<1> QED BY <1>1, <1>2, PTL DEF BrowserSpec, SessionFollowsActivity

-----------------------------------------------------------------------------
(* The dialog that edits a task *)

EditorSpec == EditorInit /\ [][EditorNext]_editor

(* A blocked row blocks its task, whoever writes the board. *)
RowsRule(r) == r \in Board!Task /\ (Board!HasBlocked(r.acceptanceCriteria) => r.status = "blocked")

SheetInv == /\ kanban \in [Board!Tasks -> Board!Task]
            /\ \A t \in Board!Tasks : RowsRule(kanban[t])
            /\ nextId = 2

(* A form that was not meant to move the task asks for the status its copy *)
(* had, and has blocked rows only if that copy was blocked.                *)
StaysPut(f) == ~f.touched => /\ f.status = f.was
                             /\ Board!HasBlocked(f.rows) => f.was = "blocked"

DialogInv == \A d \in dialog : d \in Dialog /\ StaysPut(d)
SavingInv == \A s \in saving : s \in SaveRequest /\ StaysPut(s) /\ saving = {s}

EditorInv == SheetInv /\ DialogInv /\ SavingInv

LEMMA DisownedKeeps ==
    ASSUME NEW r \in Board!Task
    PROVE  /\ Board!Disowned(r) \in Board!Task
           /\ Board!Disowned(r).status = r.status
           /\ Board!Disowned(r).acceptanceCriteria = r.acceptanceCriteria
BY DEF Board!Disowned, Board!Task

LEMMA IdleDisownedKeeps ==
    ASSUME NEW r \in Board!Task
    PROVE  /\ Board!DisownedIfIdle(r) \in Board!Task
           /\ Board!DisownedIfIdle(r).status = r.status
           /\ Board!DisownedIfIdle(r).acceptanceCriteria = r.acceptanceCriteria
BY DisownedKeeps DEF Board!DisownedIfIdle

LEMMA ResumePointIsStatus ==
    ASSUME NEW r \in Board!Task, r.status # "absent"
    PROVE  Board!ResumePoint(r) \in Board!Resumes
BY DEF Board!ResumePoint, Board!Task, Board!Statuses, Board!Resumes

(* What applyKanbanTaskPatch leaves. *)
LEMMA PatchedFields ==
    ASSUME NEW r \in Board!Task, r.status # "absent",
           NEW s \in Board!Statuses, NEW c \in Board!Checklist
    PROVE  /\ RowsRule(Board!Patched(r, s, c))
           /\ Board!Patched(r, s, c).status = Board!Resolve(s, c)
           /\ Board!Patched(r, s, c).acceptanceCriteria = c
<1> DEFINE v == Board!Resolve(s, c)
           q == [r EXCEPT !.acceptanceCriteria = c, !.status = v,
                    !.blockedResumeStatus = IF v = "blocked" THEN Board!ResumePoint(r) ELSE "none"]
<1>1. v \in Board!Statuses /\ (Board!HasBlocked(c) => v = "blocked")
  BY DEF Board!Resolve, Board!Statuses
<1>2. q \in Board!Task /\ q.status = v /\ q.acceptanceCriteria = c
  BY <1>1, ResumePointIsStatus DEF Board!Task, Board!Resumes
<1>3. Board!Patched(r, s, c) = Board!DisownedIfIdle(q)
  BY DEF Board!Patched
<1> HIDE DEF v, q
<1>4. /\ Board!Patched(r, s, c) \in Board!Task
      /\ Board!Patched(r, s, c).status = v /\ Board!Patched(r, s, c).acceptanceCriteria = c
  BY <1>2, <1>3, IdleDisownedKeeps
<1> QED BY <1>1, <1>4 DEF RowsRule, v

LEMMA CriterionPatchedRuled ==
    ASSUME NEW t \in Board!Tasks, RowsRule(kanban[t]), NEW k \in Rows,
           NEW status \in {"pending", "done", "blocked"}, Board!CanPatchCriterion(t, k, status)
    PROVE  RowsRule(Board!CriterionPatched(t, k, status))
<1> DEFINE r == kanban[t]
           c == [r.acceptanceCriteria EXCEPT ![k] = status]
           v == Board!Resolve(Board!Requested(t), c)
           b == [r EXCEPT !.acceptanceCriteria = c, !.status = "blocked",
                          !.blockedResumeStatus = Board!ResumePoint(r)]
           e == [r EXCEPT !.acceptanceCriteria = c, !.status = "blocked"]
           q == [r EXCEPT !.acceptanceCriteria = c, !.status = v, !.blockedResumeStatus = "none"]
<1>1. r \in Board!Task /\ r.status # "absent"
  BY DEF RowsRule, Board!CanPatchCriterion
<1>2. c \in Board!Checklist
  BY <1>1 DEF Board!Task, Board!Checklist
<1>3. Board!Requested(t) \in Board!Statuses
  BY <1>1 DEF Board!Requested, Board!Fallback, Board!Task, Board!Statuses, Board!Resumes
<1>4. v \in Board!Statuses /\ (Board!HasBlocked(c) => v = "blocked")
  BY <1>3 DEF Board!Resolve, Board!Statuses
<1>5. Board!ResumePoint(r) \in Board!Resumes
  BY <1>1, ResumePointIsStatus
<1>6. Board!CriterionPatched(t, k, status) \in {b, e, Board!DisownedIfIdle(q)}
  BY DEF Board!CriterionPatched
<1> HIDE DEF r, c, v
<1>7. RowsRule(b)
  BY <1>1, <1>2, <1>5 DEF RowsRule, Board!Task, Board!Statuses
<1>8. RowsRule(e)
  BY <1>1, <1>2 DEF RowsRule, Board!Task, Board!Statuses
<1>9. q \in Board!Task /\ q.status = v /\ q.acceptanceCriteria = c
  BY <1>1, <1>2, <1>4 DEF Board!Task, Board!Resumes
<1> HIDE DEF b, e, q
<1>10. RowsRule(Board!DisownedIfIdle(q))
  BY <1>4, <1>9, IdleDisownedKeeps DEF RowsRule
<1> QED BY <1>6, <1>7, <1>8, <1>10

(* releaseExpiredKanbanLeases *)
LEMMA ReleasedRuled ==
    ASSUME SheetInv
    PROVE  /\ Board!Released(kanban) \in [Board!Tasks -> Board!Task]
           /\ \A t \in Board!Tasks : RowsRule(Board!Released(kanban)[t])
<1> SUFFICES ASSUME NEW t \in Board!Tasks
             PROVE  RowsRule(Board!Released(kanban)[t])
  BY DEF Board!Released, RowsRule
<1> DEFINE q == [kanban[t] EXCEPT !.status = "queued"]
<1>1. kanban[t] \in Board!Task /\ RowsRule(kanban[t])
  BY DEF SheetInv
<1>2. CASE ~Board!Expired(kanban[t])
  BY <1>1, <1>2 DEF Board!Released
<1>3. CASE Board!Expired(kanban[t])
  <2>1. q \in Board!Task /\ q.status = "queued"
        /\ q.acceptanceCriteria = kanban[t].acceptanceCriteria
    BY <1>1 DEF Board!Task, Board!Statuses
  <2>2. Board!Released(kanban)[t] = Board!Disowned(q)
    BY <1>3 DEF Board!Released
  <2>3. kanban[t].status # "blocked"
    BY <1>3 DEF Board!Expired
  <2> HIDE DEF q
  <2>4. ~Board!HasBlocked(q.acceptanceCriteria)
    BY <1>1, <2>1, <2>3 DEF RowsRule
  <2> QED BY <2>1, <2>2, <2>4, DisownedKeeps DEF RowsRule
<1> QED BY <1>2, <1>3

LEMMA StartedRuled ==
    ASSUME NEW r \in Board!Task, RowsRule(r), NEW h \in Hands, r.status \in {"queued", "in_progress"}
    PROVE  /\ RowsRule(Board!Started(r, Hand(h)))
           /\ RowsRule([Board!Started(r, Hand(h)) EXCEPT !.executionSessionId = Hand(h).sessionId])
<1> DEFINE q == Board!Started(r, Hand(h))
<1>1. q \in Board!Task /\ q.acceptanceCriteria = r.acceptanceCriteria
  BY DEF Board!Started, Hand, Board!Task, Board!Statuses
<1>2. ~Board!HasBlocked(r.acceptanceCriteria)
  BY DEF RowsRule
<1> HIDE DEF q
<1>3. [q EXCEPT !.executionSessionId = h] \in Board!Task
      /\ [q EXCEPT !.executionSessionId = h].acceptanceCriteria = r.acceptanceCriteria
  BY <1>1 DEF Board!Task
<1>4. Hand(h).sessionId = h
  BY DEF Hand
<1>5. RowsRule(q) /\ RowsRule([q EXCEPT !.executionSessionId = h])
  BY <1>1, <1>2, <1>3 DEF RowsRule
<1> QED BY <1>4, <1>5 DEF q

(* Saving ruled records keeps the sheet. *)
LEMMA SaveKeepsSheet ==
    ASSUME NEW b \in [Board!Tasks -> Board!Task], \A t \in Board!Tasks : RowsRule(b[t]),
           Board!Save(b), nextId = 2, nextId' = nextId
    PROVE  SheetInv'
BY DEF SheetInv, Board!Save

LEMMA WritesKeepSheet ==
    ASSUME SheetInv, NEW t \in Board!Tasks, NEW r, RowsRule(r),
           Board!Save([kanban EXCEPT ![t] = r]), nextId' = nextId
    PROVE  SheetInv'
<1>1. [kanban EXCEPT ![t] = r] \in [Board!Tasks -> Board!Task]
  BY DEF SheetInv, RowsRule
<1>2. \A u \in Board!Tasks : RowsRule([kanban EXCEPT ![t] = r][u])
  BY DEF SheetInv
<1> QED BY <1>1, <1>2, SaveKeepsSheet DEF SheetInv

LEMMA UpdateKeepsSheet ==
    ASSUME SheetInv, NEW t \in Board!Tasks, NEW s \in Board!Statuses, NEW c \in Board!Checklist,
           Board!UpdateTask(t, s, c)
    PROVE  SheetInv'
<1>1. kanban[t] \in Board!Task /\ kanban[t].status # "absent"
  BY DEF SheetInv, Board!UpdateTask
<1>2. RowsRule(Board!Patched(kanban[t], s, c))
  BY <1>1, PatchedFields
<1> QED BY <1>2, WritesKeepSheet DEF Board!UpdateTask

LEMMA CriterionKeepsSheet ==
    ASSUME SheetInv, NEW t \in Board!Tasks, NEW k \in Rows,
           NEW s \in {"pending", "done", "blocked"}, Board!UpdateCriterion(t, k, s)
    PROVE  SheetInv'
<1>1. RowsRule(kanban[t])
  BY DEF SheetInv
<1>2. RowsRule(Board!CriterionPatched(t, k, s))
  BY <1>1, CriterionPatchedRuled DEF Board!UpdateCriterion
<1> QED BY <1>2, WritesKeepSheet DEF Board!UpdateCriterion

LEMMA BlankRuled == RowsRule(Board!NoTask)
BY DEF RowsRule, Board!NoTask, Board!Task, Board!HasBlocked, Board!Checklist, Board!Resumes

LEMMA DeleteKeepsSheet ==
    ASSUME SheetInv, NEW t \in Board!Tasks, Board!DeleteTask(t)
    PROVE  SheetInv'
BY BlankRuled, WritesKeepSheet DEF Board!DeleteTask

LEMMA PatchesAreChecklists ==
    ASSUME SheetInv, NEW t \in Board!Tasks
    PROVE  Board!Patches(t) \subseteq Board!Checklist
<1>1. kanban[t].acceptanceCriteria \in Board!Checklist
  BY DEF SheetInv, Board!Task
<1> QED BY <1>1 DEF Board!Patches, Board!Checklist

LEMMA AppKeepsSheet ==
    ASSUME SheetInv, NEW t \in Board!Tasks, Board!App(t)
    PROVE  SheetInv'
<1>1. ~ \E s \in Board!Statuses, c \in [Rows -> {"absent", "pending"}] : Board!CreateTask(s, c)
  BY DEF Board!CreateTask, SheetInv
<1>2. Board!Patches(t) \subseteq Board!Checklist
  BY PatchesAreChecklists
<1> QED BY <1>1, <1>2, UpdateKeepsSheet, DeleteKeepsSheet, CriterionKeepsSheet DEF Board!App

LEMMA AgentKeepsSheet ==
    ASSUME SheetInv, NEW h \in Hands, NEW t \in Board!Tasks, Board!Agent(Hand(h), t)
    PROVE  SheetInv'
<1>1. ASSUME NEW s \in Board!Statuses, NEW c \in Board!Patches(t),
             Board!UpdateTaskFromExecution(t, Hand(h), s, c)
      PROVE  SheetInv'
  BY <1>1, PatchesAreChecklists, UpdateKeepsSheet DEF Board!UpdateTaskFromExecution
<1>2. ASSUME NEW k \in Rows, NEW s \in {"pending", "done", "blocked"},
             Board!UpdateCriterionFromExecution(t, Hand(h), k, s)
      PROVE  SheetInv'
  BY <1>2, CriterionKeepsSheet DEF Board!UpdateCriterionFromExecution
<1>3. ASSUME Board!StartTaskExecution(t, Hand(h)) \/ Board!ClaimNextTask(t, Hand(h))
      PROVE  SheetInv'
  <2> DEFINE b == Board!Released(kanban)
  <2>1. b \in [Board!Tasks -> Board!Task] /\ \A u \in Board!Tasks : RowsRule(b[u])
    BY ReleasedRuled
  <2>2. b[t] \in Board!Task /\ RowsRule(b[t])
    BY <2>1
  <2>3. b[t].status \in {"queued", "in_progress"}
    BY <1>3 DEF Board!StartTaskExecution, Board!ClaimNextTask, Board!CanStart
  <2>4. PICK r : RowsRule(r) /\ Board!Save([b EXCEPT ![t] = r])
    BY <1>3, <2>2, <2>3, StartedRuled DEF Board!StartTaskExecution, Board!ClaimNextTask
  <2>5. nextId' = nextId /\ nextId = 2
    BY <1>3 DEF Board!StartTaskExecution, Board!ClaimNextTask, SheetInv
  <2> HIDE DEF b
  <2>6. [b EXCEPT ![t] = r] \in [Board!Tasks -> Board!Task]
        /\ \A u \in Board!Tasks : RowsRule([b EXCEPT ![t] = r][u])
    BY <2>1, <2>4 DEF RowsRule
  <2> QED BY <2>4, <2>5, <2>6, SaveKeepsSheet
<1> QED BY <1>1, <1>2, <1>3 DEF Board!Agent

LEMMA OthersKeepSheet ==
    ASSUME SheetInv, OthersWork
    PROVE  SheetInv'
<1>1. 1 \in Board!Tasks
  BY DEF Board!Tasks
<1>2. CASE Board!ListTasks
  BY <1>2, ReleasedRuled, SaveKeepsSheet DEF Board!ListTasks, SheetInv
<1>3. CASE Board!LeaseEnds(1)
  <2>1. kanban[1] \in Board!Task /\ RowsRule(kanban[1])
    BY <1>1 DEF SheetInv
  <2>2. RowsRule([kanban[1] EXCEPT !.lease = "expired"])
    BY <2>1 DEF RowsRule, Board!Task
  <2>3. kanban' = [kanban EXCEPT ![1] = [kanban[1] EXCEPT !.lease = "expired"]] /\ nextId' = nextId
    BY <1>3 DEF Board!LeaseEnds
  <2> QED BY <1>1, <2>2, <2>3 DEF SheetInv, RowsRule
<1> QED BY <1>1, <1>2, <1>3, AppKeepsSheet, AgentKeepsSheet DEF OthersWork

(* A change of the dialog keeps the form's rule. *)
LEMMA StrokesKeepDialog ==
    ASSUME NEW d, NEW e, Strokes(d, e), SheetInv, SavingInv, e \in Dialog, StaysPut(e)
    PROVE  EditorInv'
BY DEF Strokes, EditorInv, SheetInv, DialogInv, SavingInv

LEMMA DialogFields ==
    ASSUME NEW d \in Dialog, NEW k \in Rows, NEW v \in {"absent", "pending", "done", "blocked"}
    PROVE  /\ [d EXCEPT !.rows[k] = v] \in Dialog
           /\ [d EXCEPT !.rows[k] = v].status = d.status
           /\ [d EXCEPT !.rows[k] = v].was = d.was
           /\ [d EXCEPT !.rows[k] = v].touched = d.touched
           /\ [d EXCEPT !.rows[k] = v].rows = [d.rows EXCEPT ![k] = v]
           /\ d.rows \in Board!Checklist
BY DEF Dialog, Board!Checklist

LEMMA RowsKeepDialog ==
    ASSUME EditorInv, NEW d \in dialog, NEW k \in Rows, NEW v \in {"absent", "pending", "done"},
           Strokes(d, [d EXCEPT !.rows[k] = v])
    PROVE  EditorInv'
<1> DEFINE e == [d EXCEPT !.rows[k] = v]
<1>1. d \in Dialog /\ StaysPut(d)
  BY DEF EditorInv, DialogInv
<1>2. /\ e \in Dialog
      /\ e.status = d.status
      /\ e.was = d.was
      /\ e.touched = d.touched
      /\ e.rows = [d.rows EXCEPT ![k] = v]
      /\ d.rows \in Board!Checklist
  <2>1. v \in {"absent", "pending", "done", "blocked"}
    OBVIOUS
  <2> QED BY <1>1, <2>1, DialogFields, ZenonT(60)
<1> HIDE DEF e
<1>3. Board!HasBlocked(e.rows) => Board!HasBlocked(d.rows)
  BY <1>2 DEF Board!HasBlocked, Board!Checklist
<1>4. StaysPut(e)
  BY <1>1, <1>2, <1>3 DEF StaysPut
<1> QED BY <1>2, <1>4, StrokesKeepDialog DEF EditorInv, e

(* The user's steps keep the invariant. *)
LEMMA DialogSteps ==
    ASSUME EditorInv, NEW d \in dialog,
           \/ PicksStatus(d) \/ Saves(d)
           \/ \E k \in Rows : TogglesDone(d, k) \/ TogglesBlocked(d, k) \/ AddsRow(d, k) \/ RemovesRow(d, k)
    PROVE  EditorInv'
<1>1. d \in Dialog /\ StaysPut(d) /\ SheetInv /\ DialogInv /\ SavingInv
  BY DEF EditorInv, DialogInv
<1>2. CASE PicksStatus(d)
  <2>1. PICK s \in Board!Statuses \ {d.status} : Strokes(d, [d EXCEPT !.status = s, !.touched = TRUE])
    BY <1>2 DEF PicksStatus
  <2>2. [d EXCEPT !.status = s, !.touched = TRUE] \in Dialog
        /\ [d EXCEPT !.status = s, !.touched = TRUE].touched
    BY <1>1 DEF Dialog
  <2> QED BY <1>1, <2>1, <2>2, StrokesKeepDialog DEF StaysPut
<1>3. CASE Saves(d)
  <2> DEFINE e == [status |-> Board!Resolve(d.status, d.rows), rows |-> d.rows,
                   clear |-> d.had /\ ~Some(d.rows), was |-> d.was, touched |-> d.touched]
  <2>1. saving' = {e} /\ UNCHANGED <<kanban, nextId, dialog>>
    BY <1>3 DEF Saves
  <2>2. /\ d.status \in Board!Statuses /\ d.rows \in Board!Checklist /\ d.was \in Board!Statuses
        /\ d.touched \in BOOLEAN
    BY <1>1 DEF Dialog
  <2>3. Board!Resolve(d.status, d.rows) \in Board!Statuses
    BY <2>2 DEF Board!Resolve, Board!Statuses
  <2>4. (d.had /\ ~Some(d.rows)) \in BOOLEAN
    OBVIOUS
  <2>5. e \in SaveRequest
    BY <2>2, <2>3, <2>4 DEF SaveRequest
  <2>6. StaysPut(e)
    BY <1>1 DEF StaysPut, Board!Resolve
  <2> HIDE DEF e
  <2> QED BY <1>1, <2>1, <2>5, <2>6 DEF EditorInv, SheetInv, DialogInv, SavingInv
<1>4. ASSUME NEW k \in Rows, TogglesDone(d, k) \/ AddsRow(d, k) \/ RemovesRow(d, k)
      PROVE  EditorInv'
  <2>1. \E v \in {"absent", "pending", "done"} : Strokes(d, [d EXCEPT !.rows[k] = v])
    BY <1>4 DEF TogglesDone, AddsRow, RemovesRow
  <2> QED BY <2>1, RowsKeepDialog
<1>5. ASSUME NEW k \in Rows, TogglesBlocked(d, k)
      PROVE  EditorInv'
  <2> DEFINE rows == [d.rows EXCEPT ![k] = IF @ = "blocked" THEN "pending" ELSE "blocked"]
             status == IF Board!HasBlocked(rows) THEN "blocked"
                       ELSE IF d.status = "blocked" THEN "ready" ELSE d.status
  <2>1. Strokes(d, [d EXCEPT !.rows = rows, !.status = status, !.touched = TRUE])
    BY <1>5 DEF TogglesBlocked
  <2>2. rows \in Board!Checklist
    BY <1>1 DEF Dialog, Board!Checklist
  <2>3. status \in Board!Statuses
    BY <1>1 DEF Dialog, Board!Statuses
  <2> HIDE DEF rows, status
  <2>4. [d EXCEPT !.rows = rows, !.status = status, !.touched = TRUE] \in Dialog
        /\ [d EXCEPT !.rows = rows, !.status = status, !.touched = TRUE].touched
    BY <1>1, <2>2, <2>3 DEF Dialog
  <2> QED BY <1>1, <2>1, <2>4, StrokesKeepDialog DEF StaysPut
<1> QED BY <1>2, <1>3, <1>4, <1>5

(* What the server makes of a save: the rows the board is given. *)
LEMMA RowsOfIsChecklist ==
    ASSUME SheetInv, NEW s \in SaveRequest
    PROVE  RowsOf(s) \in Board!Checklist /\ RowsOf(s) \in {s.rows, Sheet.acceptanceCriteria}
<1>1. Sheet \in Board!Task
  BY DEF SheetInv, Sheet, Board!Tasks
<1> QED BY <1>1 DEF RowsOf, SaveRequest, Board!Task

LEMMA EditorStep == EditorInv /\ [EditorNext]_editor => EditorInv'
<1> SUFFICES ASSUME EditorInv, [EditorNext]_editor PROVE EditorInv'
  OBVIOUS
<1>1. SheetInv /\ DialogInv /\ SavingInv /\ 1 \in Board!Tasks
  BY DEF EditorInv, Board!Tasks
<1>2. CASE OthersWork
  BY <1>1, <1>2, OthersKeepSheet DEF OthersWork, EditorInv, DialogInv, SavingInv
<1>3. CASE OpensTask
  <2> DEFINE e == [status |-> Sheet.status, rows |-> Sheet.acceptanceCriteria, was |-> Sheet.status,
                   had |-> Some(Sheet.acceptanceCriteria), touched |-> FALSE]
  <2>1. dialog' = {e} /\ UNCHANGED <<kanban, nextId, saving>> /\ Sheet.status # "absent"
    BY <1>3 DEF OpensTask
  <2>2. Sheet \in Board!Task /\ RowsRule(Sheet)
    BY <1>1 DEF SheetInv, Sheet
  <2>3. e \in Dialog
    <3>1. Sheet.status \in Board!Statuses /\ Sheet.acceptanceCriteria \in Board!Checklist
      BY <2>1, <2>2 DEF Board!Task
    <3>2. Some(Sheet.acceptanceCriteria) \in BOOLEAN
      BY DEF Some
    <3> QED BY <3>1, <3>2 DEF Dialog
  <2>4. StaysPut(e)
    BY <2>2 DEF StaysPut, RowsRule
  <2> HIDE DEF e
  <2> QED BY <1>1, <2>1, <2>3, <2>4 DEF EditorInv, SheetInv, DialogInv, SavingInv
<1>4. CASE ClosesTask
  BY <1>1, <1>4 DEF ClosesTask, EditorInv, SheetInv, DialogInv, SavingInv
<1>5. CASE Deletes
  <2>1. SheetInv'
    BY <1>1, <1>5, DeleteKeepsSheet DEF Deletes, SheetInv
  <2>2. DialogInv' /\ SavingInv'
    BY <1>1, <1>5 DEF Deletes, DialogInv, SavingInv
  <2> QED BY <2>1, <2>2 DEF EditorInv
<1>6. ASSUME NEW s \in saving, SaveTaken(s) \/ SaveRefused(s)
      PROVE  EditorInv'
  <2>1. s \in SaveRequest /\ s.status \in Board!Statuses
    BY <1>1 DEF SavingInv, SaveRequest
  <2>2. RowsOf(s) \in Board!Checklist
    BY <1>1, <2>1, RowsOfIsChecklist
  <2>3. SheetInv'
    BY <1>1, <1>6, <2>1, <2>2, UpdateKeepsSheet DEF SaveTaken, SaveRefused, SheetInv
  <2>4. DialogInv' /\ SavingInv'
    BY <1>1, <1>6 DEF SaveTaken, SaveRefused, DialogInv, SavingInv
  <2> QED BY <2>3, <2>4 DEF EditorInv
<1>7. CASE UNCHANGED editor
  BY <1>7 DEF editor, EditorInv, SheetInv, DialogInv, SavingInv
<1> QED BY <1>2, <1>3, <1>4, <1>5, <1>6, <1>7, DialogSteps DEF EditorNext

LEMMA EditorStarts == EditorInit => EditorInv
<1> SUFFICES ASSUME EditorInit PROVE EditorInv
  OBVIOUS
<1>1. PICK s \in Board!Statuses, c \in Board!Checklist :
         kanban = [t \in Board!Tasks |-> [Board!NoTask EXCEPT !.status = Board!Resolve(s, c),
                                                              !.acceptanceCriteria = c]]
  BY DEF EditorInit
<1>2. Board!Resolve(s, c) \in Board!Statuses /\ (Board!HasBlocked(c) => Board!Resolve(s, c) = "blocked")
  BY DEF Board!Resolve, Board!Statuses
<1>3. Board!NoTask \in Board!Task
  BY BlankRuled DEF RowsRule
<1>4. RowsRule([Board!NoTask EXCEPT !.status = Board!Resolve(s, c), !.acceptanceCriteria = c])
  BY <1>2, <1>3 DEF RowsRule, Board!Task
<1>5. SheetInv
  BY <1>1, <1>4 DEF SheetInv, EditorInit, RowsRule
<1> QED BY <1>5 DEF EditorInit, EditorInv, DialogInv, SavingInv

(* What a save does to the task. *)
LEMMA SavesKeep ==
    ASSUME EditorInv, NEW s \in saving, SaveTaken(s)
    PROVE  /\ ~s.touched /\ Sheet.status = "in_progress" =>
                 Sheet'.status = "in_progress" \/ s.was \in {"blocked", "done"}
           /\ ~s.touched /\ Sheet'.status = "in_progress" => s.was = "in_progress"
           /\ Some(Sheet.acceptanceCriteria) /\ ~Some(Sheet'.acceptanceCriteria) => s.clear
<1>1. s \in SaveRequest /\ StaysPut(s) /\ s.status \in Board!Statuses
  BY DEF EditorInv, SavingInv, SaveRequest
<1>2. RowsOf(s) \in Board!Checklist /\ RowsOf(s) \in {s.rows, Sheet.acceptanceCriteria}
  BY <1>1, RowsOfIsChecklist DEF EditorInv
<1>3. 1 \in Board!Tasks /\ Sheet \in Board!Task /\ RowsRule(Sheet)
  BY DEF EditorInv, SheetInv, Sheet, Board!Tasks
<1>4. Sheet.status # "absent" /\ Board!CanPatch(Sheet, s.status, RowsOf(s))
  BY DEF SaveTaken, Board!UpdateTask, Sheet
<1>5. Sheet' = Board!Patched(Sheet, s.status, RowsOf(s))
  BY <1>3 DEF SaveTaken, Board!UpdateTask, Board!Save, Sheet, EditorInv, SheetInv
<1>6. Sheet'.status = Board!Resolve(s.status, RowsOf(s)) /\ Sheet'.acceptanceCriteria = RowsOf(s)
  BY <1>1, <1>2, <1>3, <1>4, <1>5, PatchedFields
<1>7. ASSUME ~s.touched, Sheet.status = "in_progress"
      PROVE  Sheet'.status = "in_progress" \/ s.was \in {"blocked", "done"}
  <2>1. s.was \in {"in_progress", "blocked", "done"}
    BY <1>1, <1>4, <1>7 DEF Board!CanPatch, Board!AllowedNext, StaysPut
  <2>2. s.was = "in_progress" => ~Board!HasBlocked(RowsOf(s))
    BY <1>1, <1>2, <1>3, <1>7 DEF RowsRule, StaysPut
  <2> QED BY <1>1, <1>6, <1>7, <2>1, <2>2 DEF Board!Resolve, StaysPut
<1>8. ASSUME ~s.touched, Sheet'.status = "in_progress"
      PROVE  s.was = "in_progress"
  BY <1>1, <1>6, <1>8 DEF Board!Resolve, StaysPut
<1>9. ASSUME Some(Sheet.acceptanceCriteria), ~Some(Sheet'.acceptanceCriteria)
      PROVE  s.clear
  BY <1>6, <1>9 DEF RowsOf
<1> QED BY <1>7, <1>8, <1>9

(* A save that was not meant to move the task leaves its execution alone,  *)
(* however old the dialog's copy, and empties no checklist that the user   *)
(* did not empty (KanbanTaskEditorModal, buildTaskUpdatePatch).            *)
THEOREM OldCopiesDoNoHarm == EditorSpec => SavesKeepWork
<1> DEFINE Harmless ==
      \A s \in saving \ saving' :
        /\ ~s.touched /\ Sheet.status = "in_progress" =>
              Sheet'.status = "in_progress" \/ s.was \in {"blocked", "done"}
        /\ ~s.touched /\ Sheet'.status = "in_progress" =>
              Sheet.status = "in_progress" \/ s.was = "in_progress"
        /\ Some(Sheet.acceptanceCriteria) /\ ~Some(Sheet'.acceptanceCriteria) => s.clear
<1>1. ASSUME EditorInv, [EditorNext]_editor PROVE [Harmless]_editor
  <2> SUFFICES ASSUME EditorNext PROVE Harmless
    BY <1>1
  <2>1. ASSUME NEW s \in saving, SaveTaken(s) PROVE Harmless
    <3>1. saving = {s}
      BY <1>1 DEF EditorInv, SavingInv
    <3>2. /\ ~s.touched /\ Sheet.status = "in_progress" =>
                Sheet'.status = "in_progress" \/ s.was \in {"blocked", "done"}
          /\ ~s.touched /\ Sheet'.status = "in_progress" => s.was = "in_progress"
          /\ Some(Sheet.acceptanceCriteria) /\ ~Some(Sheet'.acceptanceCriteria) => s.clear
      BY <1>1, <2>1, SavesKeep
    <3>3. \A r \in saving \ saving' : r = s
      BY <3>1
    <3> QED BY <3>2, <3>3
  <2>2. ASSUME NEW s \in saving, SaveRefused(s) PROVE Harmless
    BY <2>2 DEF SaveRefused, Sheet
  <2>3. ASSUME saving \subseteq saving' PROVE Harmless
    BY <2>3
  <2>4. saving \subseteq saving' \/ \E s \in saving : SaveTaken(s) \/ SaveRefused(s)
    BY DEF EditorNext, OthersWork, OpensTask, ClosesTask, Deletes, PicksStatus, Saves, TogglesDone,
           TogglesBlocked, AddsRow, RemovesRow, Strokes
  <2> QED BY <2>1, <2>2, <2>3, <2>4
<1>2. EditorInit => EditorInv
  BY EditorStarts
<1>3. EditorInv /\ [EditorNext]_editor => EditorInv'
  BY EditorStep
<1> QED BY <1>1, <1>2, <1>3, PTL DEF EditorSpec, SavesKeepWork

-----------------------------------------------------------------------------
(* Settings files *)

Mixes == {"agent", "two saves", "restored", "late read", "late save"}
Harmless == {"agent", "two saves"}
Texts == [of : Places \cup {"nobody"}, edit : Nat]
Files == [place : Places \cup {"none"}, kind : Kinds \cup {"none"}, content : Texts]
Desks == [active : Owners, exists : SUBSET Kinds, file : Files, draft : Texts, open : BOOLEAN,
          saving : BOOLEAN, result : {"idle", "success"}]
Letters == [id : Nat, op : {"overview", "read", "create", "save"}, kind : Kinds, project : Owners,
            text : Texts, mixed : SUBSET Mixes, refresh : BOOLEAN, answer : {"none", "ok", "error"},
            seen : SUBSET Kinds]
Strolls == [acts : Nat, luck : Nat, mixed : SUBSET Mixes]

SetupTyped ==
    /\ texts \in [Places -> Texts] /\ desk \in Desks /\ posts \subseteq Letters /\ gestures \in Strolls

(* A file holds its own text. *)
TextsInv == \A x \in Places : texts[x] = Absent \/ texts[x].of = x

(* The draft comes from where the shown content does. *)
DeskInv ==
    /\ desk.draft.of = desk.file.content.of
    /\ desk.file = NoFile \/ (desk.file.place \in Places /\ desk.file.kind \in Kinds)
    /\ desk.open => desk.file # NoFile

(* Unless files are mixed up, the open file is the one that a save goes to. *)
CleanInv ==
    gestures.mixed \subseteq Harmless /\ desk.file # NoFile =>
        desk.file.place = Target(desk.file.kind, desk.active) /\ desk.file.content.of = desk.file.place

(* A save carries the text of the file it goes to, a read brings it. *)
LetterOK(r) ==
    \/ r.op = "save" /\ r.mixed \subseteq Harmless
    \/ r.op \in {"save", "read"} /\ r.answer = "ok"
    => r.text.of = Target(r.kind, r.project)

SetupInv == SetupTyped /\ TextsInv /\ DeskInv /\ CleanInv /\ \A r \in posts : LetterOK(r)

LEMMA SetupTexts ==
    /\ Absent \in Texts /\ NoFile \in Files /\ NoFile.place \notin Places /\ NoFile.content = Absent
    /\ \A x \in Places : Empty(x) \in Texts /\ Empty(x).of = x
    /\ \A k \in Kinds, p \in Owners : Target(k, p) \in Places
    /\ \A x \in Places, t \in Texts : InFile(x, t) \in Texts /\ InFile(x, t).of = x
BY SetupBounds DEF Absent, Texts, NoFile, Files, Empty, Places, Shared, Target, InFile

LEMMA SetupStarts == ASSUME SetupInit PROVE SetupInv
<1>1. (CHOOSE p \in Owners : TRUE) \in Owners
  BY SetupBounds
<1>2. \A x \in Owners : [of |-> x, edit |-> 0] \in Texts
  BY DEF Texts, Places
<1>3. texts \in [Places -> Texts] /\ TextsInv
  BY <1>2, SetupTexts DEF SetupInit, TextsInv, Places
<1>4. desk \in Desks
  BY <1>1, SetupTexts DEF SetupInit, Desks
<1>5. desk.file = NoFile /\ desk.draft = Absent /\ ~desk.open
  BY DEF SetupInit
<1>6. posts = {} /\ gestures \in Strolls
  BY DEF SetupInit, Strolls
<1>7. DeskInv /\ CleanInv
  <2>1. NoFile.content = Absent
    BY SetupTexts
  <2>2. desk.draft.of = desk.file.content.of
    BY <1>5, <2>1
  <2> QED BY <1>5, <2>2 DEF DeskInv, CleanInv
<1> QED BY <1>3, <1>4, <1>6, <1>7 DEF SetupInv, SetupTyped

LEMMA WithFileShows ==
    ASSUME NEW d \in Desks, NEW f \in Files
    PROVE  /\ WithFile(d, f) \in Desks /\ WithFile(d, f).file = f /\ WithFile(d, f).active = d.active
           /\ WithFile(d, f).open <=> f # NoFile
           /\ WithFile(d, f).draft = f.content \/ (WithFile(d, f).draft = d.draft /\ f.content = d.file.content)
<1> DEFINE moved == f.place # d.file.place
           kept == IF moved \/ f.content # d.file.content THEN f.content ELSE d.draft
           inHand == IF moved THEN FALSE ELSE d.saving
           result == IF moved THEN "idle" ELSE d.result
           open == f # NoFile
           x == WithFile(d, f)
<1>1. x = [d EXCEPT !.file = f, !.open = open, !.draft = kept, !.saving = inHand, !.result = result]
  BY DEF WithFile
<1>2. /\ kept \in Texts /\ inHand \in BOOLEAN /\ result \in {"idle", "success"} /\ open \in BOOLEAN
      /\ kept = f.content \/ (kept = d.draft /\ f.content = d.file.content)
      /\ open <=> f # NoFile
  BY DEF Desks, Files
<1> HIDE DEF x, kept, inHand, result, open
<1>3. x \in Desks /\ x.file = f /\ x.active = d.active /\ x.open = open /\ x.draft = kept
  BY <1>1, <1>2 DEF Desks
<1> QED BY <1>2, <1>3 DEF x

(* What a step of the user or the world that moves no text needs to keep. *)
LEMMA DeskMoves ==
    ASSUME SetupInv, UNCHANGED <<texts, posts>>, desk' \in Desks, gestures' \in Strolls,
           desk'.draft.of = desk'.file.content.of,
           desk'.open => desk'.file # NoFile,
           \/ desk'.file = NoFile
           \/ /\ desk'.file = desk.file
              /\ gestures'.mixed \subseteq Harmless => desk'.active = desk.active /\ gestures.mixed \subseteq Harmless
    PROVE  SetupInv'
<1>1. SetupTyped' /\ TextsInv'
  BY DEF SetupInv, SetupTyped, TextsInv
<1>2. DeskInv'
  BY DEF SetupInv, DeskInv
<1>4. CleanInv'
  BY DEF SetupInv, CleanInv
<1>3. \A r \in posts' : LetterOK(r)'
  BY DEF SetupInv, LetterOK
<1> QED BY <1>1, <1>2, <1>3, <1>4 DEF SetupInv

LEMMA GestureTurns ==
    ASSUME SetupInv, EditorClosed \/ Typed \/ \E p \in Owners : ProjectSelected(p) \/ ProjectRestored(p)
    PROVE  SetupInv'
<1>1. /\ desk \in Desks /\ gestures \in Strolls /\ gestures.acts \in Nat /\ gestures.luck \in Nat
      /\ gestures.mixed \in SUBSET Mixes
  BY DEF SetupInv, SetupTyped, Strolls
<1>2. CASE EditorClosed
  <2>1. /\ desk' = [desk EXCEPT !.open = FALSE] /\ gestures' = [gestures EXCEPT !.acts = @ + 1]
        /\ UNCHANGED <<texts, posts>>
    BY <1>2 DEF EditorClosed, Gestured
  <2>2. desk' \in Desks /\ desk'.file = desk.file /\ desk'.draft = desk.draft /\ ~desk'.open /\ desk'.active = desk.active
    BY <1>1, <2>1 DEF Desks
  <2>3. gestures' \in Strolls /\ gestures'.mixed = gestures.mixed
    BY <1>1, <2>1 DEF Strolls
  <2> QED BY <2>1, <2>2, <2>3, DeskMoves DEF SetupInv, DeskInv
<1>3. CASE Typed
  <2> DEFINE kept == [desk.draft EXCEPT !.edit = gestures.acts + 1]
  <2>1. kept \in Texts /\ kept.of = desk.draft.of
    BY <1>1 DEF Desks, Texts
  <2>2. /\ desk' = [desk EXCEPT !.draft = kept] /\ gestures' = [gestures EXCEPT !.acts = @ + 1]
        /\ UNCHANGED <<texts, posts>>
    BY <1>3 DEF Typed, Gestured
  <2> HIDE DEF kept
  <2>3. desk' \in Desks /\ desk'.file = desk.file /\ desk'.draft = kept /\ desk'.open = desk.open /\ desk'.active = desk.active
    BY <1>1, <2>1, <2>2 DEF Desks
  <2>4. gestures' \in Strolls /\ gestures'.mixed = gestures.mixed
    BY <1>1, <2>2 DEF Strolls
  <2> QED BY <2>1, <2>2, <2>3, <2>4, DeskMoves DEF SetupInv, DeskInv
<1>4. ASSUME NEW p \in Owners, ProjectSelected(p) PROVE SetupInv'
  <2> DEFINE x == WithFile(desk, NoFile)
  <2>1. /\ x \in Desks /\ x.file = NoFile /\ ~x.open
        /\ x.draft = Absent \/ (x.draft = desk.draft /\ desk.file.content = Absent)
    BY <1>1, SetupTexts, WithFileShows
  <2>2. desk' = [x EXCEPT !.active = p] /\ UNCHANGED <<texts, posts>>
    BY <1>4 DEF ProjectSelected, ProjectChange
  <2> HIDE DEF x
  <2>3. desk' \in Desks /\ desk'.file = NoFile /\ desk'.draft = x.draft /\ ~desk'.open
    BY <1>4, <2>1, <2>2 DEF Desks
  <2>4. gestures' \in Strolls
    <3> DEFINE mixed == gestures.mixed \cap ({"agent"} \cup IF \E r \in posts : r.op = "save"
                                                       THEN {"two saves"} ELSE {})
    <3>1. gestures' = [gestures EXCEPT !.acts = @ + 1, !.mixed = mixed]
      BY <1>4 DEF ProjectSelected
    <3>2. mixed \subseteq gestures.mixed
      OBVIOUS
    <3> HIDE DEF mixed
    <3>3. mixed \in SUBSET Mixes /\ gestures.acts + 1 \in Nat
      BY <1>1, <3>2
    <3> QED BY <1>1, <3>1, <3>3 DEF Strolls
  <2>5. desk'.draft.of = desk'.file.content.of
    BY <2>1, <2>3, SetupTexts DEF SetupInv, DeskInv
  <2> QED BY <2>2, <2>3, <2>4, <2>5, DeskMoves
<1>5. ASSUME NEW p \in Owners, ProjectRestored(p) PROVE SetupInv'
  <2>1. desk' = [desk EXCEPT !.active = p] /\ UNCHANGED <<texts, posts>>
    BY <1>5 DEF ProjectRestored
  <2>2. desk' \in Desks /\ desk'.file = desk.file /\ desk'.draft = desk.draft /\ desk'.open = desk.open
    BY <1>1, <1>5, <2>1 DEF Desks
  <2>3. gestures' \in Strolls /\ (desk.file # NoFile => "restored" \in gestures'.mixed)
    <3> DEFINE mixed == IF desk.file # NoFile THEN gestures.mixed \cup {"restored"} ELSE gestures.mixed
    <3>1. gestures' = [gestures EXCEPT !.luck = @ + 1, !.mixed = mixed]
      BY <1>5 DEF ProjectRestored
    <3>2. mixed \in SUBSET Mixes /\ (desk.file # NoFile => "restored" \in mixed)
      <4>1. "restored" \in Mixes
        BY DEF Mixes
      <4> QED BY <1>1, <4>1
    <3>3. gestures.luck + 1 \in Nat
      BY <1>1
    <3> HIDE DEF mixed
    <3> QED BY <1>1, <3>1, <3>2, <3>3 DEF Strolls
  <2>4. "restored" \notin Harmless
    BY DEF Harmless
  <2> QED BY <2>1, <2>2, <2>3, <2>4, DeskMoves DEF SetupInv, DeskInv
<1> QED BY <1>2, <1>3, <1>4, <1>5

(* What a step about a request needs to keep. *)
LEMMA PostsMove ==
    ASSUME SetupInv, SetupTyped', TextsInv', DeskInv', CleanInv',
           \A r \in posts' : r \in posts \/ LetterOK(r)
    PROVE  SetupInv'
BY DEF SetupInv, LetterOK

LEMMA LetterFollows ==
    ASSUME NEW r \in Letters, NEW op \in {"overview", "read"}, NEW x, x = Then(r, op)
    PROVE  x \in Letters /\ LetterOK(x)
<1> DEFINE refresh == op = "read"
<1>1. x = [r EXCEPT !.op = op, !.answer = "none", !.text = Absent, !.refresh = refresh] /\ refresh \in BOOLEAN
  BY DEF Then
<1>2. Absent \in Texts
  BY SetupTexts
<1> HIDE DEF refresh
<1>3. x \in Letters /\ x.op = op /\ x.answer = "none"
  BY <1>1, <1>2 DEF Letters
<1> QED BY <1>3 DEF LetterOK

LEMMA AskTurns ==
    ASSUME SetupInv, OverviewAsked \/ \E k \in Kinds : FileClicked(k)
    PROVE  SetupInv'
<1>1. PICK op \in {"overview", "read", "create"}, k \in Kinds :
          /\ posts' = posts \cup {Letter(op, k, desk.active, Absent, FALSE)}
          /\ UNCHANGED <<texts, desk>> /\ gestures' = [gestures EXCEPT !.acts = @ + 1]
  BY DEF OverviewAsked, FileClicked, Mails, Gestured, Kinds
<1> DEFINE x == Letter(op, k, desk.active, Absent, FALSE)
<1>2. x \in Letters /\ x.op = op /\ x.answer = "none"
  <2>1. Absent \in Texts
    BY SetupTexts
  <2> QED BY <2>1 DEF Letter, Letters, SetupInv, SetupTyped, Desks, Strolls
<1>3. posts' = posts \cup {x}
  BY <1>1
<1> HIDE DEF x
<1>4. LetterOK(x)
  BY <1>2 DEF LetterOK
<1>5. gestures' \in Strolls /\ gestures'.mixed = gestures.mixed
  BY <1>1 DEF SetupInv, SetupTyped, Strolls
<1>6. SetupTyped'
  BY <1>1, <1>2, <1>3, <1>5 DEF SetupInv, SetupTyped
<1>7. TextsInv' /\ DeskInv' /\ CleanInv'
  BY <1>1, <1>5 DEF SetupInv, TextsInv, DeskInv, CleanInv
<1> QED BY <1>3, <1>4, <1>6, <1>7, PostsMove

LEMMA SaveSent == ASSUME SetupInv, SaveClicked PROVE SetupInv'
<1>1. /\ desk \in Desks /\ gestures \in Strolls /\ desk.open /\ desk.file # NoFile
      /\ desk.file.kind \in Kinds /\ desk.draft \in Texts /\ gestures.mixed \in SUBSET Mixes
      /\ gestures.acts + 1 \in Nat
  BY DEF SaveClicked, SetupInv, SetupTyped, DeskInv, Desks, Strolls
<1> DEFINE x == Letter("save", desk.file.kind, desk.active, desk.draft, FALSE)
<1>2. /\ x \in Letters /\ x.op = "save" /\ x.kind = desk.file.kind /\ x.project = desk.active
      /\ x.text = desk.draft /\ x.mixed = gestures.mixed /\ x.answer = "none"
  BY <1>1 DEF Letter, Letters, Desks, Strolls
<1>3. posts' = posts \cup {x} /\ UNCHANGED texts
  BY DEF SaveClicked, Mails
<1> HIDE DEF x
<1>4. LetterOK(x)
  BY <1>1, <1>2 DEF LetterOK, SetupInv, CleanInv, DeskInv
<1>5. desk' \in Desks /\ desk'.file = desk.file /\ desk'.draft = desk.draft /\ desk'.open = desk.open
      /\ desk'.active = desk.active
  <2>1. desk' = [desk EXCEPT !.saving = TRUE, !.result = "idle"]
    BY DEF SaveClicked
  <2> QED BY <1>1, <2>1 DEF Desks
<1>6. gestures' \in Strolls /\ (gestures'.mixed \subseteq Harmless => gestures.mixed \subseteq Harmless)
  <2> DEFINE mixed == gestures.mixed \cup IF \E r \in posts : r.op = "save" THEN {"two saves"} ELSE {}
  <2>1. gestures' = [gestures EXCEPT !.acts = @ + 1, !.mixed = mixed]
    BY DEF SaveClicked
  <2>2. "two saves" \in Mixes
    BY DEF Mixes
  <2>3. mixed \in SUBSET Mixes /\ gestures.mixed \subseteq mixed
    BY <1>1, <2>2
  <2> HIDE DEF mixed
  <2> QED BY <1>1, <2>1, <2>3 DEF Strolls
<1>7. SetupTyped'
  BY <1>2, <1>3, <1>5, <1>6 DEF SetupInv, SetupTyped
<1>8. TextsInv' /\ DeskInv'
  BY <1>3, <1>5 DEF SetupInv, TextsInv, DeskInv
<1>9. CleanInv'
  BY <1>5, <1>6 DEF SetupInv, CleanInv
<1> QED BY <1>3, <1>4, <1>7, <1>8, <1>9, PostsMove

LEMMA AgentTurns == ASSUME SetupInv, NEW p \in Owners, AgentEdits(p) PROVE SetupInv'
<1>1. /\ texts' = [texts EXCEPT ![p] = [of |-> p, edit |-> MaxGestures + 1]] /\ UNCHANGED <<desk, posts>>
      /\ p \in Places /\ MaxGestures + 1 \in Nat
  BY SetupBounds DEF AgentEdits, Places
<1>2. gestures' \in Strolls /\ (gestures'.mixed \subseteq Harmless => gestures.mixed \subseteq Harmless)
  <2> DEFINE mixed == gestures.mixed \cup {"agent"}
  <2>1. gestures' = [gestures EXCEPT !.luck = @ + 1, !.mixed = mixed]
    BY DEF AgentEdits
  <2>2. gestures \in Strolls /\ gestures.luck + 1 \in Nat /\ gestures.mixed \in SUBSET Mixes
    BY DEF SetupInv, SetupTyped, Strolls
  <2>3. "agent" \in Mixes
    BY DEF Mixes
  <2>4. mixed \in SUBSET Mixes /\ gestures.mixed \subseteq mixed
    BY <2>2, <2>3
  <2> HIDE DEF mixed
  <2> QED BY <2>1, <2>2, <2>4 DEF Strolls
<1>3. [of |-> p, edit |-> MaxGestures + 1] \in Texts
  BY <1>1 DEF Texts
<1>4. SetupTyped' /\ TextsInv'
  BY <1>1, <1>2, <1>3 DEF SetupInv, SetupTyped, TextsInv
<1>5. DeskInv' /\ CleanInv'
  BY <1>1, <1>2 DEF SetupInv, DeskInv, CleanInv
<1> QED BY <1>1, <1>4, <1>5, PostsMove

LEMMA Serves == ASSUME SetupInv, NEW r \in posts, Served(r) PROVE SetupInv'
<1> DEFINE place == Target(r.kind, r.project)
           text == CASE r.op = "read" -> ContentOf(place) [] r.op = "save" -> InFile(place, r.text) [] OTHER -> r.text
           seen == IF r.op = "overview" THEN FilesThere(r.project) ELSE {}
           x == [r EXCEPT !.answer = "ok", !.text = text, !.seen = seen]
<1>0. x = [r EXCEPT !.answer = "ok", !.text = text, !.seen = seen]
  OBVIOUS
<1>1. /\ posts' = (posts \ {r}) \cup {x} /\ UNCHANGED <<desk, gestures>>
      /\ \/ r.op = "save" /\ texts' = [texts EXCEPT ![place] = InFile(place, r.text)]
         \/ r.op = "create" /\ texts' = [texts EXCEPT ![place] = IF @ = Absent THEN Empty(place) ELSE @]
         \/ UNCHANGED texts
  BY DEF Served, SaveFile, CreateFile
<1> HIDE DEF x
<1>2. /\ r \in Letters /\ place \in Places /\ r.text \in Texts /\ texts \in [Places -> Texts]
  BY SetupTexts DEF SetupInv, SetupTyped, Letters
<1>3. ContentOf(place) \in Texts /\ ContentOf(place).of = place
  BY <1>2, SetupTexts DEF ContentOf, SetupInv, TextsInv
<1>4. InFile(place, r.text) \in Texts /\ InFile(place, r.text).of = place
  BY <1>2, SetupTexts
<1>5. text \in Texts /\ (r.op \in {"read", "save"} => text.of = place) /\ seen \in SUBSET Kinds
  BY <1>2, <1>3, <1>4 DEF FilesThere
<1> HIDE DEF text, seen
<1>6. x \in Letters /\ x.op = r.op /\ x.kind = r.kind /\ x.project = r.project /\ x.text = text
  BY <1>0, <1>2, <1>5 DEF Letters
<1>7. LetterOK(x)
  BY <1>5, <1>6 DEF LetterOK
<1>8. SetupTyped' /\ TextsInv'
  BY <1>1, <1>2, <1>4, <1>6, SetupTexts DEF SetupInv, SetupTyped, TextsInv
<1>9. DeskInv' /\ CleanInv'
  BY <1>1 DEF SetupInv, DeskInv, CleanInv
<1> QED BY <1>1, <1>7, <1>8, <1>9, PostsMove

LEMMA PostLost == ASSUME SetupInv, NEW r \in posts, PostFails(r) PROVE SetupInv'
<1> DEFINE x == [r EXCEPT !.answer = "error"]
<1>1. /\ posts' = (posts \ {r}) \cup {x} /\ UNCHANGED <<desk, texts>>
      /\ gestures' = [gestures EXCEPT !.luck = @ + 1]
  BY DEF PostFails
<1>2. /\ x \in Letters /\ x.op = r.op /\ x.kind = r.kind /\ x.project = r.project /\ x.text = r.text
      /\ x.mixed = r.mixed /\ x.answer = "error"
  BY DEF SetupInv, SetupTyped, Letters
<1> HIDE DEF x
<1>3. LetterOK(x)
  BY <1>2 DEF LetterOK, SetupInv
<1>4. gestures' \in Strolls /\ gestures'.mixed = gestures.mixed
  BY <1>1 DEF SetupInv, SetupTyped, Strolls
<1>5. SetupTyped'
  BY <1>1, <1>2, <1>4 DEF SetupInv, SetupTyped
<1>6. TextsInv' /\ DeskInv' /\ CleanInv'
  BY <1>1, <1>4 DEF SetupInv, TextsInv, DeskInv, CleanInv
<1> QED BY <1>1, <1>3, <1>5, <1>6, PostsMove

(* Answers *)
LEMMA AnswerTurns ==
    ASSUME SetupInv, NEW r \in posts, OverviewShown(r) \/ FileCreated(r) \/ FileShown(r) \/ FileSaved(r)
    PROVE  SetupInv'
<1>1. /\ desk \in Desks /\ gestures \in Strolls /\ r \in Letters /\ gestures.mixed \in SUBSET Mixes
      /\ r.text \in Texts /\ posts \subseteq Letters /\ Target(r.kind, r.project) \in Places
  BY SetupTexts DEF SetupInv, SetupTyped, Strolls, Letters
<1>2. UNCHANGED texts /\ posts' \subseteq Letters /\ \A q \in posts' : q \in posts \/ LetterOK(q)
  <2>1. PICK op \in {"overview", "read"} : posts' \subseteq posts \cup {Then(r, op)}
    BY DEF OverviewShown, FileCreated, FileShown, FileSaved, Settle
  <2>2. Then(r, op) \in Letters /\ LetterOK(Then(r, op))
    BY <1>1, LetterFollows
  <2>3. UNCHANGED texts
    BY DEF OverviewShown, FileCreated, FileShown, FileSaved
  <2> QED BY <1>1, <2>1, <2>2, <2>3
<1>3. SUFFICES /\ desk' \in Desks /\ gestures' \in Strolls /\ DeskInv' /\ CleanInv'
  BY <1>2, PostsMove DEF SetupInv, SetupTyped, TextsInv
<1>4. CASE OverviewShown(r) \/ FileCreated(r)
  <2>1. UNCHANGED gestures /\ (desk' = desk \/ desk' = [desk EXCEPT !.exists = r.seen])
    BY <1>4 DEF OverviewShown, FileCreated
  <2>2. r.seen \in SUBSET Kinds
    BY <1>1 DEF Letters
  <2>3. /\ desk' \in Desks /\ desk'.file = desk.file /\ desk'.draft = desk.draft /\ desk'.open = desk.open
        /\ desk'.active = desk.active
    BY <1>1, <2>1, <2>2 DEF Desks
  <2> QED BY <1>1, <2>1, <2>3 DEF SetupInv, DeskInv, CleanInv
<1>5. CASE FileShown(r)
  <2> DEFINE place == Target(r.kind, r.project)
             f == [place |-> place, kind |-> r.kind, content |-> r.text]
             late == place # Target(r.kind, desk.active) \/ r.text # ContentOf(place)
             mixed == IF late THEN gestures.mixed \cup {"late read"}
                      ELSE gestures.mixed \ {"restored", "late read", "late save"}
  <2>1. CASE r.answer = "ok"
    <3>1. desk' = WithFile(desk, f) /\ gestures' = [gestures EXCEPT !.mixed = mixed] /\ r.op = "read"
      BY <1>5, <2>1 DEF FileShown
    <3>2. f \in Files /\ f.place = place /\ f.kind = r.kind /\ f.content = r.text /\ r.kind \in Kinds
      BY <1>1 DEF Files, Letters
    <3>3. mixed \in SUBSET Mixes /\ (mixed \subseteq Harmless => ~late)
      BY <1>1 DEF Mixes, Harmless
    <3>4. f # NoFile /\ place \in Places
      BY <1>1, <3>2, SetupTexts
    <3>5. r.text.of = place
      BY <2>1, <3>1 DEF SetupInv, LetterOK
    <3>6. ~late => place = Target(r.kind, desk.active)
      OBVIOUS
    <3> HIDE DEF mixed, late, f, place
    <3>7. gestures' \in Strolls /\ gestures'.mixed = mixed
      BY <1>1, <3>1, <3>3 DEF Strolls
    <3>8. /\ desk' \in Desks /\ desk'.file = f /\ desk'.active = desk.active
          /\ desk'.draft = f.content \/ (desk'.draft = desk.draft /\ f.content = desk.file.content)
      BY <1>1, <3>1, <3>2, WithFileShows
    <3>9. DeskInv'
      BY <3>2, <3>4, <3>8 DEF SetupInv, DeskInv
    <3>10. CleanInv'
      BY <3>2, <3>3, <3>5, <3>6, <3>7, <3>8 DEF CleanInv
    <3> QED BY <3>7, <3>8, <3>9, <3>10
  <2>2. CASE r.answer # "ok"
    <3>1. UNCHANGED <<desk, gestures>>
      BY <1>5, <2>2 DEF FileShown
    <3> QED BY <1>1, <3>1 DEF SetupInv, DeskInv, CleanInv
  <2> QED BY <2>1, <2>2
<1>6. CASE FileSaved(r)
  <2> DEFINE shown == r.answer = "ok" /\ desk.file # NoFile
             f == [desk.file EXCEPT !.content = r.text]
             now == IF shown THEN WithFile(desk, f) ELSE desk
             late == r.answer = "ok" /\ desk.file.place \notin {"none", Target(r.kind, r.project)}
             mixed == IF late THEN gestures.mixed \cup {"late save"} ELSE gestures.mixed
  <2>1. /\ desk' = [now EXCEPT !.saving = FALSE, !.result = "success"] /\ r.op = "save"
        /\ gestures' = [gestures EXCEPT !.mixed = mixed]
    BY <1>6 DEF FileSaved
  <2>2. f \in Files /\ f.place = desk.file.place /\ f.kind = desk.file.kind /\ f.content = r.text
    BY <1>1 DEF Desks, Files
  <2>3. mixed \in SUBSET Mixes /\ gestures.mixed \subseteq mixed /\ (mixed \subseteq Harmless => ~late)
    BY <1>1 DEF Mixes, Harmless
  <2>4. gestures' \in Strolls /\ gestures'.mixed = mixed
    BY <1>1, <2>1, <2>3 DEF Strolls
  <2>5. CASE shown
    <3>1. desk.file.place \in Places /\ desk.file.kind \in Kinds /\ desk.file.place # "none"
      BY <2>5, SetupTexts DEF SetupInv, DeskInv, NoFile
    <3>2. r.text.of = Target(r.kind, r.project)
      BY <2>1, <2>5 DEF SetupInv, LetterOK
    <3>3. f # NoFile
      BY <2>2, <3>1, SetupTexts
    <3>4. ~late => desk.file.place = Target(r.kind, r.project)
      BY <2>5, <3>1
    <3> HIDE DEF f, late, mixed
    <3>5. /\ now \in Desks /\ now.file = f /\ now.active = desk.active
          /\ now.draft = f.content \/ (now.draft = desk.draft /\ f.content = desk.file.content)
      BY <1>1, <2>2, <2>5, WithFileShows
    <3> HIDE DEF now
    <3>6. /\ desk' \in Desks /\ desk'.file = f /\ desk'.active = desk.active /\ desk'.draft = now.draft
      BY <2>1, <3>5 DEF Desks
    <3>7. DeskInv'
      BY <2>2, <3>1, <3>3, <3>5, <3>6 DEF SetupInv, DeskInv
    <3>8. CleanInv'
      BY <2>2, <2>3, <2>4, <2>5, <3>2, <3>4, <3>6 DEF SetupInv, CleanInv
    <3> QED BY <2>4, <3>6, <3>7, <3>8
  <2>6. CASE ~shown
    <3>1. now = desk
      BY <2>6
    <3> HIDE DEF now, mixed
    <3>2. /\ desk' \in Desks /\ desk'.file = desk.file /\ desk'.active = desk.active /\ desk'.draft = desk.draft
          /\ desk'.open = desk.open
      BY <1>1, <2>1, <3>1 DEF Desks
    <3> QED BY <2>3, <2>4, <3>2 DEF SetupInv, DeskInv, CleanInv
  <2> QED BY <2>5, <2>6
<1> QED BY <1>4, <1>5, <1>6

LEMMA SetupStep == ASSUME SetupInv, [SetupNext]_setup PROVE SetupInv'
<1>1. CASE UNCHANGED setup
  BY <1>1 DEF setup, SetupInv, SetupTyped, TextsInv, DeskInv, CleanInv
<1> QED BY <1>1, GestureTurns, AskTurns, SaveSent, AgentTurns, Serves, PostLost, AnswerTurns DEF SetupNext

LEMMA StepKeepsText == ASSUME SetupInv, [SetupNext]_setup PROVE FilesKeepTheirText
<1>1. CASE UNCHANGED texts
  BY <1>1 DEF FilesKeepTheirText
<1>2. ASSUME NEW p \in Owners, AgentEdits(p) PROVE FilesKeepTheirText
  <2>1. gestures'.luck > gestures.luck
    BY <1>2 DEF AgentEdits, SetupInv, SetupTyped, Strolls
  <2> QED BY <2>1 DEF FilesKeepTheirText
<1>3. ASSUME NEW r \in posts, Served(r) PROVE FilesKeepTheirText
  <2> DEFINE place == Target(r.kind, r.project)
  <2>1. \/ r.op = "save" /\ texts' = [texts EXCEPT ![place] = InFile(place, r.text)]
        \/ texts' = [texts EXCEPT ![place] = IF @ = Absent THEN Empty(place) ELSE @]
        \/ UNCHANGED texts
    BY <1>3 DEF Served, SaveFile, CreateFile
  <2>2. place \in Places /\ texts \in [Places -> Texts]
    BY SetupTexts DEF SetupInv, SetupTyped, Letters
  <2>3. r.mixed \subseteq Harmless /\ r.op = "save" => r.text.of = place
    BY DEF SetupInv, LetterOK
  <2> HIDE DEF place
  <2> QED BY <2>1, <2>2, <2>3 DEF FilesKeepTheirText, Harmless
<1> QED BY <1>1, <1>2, <1>3 DEF SetupNext, setup, ProjectSelected, ProjectRestored, FileClicked, OverviewAsked,
        Typed, EditorClosed, SaveClicked, PostFails, OverviewShown, FileCreated, FileShown, FileSaved

THEOREM FilesAreNotMixedUp == SetupInit /\ [][SetupNext]_setup => [][FilesKeepTheirText]_setup
<1>1. SetupInit => SetupInv
  BY SetupStarts
<1>2. SetupInv /\ [SetupNext]_setup => SetupInv' /\ FilesKeepTheirText
  BY SetupStep, StepKeepsText
<1> QED BY <1>1, <1>2, PTL

-----------------------------------------------------------------------------
(* The editor of settings *)

(* Two saves under way at once are remembered until none is left, and one  *)
(* save alone means that no success is shown.                              *)
SavesInv ==
    "two saves" \notin gestures.mixed =>
        \A r \in posts : r.op = "save" =>
            /\ desk.result = "idle"
            /\ \A q \in posts : q.op = "save" => q = r

(* What a save alone has been answered is what the file holds.             *)
AnswersInv ==
    gestures.mixed \cap Harmless = {} =>
        \A r \in posts : r.op = "save" /\ r.answer = "ok" => r.text = ContentOf(Target(r.kind, r.project))

(* The open file shows what is in it, but for a save of which the answer   *)
(* is on its way.                                                          *)
FreshInv ==
    gestures.mixed = {} /\ desk.file # NoFile =>
        \/ desk.file.content = ContentOf(desk.file.place)
        \/ \E r \in posts : r.op = "save" /\ r.answer = "ok" /\ Target(r.kind, r.project) = desk.file.place

SavedInv == SetupInv /\ SavesInv /\ AnswersInv /\ FreshInv

(* What is called saved is saved. *)
LEMMA SuccessIsSaved == ASSUME SavedInv PROVE SavedMeansSaved
BY DEF SavedInv, SavesInv, FreshInv, SavedMeansSaved

LEMMA SavedStarts == ASSUME SetupInit PROVE SavedInv
BY SetupStarts DEF SetupInit, SavedInv, SavesInv, AnswersInv, FreshInv

(* A step that neither writes a file nor moves a request. *)
LEMMA DeskTurnsAlone ==
    ASSUME SavedInv, SetupInv', UNCHANGED <<texts, posts>>,
           desk'.result = desk.result \/ desk'.result = "idle",
           "two saves" \in gestures.mixed /\ (\E r \in posts : r.op = "save") => "two saves" \in gestures'.mixed,
           "agent" \in gestures.mixed => "agent" \in gestures'.mixed,
           \/ gestures'.mixed # {} \/ desk'.file = NoFile
           \/ gestures.mixed = {} /\ desk'.file = desk.file
    PROVE  SavedInv'
<1>1. SavesInv'
  BY DEF SavedInv, SavesInv
<1>2. AnswersInv'
  BY DEF SavedInv, AnswersInv, Harmless, ContentOf
<1>3. FreshInv'
  BY DEF SavedInv, FreshInv, ContentOf
<1> QED BY <1>1, <1>2, <1>3 DEF SavedInv

LEMMA GesturesKeepSaved ==
    ASSUME SavedInv, SetupInv', EditorClosed \/ Typed \/ \E p \in Owners : ProjectSelected(p) \/ ProjectRestored(p)
    PROVE  SavedInv'
<1>1. desk \in Desks /\ gestures \in Strolls
  BY DEF SavedInv, SetupInv, SetupTyped
<1>2. CASE EditorClosed
  <2>1. /\ desk' = [desk EXCEPT !.open = FALSE] /\ gestures' = [gestures EXCEPT !.acts = @ + 1]
        /\ UNCHANGED <<texts, posts>>
    BY <1>2 DEF EditorClosed, Gestured
  <2>2. desk'.file = desk.file /\ desk'.result = desk.result /\ gestures'.mixed = gestures.mixed
    BY <1>1, <2>1 DEF Desks, Strolls
  <2> QED BY <2>1, <2>2, DeskTurnsAlone
<1>3. CASE Typed
  <2>1. /\ desk' = [desk EXCEPT !.draft = [desk.draft EXCEPT !.edit = gestures.acts + 1]]
        /\ gestures' = [gestures EXCEPT !.acts = @ + 1] /\ UNCHANGED <<texts, posts>>
    BY <1>3 DEF Typed, Gestured
  <2>2. desk'.file = desk.file /\ desk'.result = desk.result /\ gestures'.mixed = gestures.mixed
    BY <1>1, <2>1 DEF Desks, Strolls
  <2> QED BY <2>1, <2>2, DeskTurnsAlone
<1>4. ASSUME NEW p \in Owners, ProjectSelected(p) PROVE SavedInv'
  <2> DEFINE x == WithFile(desk, NoFile)
             waits == \E r \in posts : r.op = "save"
  <2>1. x \in Desks /\ x.file = NoFile /\ (x.result = desk.result \/ x.result = "idle")
    <3>1. x \in Desks /\ x.file = NoFile
      BY <1>1, SetupTexts, WithFileShows
    <3>2. x.result = desk.result \/ x.result = "idle"
      BY <1>1 DEF WithFile, Desks
    <3> QED BY <3>1, <3>2
  <2>2. desk' = [x EXCEPT !.active = p] /\ UNCHANGED <<texts, posts>>
    BY <1>4 DEF ProjectSelected, ProjectChange
  <2> HIDE DEF x
  <2>3. desk'.file = NoFile /\ desk'.result = x.result
    BY <2>1, <2>2 DEF Desks
  <2>4. gestures'.mixed = gestures.mixed \cap ({"agent"} \cup IF waits THEN {"two saves"} ELSE {})
    BY <1>1, <1>4 DEF ProjectSelected, Strolls
  <2> QED BY <2>1, <2>2, <2>3, <2>4, DeskTurnsAlone
<1>5. ASSUME NEW p \in Owners, ProjectRestored(p) PROVE SavedInv'
  <2>1. desk' = [desk EXCEPT !.active = p] /\ UNCHANGED <<texts, posts>>
    BY <1>5 DEF ProjectRestored
  <2>2. desk'.file = desk.file /\ desk'.result = desk.result
    BY <1>1, <2>1 DEF Desks
  <2>3. gestures'.mixed = IF desk.file # NoFile THEN gestures.mixed \cup {"restored"} ELSE gestures.mixed
    BY <1>1, <1>5 DEF ProjectRestored, Strolls
  <2> QED BY <2>1, <2>2, <2>3, DeskTurnsAlone
<1> QED BY <1>2, <1>3, <1>4, <1>5

(* A request other than a save comes, goes or is answered. *)
LEMMA OtherPosts ==
    ASSUME SavedInv, SetupInv', \A x \in Places : ContentOf(x)' = ContentOf(x),
           gestures'.mixed = gestures.mixed, desk'.file = desk.file, desk'.result = desk.result,
           \A r \in posts' : r \in posts \/ r.op # "save",
           \A r \in posts : r \in posts' \/ r.op # "save"
    PROVE  SavedInv'
<1>1. SavesInv'
  BY DEF SavedInv, SavesInv
<1>2. AnswersInv'
  <2>1. \A r \in posts : Target(r.kind, r.project) \in Places
    BY SetupTexts DEF SavedInv, SetupInv, SetupTyped, Letters
  <2> QED BY <2>1 DEF SavedInv, AnswersInv
<1>3. FreshInv'
  <2>1. desk.file # NoFile => desk.file.place \in Places
    BY DEF SavedInv, SetupInv, DeskInv
  <2> QED BY <2>1 DEF SavedInv, FreshInv
<1> QED BY <1>1, <1>2, <1>3 DEF SavedInv

LEMMA AsksKeepSaved ==
    ASSUME SavedInv, SetupInv', OverviewAsked \/ \E k \in Kinds : FileClicked(k)
    PROVE  SavedInv'
<1>1. PICK op \in {"overview", "read", "create"}, k \in Kinds :
          /\ posts' = posts \cup {Letter(op, k, desk.active, Absent, FALSE)}
          /\ UNCHANGED <<texts, desk>> /\ gestures' = [gestures EXCEPT !.acts = @ + 1]
  BY DEF OverviewAsked, FileClicked, Mails, Gestured, Kinds
<1>2. Letter(op, k, desk.active, Absent, FALSE).op = op
  BY DEF Letter
<1>3. gestures'.mixed = gestures.mixed
  BY <1>1 DEF SavedInv, SetupInv, SetupTyped, Strolls
<1>4. \A x \in Places : ContentOf(x)' = ContentOf(x)
  BY <1>1 DEF ContentOf
<1> QED BY <1>1, <1>2, <1>3, <1>4, OtherPosts

LEMMA SaveSentKeepsSaved == ASSUME SavedInv, SetupInv', SaveClicked PROVE SavedInv'
<1>1. desk \in Desks /\ gestures \in Strolls
  BY DEF SavedInv, SetupInv, SetupTyped
<1> DEFINE x == Letter("save", desk.file.kind, desk.active, desk.draft, FALSE)
           waits == \E r \in posts : r.op = "save"
<1>2. posts' = posts \cup {x} /\ UNCHANGED texts /\ x.op = "save" /\ x.answer = "none"
  BY DEF SaveClicked, Mails, Letter
<1> HIDE DEF x
<1>3. desk'.file = desk.file /\ desk'.result = "idle"
  BY <1>1 DEF SaveClicked, Desks
<1>4. gestures'.mixed = gestures.mixed \cup IF waits THEN {"two saves"} ELSE {}
  BY <1>1 DEF SaveClicked, Strolls
<1>5. SavesInv'
  BY <1>2, <1>3, <1>4 DEF SavesInv
<1>6. AnswersInv'
  BY <1>2, <1>4 DEF SavedInv, AnswersInv, Harmless, ContentOf
<1>7. FreshInv'
  BY <1>2, <1>3, <1>4 DEF SavedInv, FreshInv, ContentOf
<1> QED BY <1>5, <1>6, <1>7 DEF SavedInv

LEMMA AgentKeepsSaved == ASSUME SavedInv, SetupInv', NEW p \in Owners, AgentEdits(p) PROVE SavedInv'
<1>1. UNCHANGED <<desk, posts>> /\ gestures'.mixed = gestures.mixed \cup {"agent"}
  BY DEF AgentEdits, SavedInv, SetupInv, SetupTyped, Strolls
<1> QED BY <1>1 DEF SavedInv, SavesInv, AnswersInv, FreshInv, Harmless

LEMMA PostsKeepSaved ==
    ASSUME SavedInv, SetupInv', NEW r \in posts, Served(r) \/ PostFails(r)
    PROVE  SavedInv'
<1> DEFINE place == Target(r.kind, r.project)
<1>1. /\ r \in Letters /\ posts \subseteq Letters /\ texts \in [Places -> Texts] /\ place \in Places
      /\ gestures \in Strolls
  BY SetupTexts DEF SavedInv, SetupInv, SetupTyped, Letters
<1>2. PICK x \in Letters :
          /\ posts' = (posts \ {r}) \cup {x} /\ x.op = r.op /\ x.kind = r.kind /\ x.project = r.project
          /\ x.answer = "ok" /\ r.op = "save" => x.text = InFile(place, r.text)
          /\ (Served(r) /\ x.answer = "ok") \/ (PostFails(r) /\ x.answer = "error")
  <2>1. CASE Served(r)
    <3> DEFINE text == CASE r.op = "read" -> ContentOf(place) [] r.op = "save" -> InFile(place, r.text) [] OTHER -> r.text
               seen == IF r.op = "overview" THEN FilesThere(r.project) ELSE {}
               x == [r EXCEPT !.answer = "ok", !.text = text, !.seen = seen]
    <3>1. posts' = (posts \ {r}) \cup {x}
      BY <2>1 DEF Served
    <3>2. r.op = "save" => text = InFile(place, r.text)
      OBVIOUS
    <3>3. x = [r EXCEPT !.answer = "ok", !.text = text, !.seen = seen]
      OBVIOUS
    <3> HIDE DEF x, text, seen
    <3>4. x.op = r.op /\ x.kind = r.kind /\ x.project = r.project /\ x.text = text /\ x.answer = "ok"
      BY <1>1, <3>3 DEF Letters
    <3>5. x \in Letters
      BY <3>1 DEF SetupInv, SetupTyped
    <3> QED BY <2>1, <3>1, <3>2, <3>4, <3>5
  <2>2. CASE PostFails(r)
    <3> DEFINE x == [r EXCEPT !.answer = "error"]
    <3>1. posts' = (posts \ {r}) \cup {x}
      BY <2>2 DEF PostFails
    <3>2. x \in Letters /\ x.op = r.op /\ x.kind = r.kind /\ x.project = r.project /\ x.answer = "error"
      BY <1>1 DEF Letters
    <3> HIDE DEF x
    <3> QED BY <2>2, <3>1, <3>2
  <2> QED BY <2>1, <2>2
<1>3. UNCHANGED desk /\ gestures'.mixed = gestures.mixed /\ r.answer = "none"
  BY <1>1 DEF Served, PostFails, Strolls
<1>4. CASE r.op # "save"
  <2>1. \A y \in Places : ContentOf(y)' = ContentOf(y)
    <3>1. UNCHANGED texts \/ texts' = [texts EXCEPT ![place] = IF @ = Absent THEN Empty(place) ELSE @]
      BY <1>4 DEF Served, PostFails, CreateFile
    <3>2. \A y \in Places : Empty(y) # Absent
      BY SetupTexts, SetupBounds DEF Empty, Absent, Places, Shared
    <3> QED BY <1>1, <3>1, <3>2 DEF ContentOf
  <2> QED BY <1>2, <1>3, <1>4, <2>1, OtherPosts
<1>5. CASE r.op = "save"
  <2>1. SavesInv'
    BY <1>2, <1>3, <1>5 DEF SavedInv, SavesInv
  <2>2. \/ UNCHANGED texts /\ x.answer = "error"
        \/ texts' = [texts EXCEPT ![place] = InFile(place, r.text)] /\ x.answer = "ok"
    BY <1>2, <1>5 DEF Served, PostFails, SaveFile
  <2>3. \A y \in Places : y # place \/ UNCHANGED texts => ContentOf(y)' = ContentOf(y)
    BY <1>1, <2>2 DEF ContentOf
  <2>4. x.answer = "ok" => ContentOf(place)' = InFile(place, r.text)
    <3>1. InFile(place, r.text) # Absent
      <4>1. InFile(place, r.text).of \in Places /\ Absent.of \notin Places
        BY <1>1, SetupTexts, SetupBounds DEF Letters, Absent, Places, Shared
      <4> QED BY <4>1
    <3>2. CASE UNCHANGED texts /\ x.answer = "error"
      BY <3>2
    <3>3. CASE texts' = [texts EXCEPT ![place] = InFile(place, r.text)]
      BY <1>1, <3>1, <3>3 DEF ContentOf
    <3> QED BY <2>2, <3>2, <3>3
  <2>5. "two saves" \notin gestures.mixed =>
            /\ \A q \in posts : q.op = "save" => q = r
            /\ \A q \in posts' : q.op = "save" => q = x
    BY <1>2, <1>5 DEF SavedInv, SavesInv
  <2>6. AnswersInv'
    BY <1>2, <1>3, <1>5, <2>4, <2>5 DEF AnswersInv, Harmless
  <2>7. FreshInv'
    <3> SUFFICES ASSUME gestures.mixed = {}, desk.file # NoFile PROVE FreshInv'
      BY <1>3 DEF FreshInv
    <3>1. desk.file.place \in Places
      BY DEF SavedInv, SetupInv, DeskInv
    <3>2. desk.file.content = ContentOf(desk.file.place)
      BY <1>3, <2>5 DEF SavedInv, FreshInv
    <3>3. CASE desk.file.place = place /\ x.answer = "ok"
      BY <1>2, <1>3, <1>5, <3>3 DEF FreshInv
    <3>4. CASE desk.file.place # place \/ UNCHANGED texts
      BY <1>3, <2>3, <3>1, <3>2, <3>4 DEF FreshInv
    <3> QED BY <2>2, <3>3, <3>4
  <2> QED BY <2>1, <2>6, <2>7 DEF SavedInv
<1> QED BY <1>4, <1>5

LEMMA AnswersKeepSaved ==
    ASSUME SavedInv, SetupInv', NEW r \in posts,
           OverviewShown(r) \/ FileCreated(r) \/ FileShown(r) \/ FileSaved(r)
    PROVE  SavedInv'
<1>1. /\ desk \in Desks /\ gestures \in Strolls /\ r \in Letters /\ r.text \in Texts /\ posts \subseteq Letters
      /\ Target(r.kind, r.project) \in Places /\ gestures.mixed \in SUBSET Mixes
  BY SetupTexts DEF SavedInv, SetupInv, SetupTyped, Strolls, Letters
<1>2. /\ \A q \in posts' : q \in posts \/ q.op # "save"
      /\ \A q \in posts : q \in posts' \/ q = r
      /\ UNCHANGED texts /\ \A x \in Places : ContentOf(x)' = ContentOf(x)
  <2>1. PICK op \in {"overview", "read"} : posts' \subseteq posts \cup {Then(r, op)}
    BY DEF OverviewShown, FileCreated, FileShown, FileSaved, Settle
  <2>2. Then(r, op).op = op
    BY <1>1 DEF Then, Letters
  <2>3. UNCHANGED texts /\ \A q \in posts : q \in posts' \/ q = r
    BY DEF OverviewShown, FileCreated, FileShown, FileSaved, Settle
  <2> QED BY <2>1, <2>2, <2>3 DEF ContentOf
<1>3. CASE OverviewShown(r) \/ FileCreated(r)
  <2>1. UNCHANGED gestures /\ (desk' = desk \/ desk' = [desk EXCEPT !.exists = r.seen]) /\ r.op # "save"
    BY <1>3 DEF OverviewShown, FileCreated
  <2>2. desk'.file = desk.file /\ desk'.result = desk.result
    BY <1>1, <2>1 DEF Desks
  <2> QED BY <1>2, <2>1, <2>2, OtherPosts
<1>4. CASE FileShown(r)
  <2> DEFINE place == Target(r.kind, r.project)
             f == [place |-> place, kind |-> r.kind, content |-> r.text]
             late == place # Target(r.kind, desk.active) \/ r.text # ContentOf(place)
             mixed == IF late THEN gestures.mixed \cup {"late read"}
                      ELSE gestures.mixed \ {"restored", "late read", "late save"}
  <2>1. CASE r.answer = "ok"
    <3>1. desk' = WithFile(desk, f) /\ gestures' = [gestures EXCEPT !.mixed = mixed] /\ r.op = "read"
      BY <1>4, <2>1 DEF FileShown
    <3>2. f \in Files
      BY <1>1 DEF Files, Letters
    <3>3. desk'.file = f /\ (desk'.result = desk.result \/ desk'.result = "idle")
      <4>1. desk'.file = f
        BY <1>1, <3>1, <3>2, WithFileShows
      <4>2. desk'.result = desk.result \/ desk'.result = "idle"
        BY <1>1, <3>1 DEF WithFile, Desks
      <4> QED BY <4>1, <4>2
    <3>4. gestures'.mixed = mixed
      BY <1>1, <3>1 DEF Strolls
    <3>5. SavesInv'
      BY <1>2, <3>3, <3>4 DEF SavedInv, SavesInv
    <3>6. AnswersInv'
      <4>1. mixed \cap Harmless = gestures.mixed \cap Harmless
        BY DEF Harmless
      <4>2. \A q \in posts : Target(q.kind, q.project) \in Places
        BY <1>1, SetupTexts DEF Letters
      <4> QED BY <1>2, <3>4, <4>1, <4>2 DEF SavedInv, AnswersInv
    <3>7. FreshInv'
      <4>1. gestures'.mixed = {} => f.content = ContentOf(place) /\ f.place = place /\ place \in Places
        BY <1>1, <3>4
      <4> HIDE DEF f, place, mixed
      <4> QED BY <1>2, <3>3, <4>1 DEF FreshInv
    <3> QED BY <3>5, <3>6, <3>7 DEF SavedInv
  <2>2. CASE r.answer # "ok"
    <3>1. UNCHANGED <<desk, gestures>> /\ r.op # "save"
      BY <1>4, <2>2 DEF FileShown
    <3> QED BY <1>2, <3>1, OtherPosts
  <2> QED BY <2>1, <2>2
<1>5. CASE FileSaved(r)
  <2> DEFINE shown == r.answer = "ok" /\ desk.file # NoFile
             f == [desk.file EXCEPT !.content = r.text]
             now == IF shown THEN WithFile(desk, f) ELSE desk
             late == r.answer = "ok" /\ desk.file.place \notin {"none", Target(r.kind, r.project)}
             mixed == IF late THEN gestures.mixed \cup {"late save"} ELSE gestures.mixed
  <2>1. /\ desk' = [now EXCEPT !.saving = FALSE, !.result = "success"] /\ r.op = "save"
        /\ gestures' = [gestures EXCEPT !.mixed = mixed] /\ r \notin posts'
    <3>1. r.op = "save" /\ desk' = [now EXCEPT !.saving = FALSE, !.result = "success"]
      BY <1>5 DEF FileSaved
    <3>2. gestures' = [gestures EXCEPT !.mixed = mixed]
      BY <1>5 DEF FileSaved
    <3>3. posts' \subseteq (posts \ {r}) \cup {Then(r, "overview")} /\ Then(r, "overview").op = "overview"
      BY <1>1, <1>5 DEF FileSaved, Settle, Then, Letters
    <3> QED BY <3>1, <3>2, <3>3
  <2>2. f \in Files /\ f.place = desk.file.place /\ f.content = r.text
    BY <1>1 DEF Desks, Files
  <2>3. now \in Desks /\ now.file = IF shown THEN f ELSE desk.file
    <3>1. CASE shown
      BY <1>1, <2>2, <3>1, WithFileShows
    <3>2. CASE ~shown
      BY <1>1, <3>2
    <3> QED BY <3>1, <3>2
  <2>4. desk'.file = IF shown THEN f ELSE desk.file
    <3> HIDE DEF now, f
    <3> QED BY <2>1, <2>3 DEF Desks
  <2>5. gestures'.mixed = mixed /\ gestures.mixed \subseteq mixed /\ (mixed = {} => ~late)
    <3>1. gestures.mixed \subseteq mixed /\ (mixed = {} => ~late)
      OBVIOUS
    <3> HIDE DEF mixed
    <3>2. gestures'.mixed = mixed
      BY <1>1, <2>1 DEF Strolls
    <3> QED BY <3>1, <3>2
  <2>6. "two saves" \notin gestures.mixed =>
            /\ \A q \in posts : q.op = "save" => q = r
            /\ \A q \in posts' : q.op # "save"
    BY <1>2, <2>1 DEF SavedInv, SavesInv
  <2> HIDE DEF mixed, now
  <2>7. SavesInv' /\ AnswersInv'
    BY <2>5, <2>6 DEF SavesInv, AnswersInv, Harmless
  <2>8. FreshInv'
    <3> SUFFICES ASSUME gestures.mixed = {}, mixed = {}, desk'.file # NoFile
                 PROVE  desk'.file.content = ContentOf(desk'.file.place)
      BY <1>2, <2>5 DEF FreshInv, ContentOf
    <3>1. desk.file # NoFile /\ desk.file.place \in Places /\ desk.file.place # "none"
      BY <2>4, SetupTexts, SetupBounds DEF SavedInv, SetupInv, DeskInv, Places, Shared
    <3>2. CASE shown
      BY <1>1, <2>1, <2>2, <2>4, <2>5, <3>1, <3>2 DEF SavedInv, AnswersInv, Harmless
    <3>3. CASE ~shown
      BY <2>1, <2>4, <2>6, <3>1, <3>3 DEF SavedInv, FreshInv
    <3>4. shown \/ ~shown
      OBVIOUS
    <3> QED BY <1>2, <3>2, <3>3, <3>4 DEF ContentOf
  <2> QED BY <2>7, <2>8 DEF SavedInv
<1> QED BY <1>3, <1>4, <1>5

LEMMA SavedStep == ASSUME SavedInv, [SetupNext]_setup PROVE SavedInv'
<1>1. SetupInv'
  BY SetupStep DEF SavedInv
<1>2. CASE UNCHANGED setup
  BY <1>1, <1>2, DeskTurnsAlone DEF setup
<1> QED BY <1>1, <1>2, GesturesKeepSaved, AsksKeepSaved, SaveSentKeepsSaved, AgentKeepsSaved, PostsKeepSaved,
           AnswersKeepSaved DEF SetupNext

-----------------------------------------------------------------------------
(* The dashboard of services *)

Reading == [health : {"unknown", "down", "degraded", "healthy"}, age : Nat]
Views == [id : Nat, for : Managed \cup {"nobody"}, changed : SUBSET Managed, failed : BOOLEAN,
          at : [Managed -> {"list", "inspect", "probe", "done"}], read : [Managed -> Reading],
          seen : [Managed -> Conditions]]
Restarts == [service : Managed, at : {"list", "restart", "ok", "error"}, age : Nat]
Dashes == [shown : [Managed -> Reading], busy : SUBSET Managed, promised : [Managed -> Nat], newest : Nat]
Watches == [acts : Nat, sent : Nat, moves : Nat, changed : SUBSET Managed, late : BOOLEAN]

FleetTyped ==
    /\ host \in [Managed -> [condition : Conditions, age : Nat]]
    /\ views \subseteq Views /\ restarts \subseteq Restarts /\ dash \in Dashes /\ watch \in Watches

(* What a snapshot has of a service that has not changed since is so.      *)
TrueView(v) ==
    \A s \in Managed \ v.changed :
        /\ v.at[s] = "done" => v.read[s].health = HealthOf(s)
        /\ v.at[s] = "probe" => v.seen[s] = host[s].condition /\ v.seen[s] \in UpConditions

TrueInv == ShownHealthIsTrue /\ \A v \in views : TrueView(v)

(* The snapshot has the container that was promised, or may still read it. *)
Brings(v, s) == v.at[s] \in {"done", "probe"} => v.read[s].age >= dash.promised[s]

(* A busy service is restarting, or waits for one snapshot; from that one  *)
(* on they all show the container that was promised.                       *)
PromiseInv(s) ==
    /\ dash.promised[s] <= host[s].age
    /\ \A r \in restarts : r.service = s =>
          /\ s \in dash.busy /\ dash.promised[s] = 0 /\ r.age <= host[s].age
          /\ \A q \in restarts : q.service = s => q = r
          /\ \A v \in views : v.for # s
    /\ \A w \in views : w.for = s =>
          /\ s \in dash.busy
          /\ \A v \in views : v.for = s => v = w
          /\ \A v \in views : v.id >= w.id => Brings(v, s)
    /\ dash.promised[s] > 0 =>
          IF s \in dash.busy THEN \E w \in views : w.for = s
          ELSE /\ \A v \in views : v.id >= dash.newest => Brings(v, s)
               /\ ~watch.late => dash.shown[s].age >= dash.promised[s]

OrderInv == dash.newest <= watch.sent /\ \A v \in views : v.id <= watch.sent

FleetInv == FleetTyped /\ TrueInv /\ OrderInv /\ \A s \in Managed : PromiseInv(s)
LEMMA ServicesRead ==
    /\ NotYetRead \in Reading /\ UpConditions \subseteq Conditions
    /\ \A c \in Conditions, b \in BOOLEAN : Health(c, b) \in {"down", "degraded", "healthy"}
    /\ \A c \in {"missing", "exited"}, b \in BOOLEAN : Health(c, b) = "down"
BY DEF NotYetRead, Reading, UpConditions, Conditions, Health

LEMMA FleetStarts == ASSUME FleetInit PROVE FleetInv
<1>1. host \in [Managed -> [condition : Conditions, age : Nat]] /\ \A s \in Managed : host[s].age = 0
  <2>1. [condition |-> "fine", age |-> 0] \in [condition : Conditions, age : Nat]
    BY DEF Conditions, UpConditions
  <2> QED BY <2>1 DEF FleetInit
<1>2. dash \in Dashes /\ dash.newest = 0 /\ \A s \in Managed : dash.promised[s] = 0
  BY ServicesRead DEF FleetInit, Dashes
<1>3. watch \in Watches /\ watch.sent = 0 /\ watch.changed = Managed
  BY DEF FleetInit, Watches
<1>4. views = {} /\ restarts = {}
  BY DEF FleetInit
<1>5. FleetTyped
  BY <1>1, <1>2, <1>3, <1>4 DEF FleetTyped
<1>6. TrueInv /\ OrderInv
  BY <1>2, <1>3, <1>4 DEF TrueInv, OrderInv, ShownHealthIsTrue
<1>7. \A s \in Managed : PromiseInv(s)
  BY <1>1, <1>2, <1>4 DEF PromiseInv
<1> QED BY <1>5, <1>6, <1>7 DEF FleetInv

LEMMA Watching ==
    ASSUME NEW w \in Watches
    PROVE  /\ \A n \in Nat : LET x == [w EXCEPT !.acts = n] IN
                /\ x \in Watches /\ x.sent = w.sent /\ x.moves = w.moves /\ x.changed = w.changed /\ x.late = w.late
           /\ \A n \in Nat : LET x == [w EXCEPT !.sent = n] IN
                /\ x \in Watches /\ x.sent = n /\ x.changed = w.changed /\ x.late = w.late
           /\ \A n \in Nat : LET x == [w EXCEPT !.moves = n] IN
                /\ x \in Watches /\ x.sent = w.sent /\ x.changed = w.changed /\ x.late = w.late
           /\ \A c \in SUBSET Managed : LET x == [w EXCEPT !.changed = c] IN
                /\ x \in Watches /\ x.sent = w.sent /\ x.moves = w.moves /\ x.changed = c /\ x.late = w.late
           /\ w.acts \in Nat /\ w.sent \in Nat /\ w.moves \in Nat /\ w.changed \in SUBSET Managed
BY DEF Watches

(* A step of one snapshot. *)
LEMMA ViewTurns ==
    ASSUME FleetInv, NEW v \in views, NEW w \in Views, Onward(v, w), UNCHANGED <<host, restarts, dash>>,
           watch' \in Watches, watch'.sent = watch.sent, watch'.changed = watch.changed, watch'.late = watch.late,
           w.id = v.id, w.for = v.for, w.changed = v.changed, TrueView(w),
           \A s \in Managed : Brings(v, s) => Brings(w, s)
    PROVE  FleetInv'
<1>1. views' = (views \ {v}) \cup {w}
  BY DEF Onward
<1>2. FleetTyped'
  BY <1>1 DEF FleetInv, FleetTyped
<1>3. TrueInv'
  BY <1>1 DEF FleetInv, TrueInv, TrueView, ShownHealthIsTrue, HealthOf
<1>4. OrderInv'
  BY <1>1 DEF FleetInv, OrderInv
<1>5. ASSUME NEW s \in Managed PROVE PromiseInv(s)'
  <2>1. PromiseInv(s)
    BY DEF FleetInv
  <2>2. \A x \in Views : Brings(x, s)' <=> Brings(x, s)
    BY DEF Brings
  <2>3. \A x \in views' : \E y \in views : x.id = y.id /\ x.for = y.for /\ (Brings(y, s) => Brings(x, s)')
                                          /\ (y = v <=> x = w) /\ (x # w => x = y)
    <3>1. v \in views /\ views \subseteq Views
      BY DEF FleetInv, FleetTyped
    <3> QED BY <1>1, <2>2, <3>1
  <2>4. \A y \in views : \E x \in views' : x.for = y.for
    BY <1>1
  <2>5. \A x, z \in views' : x.for = s /\ z.for = s => x = z
    BY <2>1, <2>3 DEF PromiseInv
  <2> HIDE DEF Onward
  <2>6. \A x \in views' : x.for = s => s \in dash.busy /\ \A z \in views' : z.id >= x.id => Brings(z, s)'
    BY <2>1, <2>3 DEF PromiseInv
  <2>7. \A r \in restarts : r.service = s => \A x \in views' : x.for # s
    BY <2>1, <2>3 DEF PromiseInv
  <2>8. dash.promised[s] > 0 => IF s \in dash.busy THEN \E x \in views' : x.for = s
                                ELSE \A x \in views' : x.id >= dash.newest => Brings(x, s)'
    BY <2>1, <2>3, <2>4 DEF PromiseInv
  <2> QED BY <2>1, <2>5, <2>6, <2>7, <2>8 DEF PromiseInv
<1> QED BY <1>2, <1>3, <1>4, <1>5 DEF FleetInv

LEMMA SnapshotTurns ==
    ASSUME FleetInv, NEW v \in views,
           DockerHangs(v) \/ \E s \in Managed : ~v.failed /\ (NamesListed(v, s) \/ Inspected(v, s) \/ Probed(v, s))
    PROVE  FleetInv'
<1>1. /\ v \in Views /\ watch \in Watches /\ host \in [Managed -> [condition : Conditions, age : Nat]]
      /\ dash \in Dashes /\ TrueView(v) /\ \A s \in Managed : dash.promised[s] <= host[s].age /\ host[s].age \in Nat
  BY DEF FleetInv, FleetTyped, TrueInv, PromiseInv
<1>2. ASSUME NEW w, w = [v EXCEPT !.failed = TRUE]
      PROVE  /\ w \in Views /\ w.id = v.id /\ w.for = v.for /\ w.changed = v.changed /\ TrueView(w)
             /\ \A s \in Managed : Brings(v, s) => Brings(w, s)
  <2>1. /\ w \in Views /\ w.id = v.id /\ w.for = v.for /\ w.changed = v.changed /\ w.at = v.at
        /\ w.read = v.read /\ w.seen = v.seen
    BY <1>1, <1>2 DEF Views
  <2> QED BY <1>1, <2>1 DEF TrueView, Brings
<1>3. CASE DockerHangs(v)
  <2>1. Onward(v, [v EXCEPT !.failed = TRUE]) /\ UNCHANGED <<host, restarts, dash>>
    BY <1>3 DEF DockerHangs
  <2>2. watch' \in Watches /\ watch'.sent = watch.sent /\ watch'.changed = watch.changed /\ watch'.late = watch.late
    BY <1>1, <1>3 DEF DockerHangs, Watches
  <2>3. PICK w : w = [v EXCEPT !.failed = TRUE]
    OBVIOUS
  <2> QED BY <1>2, <2>1, <2>2, <2>3, ViewTurns
<1>4. ASSUME NEW s \in Managed, NEW at \in {"list", "inspect", "probe", "done"}, NEW reading \in Reading,
             NEW condition \in Conditions, NEW w,
             w = [v EXCEPT !.at = [@ EXCEPT ![s] = at], !.read = [@ EXCEPT ![s] = reading],
                           !.seen = [@ EXCEPT ![s] = condition]],
             \/ at \in {"probe", "done"} => reading.age >= dash.promised[s]
             \/ v.at[s] = "probe" /\ reading.age = v.read[s].age,
             s \notin v.changed =>
                /\ at = "done" => reading.health = HealthOf(s)
                /\ at = "probe" => condition = host[s].condition /\ condition \in UpConditions,
             Onward(v, w), UNCHANGED <<host, restarts, dash, watch>>
      PROVE  FleetInv'
  <2> DEFINE at2 == [v.at EXCEPT ![s] = at]
             read2 == [v.read EXCEPT ![s] = reading]
             seen2 == [v.seen EXCEPT ![s] = condition]
  <2>1. /\ at2 \in [Managed -> {"list", "inspect", "probe", "done"}] /\ read2 \in [Managed -> Reading]
        /\ seen2 \in [Managed -> Conditions]
        /\ at2[s] = at /\ read2[s] = reading /\ seen2[s] = condition
        /\ \A t \in Managed \ {s} : at2[t] = v.at[t] /\ read2[t] = v.read[t] /\ seen2[t] = v.seen[t]
    BY <1>1 DEF Views
  <2>2. w = [v EXCEPT !.at = at2, !.read = read2, !.seen = seen2]
    BY <1>4
  <2> HIDE DEF at2, read2, seen2
  <2>3. /\ w \in Views /\ w.id = v.id /\ w.for = v.for /\ w.changed = v.changed
        /\ w.at = at2 /\ w.read = read2 /\ w.seen = seen2
    BY <1>1, <2>1, <2>2 DEF Views
  <2>4. TrueView(w)
    BY <1>1, <1>4, <2>1, <2>3 DEF TrueView
  <2>5. \A t \in Managed : Brings(v, t) => Brings(w, t)
    BY <1>4, <2>1, <2>3 DEF Brings
  <2> QED BY <1>1, <1>4, <2>3, <2>4, <2>5, ViewTurns
<1>5. ASSUME NEW s \in Managed, NamesListed(v, s) \/ Inspected(v, s) \/ Probed(v, s) PROVE FleetInv'
  <2> DEFINE c == host[s].condition
             down == [health |-> "down", age |-> host[s].age]
  <2>1. /\ c \in Conditions /\ down \in Reading /\ down.age = host[s].age /\ down.health = "down"
        /\ v.at[s] \in {"list", "inspect", "probe", "done"} /\ v.read[s] \in Reading /\ v.seen[s] \in Conditions
    BY <1>1 DEF Views, Reading
  <2>2. c \in {"missing", "exited"} => HealthOf(s) = "down"
    BY ServicesRead DEF HealthOf
  <2>3. v = [v EXCEPT !.at = [@ EXCEPT ![s] = v.at[s]], !.read = [@ EXCEPT ![s] = v.read[s]],
                      !.seen = [@ EXCEPT ![s] = v.seen[s]]]
    BY <1>1 DEF Views
  <2>4. CASE NamesListed(v, s)
    <3>1. /\ UNCHANGED <<host, restarts, dash, watch>>
          /\ Onward(v, IF c = "missing" THEN [v EXCEPT !.at[s] = "done", !.read[s] = down]
                       ELSE [v EXCEPT !.at[s] = "inspect"])
      BY <2>4 DEF NamesListed
    <3>2. CASE c = "missing"
      <4>1. PICK w : w = [v EXCEPT !.at[s] = "done", !.read[s] = down]
        OBVIOUS
      <4>2. w = [v EXCEPT !.at = [@ EXCEPT ![s] = "done"], !.read = [@ EXCEPT ![s] = down],
                          !.seen = [@ EXCEPT ![s] = v.seen[s]]]
        BY <1>1, <4>1 DEF Views
      <4>3. Onward(v, w)
        BY <3>1, <3>2, <4>1
      <4> HIDE DEF down, c
      <4> QED BY <1>1, <1>4, <2>1, <2>2, <3>1, <3>2, <4>2, <4>3
    <3>3. CASE c # "missing"
      <4>1. PICK w : w = [v EXCEPT !.at[s] = "inspect"]
        OBVIOUS
      <4>2. w = [v EXCEPT !.at = [@ EXCEPT ![s] = "inspect"], !.read = [@ EXCEPT ![s] = v.read[s]],
                          !.seen = [@ EXCEPT ![s] = v.seen[s]]]
        BY <1>1, <4>1 DEF Views
      <4>3. Onward(v, w)
        BY <3>1, <3>3, <4>1
      <4> HIDE DEF down, c
      <4> QED BY <1>1, <1>4, <2>1, <2>2, <3>1, <3>3, <4>2, <4>3
    <3> QED BY <3>2, <3>3
  <2>5. CASE Inspected(v, s)
    <3> DEFINE x == [v EXCEPT !.seen[s] = c, !.read[s] = down]
    <3>1. UNCHANGED <<host, restarts, dash, watch>>
      BY <2>5 DEF Inspected
    <3>2. CASE c = "missing"
      <4>1. Onward(v, [v EXCEPT !.failed = TRUE])
        BY <2>5, <3>2 DEF Inspected
      <4>2. PICK w : w = [v EXCEPT !.failed = TRUE]
        OBVIOUS
      <4> QED BY <1>1, <1>2, <3>1, <4>1, <4>2, ViewTurns
    <3>3. CASE c = "exited"
      <4>1. PICK w : w = [x EXCEPT !.at[s] = "done"]
        OBVIOUS
      <4>2. Onward(v, w)
        BY <2>5, <3>3, <4>1 DEF Inspected
      <4>3. w = [v EXCEPT !.at = [@ EXCEPT ![s] = "done"], !.read = [@ EXCEPT ![s] = down],
                          !.seen = [@ EXCEPT ![s] = c]]
        BY <1>1, <4>1 DEF Views
      <4> HIDE DEF down, c
      <4> QED BY <1>1, <1>4, <2>1, <2>2, <3>1, <3>3, <4>2, <4>3
    <3>4. CASE c \notin {"missing", "exited"}
      <4>1. PICK w : w = [x EXCEPT !.at[s] = "probe"]
        OBVIOUS
      <4>2. Onward(v, w)
        BY <2>5, <3>4, <4>1 DEF Inspected
      <4>3. w = [v EXCEPT !.at = [@ EXCEPT ![s] = "probe"], !.read = [@ EXCEPT ![s] = down],
                          !.seen = [@ EXCEPT ![s] = c]]
        BY <1>1, <4>1 DEF Views
      <4>4. c \in UpConditions
        BY <2>1, <3>4 DEF Conditions
      <4>5. c = host[s].condition
        OBVIOUS
      <4> HIDE DEF down, c
      <4> QED BY <1>1, <1>4, <2>1, <3>1, <4>2, <4>3, <4>4, <4>5
    <3> QED BY <3>2, <3>3, <3>4
  <2>6. CASE Probed(v, s)
    <3>1. PICK answered \in BOOLEAN :
              /\ c = "fine" => answered
              /\ c \in {"missing", "exited", "mute"} => ~answered
              /\ Onward(v, [v EXCEPT !.at[s] = "done", !.read[s].health = Health(v.seen[s], answered)])
      BY <2>6 DEF Probed
    <3> DEFINE new == [v.read[s] EXCEPT !.health = Health(v.seen[s], answered)]
    <3>2. new \in Reading /\ new.age = v.read[s].age /\ new.health = Health(v.seen[s], answered)
      BY <2>1, ServicesRead DEF Reading
    <3>3. PICK w : w = [v EXCEPT !.at[s] = "done", !.read[s].health = Health(v.seen[s], answered)]
      OBVIOUS
    <3>4. w = [v EXCEPT !.at = [@ EXCEPT ![s] = "done"], !.read = [@ EXCEPT ![s] = new],
                        !.seen = [@ EXCEPT ![s] = v.seen[s]]]
      BY <1>1, <3>3 DEF Views
    <3>5. s \notin v.changed => new.health = HealthOf(s)
      <4>1. s \notin v.changed => v.seen[s] = c /\ c \in UpConditions
        BY <1>1, <2>6 DEF TrueView, Probed
      <4> QED BY <3>1, <3>2, <4>1 DEF HealthOf, Health, UpConditions
    <3>6. UNCHANGED <<host, restarts, dash, watch>> /\ v.at[s] = "probe"
      BY <2>6 DEF Probed
    <3>7. Onward(v, w)
      BY <3>1, <3>3
    <3> HIDE DEF new
    <3> QED BY <1>1, <1>4, <2>1, <3>2, <3>4, <3>5, <3>6, <3>7
  <2> QED BY <1>5, <2>4, <2>5, <2>6
<1> QED BY <1>3, <1>5

(* A container that moves or restarts leaves no snapshot true about it.    *)
LEMMA HostMoves ==
    ASSUME FleetInv, NEW s \in Managed, NEW c \in Conditions, NEW age \in Nat, age >= host[s].age,
           HostBecomes(s, c, age), UNCHANGED dash, watch' \in Watches, watch'.sent = watch.sent,
           watch'.changed = watch.changed \cup {s}, watch'.late = watch.late,
           restarts' \subseteq Restarts,
           \A r \in restarts' : r.age <= host'[r.service].age
              /\ \E q \in restarts : q.service = r.service /\ \A p \in restarts' : p.service = r.service => p = r
    PROVE  FleetInv'
<1>1. /\ host \in [Managed -> [condition : Conditions, age : Nat]] /\ dash \in Dashes /\ views \subseteq Views
      /\ watch \in Watches
  BY DEF FleetInv, FleetTyped
<1>2. /\ host' \in [Managed -> [condition : Conditions, age : Nat]]
      /\ \A t \in Managed : host'[t].age >= host[t].age /\ (t # s => host'[t] = host[t])
  BY <1>1 DEF HostBecomes
<1>3. \A x \in views' : \E v \in views : x = [v EXCEPT !.changed = @ \cup {s}]
  BY DEF HostBecomes
<1>4. \A v \in views : [v EXCEPT !.changed = @ \cup {s}] \in views'
  BY DEF HostBecomes
<1>5. \A v \in Views : LET x == [v EXCEPT !.changed = @ \cup {s}] IN
          /\ x \in Views /\ x.id = v.id /\ x.for = v.for /\ x.changed = v.changed \cup {s} /\ x.at = v.at
          /\ x.read = v.read /\ x.seen = v.seen
  BY DEF Views
<1>6. FleetTyped'
  BY <1>1, <1>2, <1>3, <1>5 DEF FleetTyped
<1>7. TrueInv'
  <2>1. \A t \in Managed \ {s} : HealthOf(t)' = HealthOf(t)
    BY <1>2 DEF HealthOf
  <2>2. ShownHealthIsTrue'
    BY <2>1 DEF FleetInv, TrueInv, ShownHealthIsTrue
  <2>3. ASSUME NEW x \in views' PROVE TrueView(x)'
    <3>1. PICK v \in views : x = [v EXCEPT !.changed = @ \cup {s}]
      BY <1>3
    <3>2. TrueView(v)
      BY DEF FleetInv, TrueInv
    <3>3. x.changed = v.changed \cup {s} /\ x.at = v.at /\ x.read = v.read /\ x.seen = v.seen
      BY <1>1, <1>5, <3>1
    <3>4. \A t \in Managed \ x.changed : t \in Managed \ v.changed /\ t # s
      BY <3>3
    <3> QED BY <1>2, <2>1, <3>2, <3>3, <3>4 DEF TrueView
  <2> QED BY <2>2, <2>3 DEF TrueInv
<1>8. OrderInv'
  <2>1. ASSUME NEW x \in views' PROVE x.id <= watch'.sent
    <3>1. PICK v \in views : x = [v EXCEPT !.changed = @ \cup {s}]
      BY <1>3
    <3>2. x.id = v.id
      BY <1>1, <1>5, <3>1
    <3> QED BY <3>2 DEF FleetInv, OrderInv
  <2>2. dash'.newest <= watch'.sent
    BY DEF FleetInv, OrderInv
  <2> QED BY <2>1, <2>2 DEF OrderInv
<1>9. ASSUME NEW t \in Managed PROVE PromiseInv(t)'
  <2>1. PromiseInv(t)
    BY DEF FleetInv
  <2>2. \A x \in views' : \E v \in views : /\ x = [v EXCEPT !.changed = @ \cup {s}] /\ x.id = v.id /\ x.for = v.for
                                           /\ (Brings(v, t) => Brings(x, t)')
    <3>1. ASSUME NEW x \in views' PROVE \E v \in views : /\ x = [v EXCEPT !.changed = @ \cup {s}] /\ x.id = v.id
                                           /\ x.for = v.for /\ (Brings(v, t) => Brings(x, t)')
      <4>1. PICK v \in views : x = [v EXCEPT !.changed = @ \cup {s}]
        BY <1>3
      <4>2. x.id = v.id /\ x.for = v.for /\ x.at = v.at /\ x.read = v.read
        BY <1>1, <1>5, <4>1
      <4> QED BY <4>1, <4>2 DEF Brings
    <3> QED BY <3>1
  <2>3. dash'.promised[t] <= host'[t].age
    BY <1>1, <1>2, <2>1 DEF PromiseInv, Dashes
  <2>4. \A r \in restarts' : r.service = t =>
          /\ t \in dash.busy /\ dash.promised[t] = 0 /\ r.age <= host'[t].age
          /\ \A q \in restarts' : q.service = t => q = r
          /\ \A v \in views' : v.for # t
    <3>1. ASSUME NEW r \in restarts', r.service = t
          PROVE  /\ t \in dash.busy /\ dash.promised[t] = 0 /\ r.age <= host'[t].age
                 /\ \A q \in restarts' : q.service = t => q = r
                 /\ \A v \in views' : v.for # t
      <4>1. PICK q \in restarts : q.service = t
        BY <3>1
      <4> QED BY <2>1, <2>2, <3>1, <4>1 DEF PromiseInv
    <3> QED BY <3>1
  <2>5. \A w \in views' : w.for = t => t \in dash.busy /\ \A v \in views' : v.for = t => v = w
    <3>1. ASSUME NEW w \in views', w.for = t, NEW x \in views', x.for = t PROVE x = w /\ t \in dash.busy
      <4>1. PICK v \in views : w = [v EXCEPT !.changed = @ \cup {s}] /\ w.for = v.for
        BY <2>2
      <4>2. PICK u \in views : x = [u EXCEPT !.changed = @ \cup {s}] /\ x.for = u.for
        BY <2>2
      <4>3. u = v /\ t \in dash.busy
        BY <2>1, <3>1, <4>1, <4>2 DEF PromiseInv
      <4> QED BY <4>1, <4>2, <4>3
    <3> QED BY <3>1
  <2>6. \A w \in views' : w.for = t => \A v \in views' : v.id >= w.id => Brings(v, t)'
    BY <2>1, <2>2 DEF PromiseInv
  <2>7. dash.promised[t] > 0 =>
          IF t \in dash.busy THEN \E w \in views' : w.for = t
          ELSE /\ \A v \in views' : v.id >= dash.newest => Brings(v, t)'
               /\ ~watch.late => dash.shown[t].age >= dash.promised[t]
    <3>1. (\E w \in views : w.for = t) => \E w \in views' : w.for = t
      <4>1. ASSUME NEW w \in views, w.for = t PROVE \E x \in views' : x.for = t
        <5>1. PICK x : x = [w EXCEPT !.changed = @ \cup {s}]
          OBVIOUS
        <5> QED BY <1>1, <1>4, <1>5, <4>1, <5>1
      <4> QED BY <4>1
    <3>2. (\A v \in views : v.id >= dash.newest => Brings(v, t))
              => \A v \in views' : v.id >= dash.newest => Brings(v, t)'
      BY <2>2
    <3> QED BY <2>1, <3>1, <3>2 DEF PromiseInv
  <2> QED BY <2>3, <2>4, <2>5, <2>6, <2>7 DEF PromiseInv
<1> QED BY <1>6, <1>7, <1>8, <1>9 DEF FleetInv

LEMMA ContainersTurn ==
    ASSUME FleetInv,
           \/ \E s \in Managed, c \in Conditions : ContainerMoves(s, c)
           \/ \E r \in restarts : ContainerRestarts(r)
    PROVE  FleetInv'
<1>1. /\ host \in [Managed -> [condition : Conditions, age : Nat]] /\ watch \in Watches /\ restarts \subseteq Restarts
      /\ \A s \in Managed : host[s].age \in Nat
  BY DEF FleetInv, FleetTyped
<1>2. \A r, q \in restarts : r.service \in Managed /\ r.age \in Nat /\ r.age <= host[r.service].age
                              /\ (r.service = q.service => q = r)
  BY <1>1 DEF FleetInv, PromiseInv, Restarts
<1>3. ASSUME NEW s \in Managed, NEW c \in Conditions, ContainerMoves(s, c) PROVE FleetInv'
  <2>1. HostBecomes(s, c, host[s].age) /\ UNCHANGED <<restarts, dash>>
    BY <1>3 DEF ContainerMoves
  <2>2. watch' \in Watches /\ watch'.sent = watch.sent /\ watch'.changed = watch.changed \cup {s} /\ watch'.late = watch.late
    <3>1. watch' = [watch EXCEPT !.moves = @ + 1, !.changed = @ \cup {s}]
      BY <1>3 DEF ContainerMoves
    <3>2. watch.moves + 1 \in Nat /\ watch.changed \cup {s} \in SUBSET Managed
      BY <1>1, Watching
    <3> DEFINE y == [watch EXCEPT !.moves = @ + 1]
    <3>3. /\ y \in Watches /\ y.sent = watch.sent /\ y.changed = watch.changed /\ y.late = watch.late
          /\ watch' = [y EXCEPT !.changed = watch.changed \cup {s}]
      BY <1>1, <3>1, <3>2, Watching
    <3> HIDE DEF y
    <3> QED BY <3>2, <3>3, Watching
  <2>3. \A t \in Managed : host'[t].age = host[t].age
    BY <1>1, <2>1 DEF HostBecomes
  <2> QED BY <1>1, <1>2, <2>1, <2>2, <2>3, HostMoves
<1>4. ASSUME NEW r \in restarts, ContainerRestarts(r) PROVE FleetInv'
  <2> DEFINE s == r.service
             age == host[s].age + 1
  <2>1. PICK c \in {"warming", "fine", "exited"} : HostBecomes(s, c, age)
    BY <1>4 DEF ContainerRestarts
  <2>2. PICK at \in {"ok", "error"}, n \in {0, age} : Restarting(r, at, n)
    BY <1>4 DEF ContainerRestarts
  <2>3. UNCHANGED dash /\ watch' \in Watches /\ watch'.sent = watch.sent /\ watch'.changed = watch.changed \cup {s}
        /\ watch'.late = watch.late
    <3>1. /\ UNCHANGED dash /\ s \in Managed
          /\ \/ watch' = [watch EXCEPT !.changed = @ \cup {s}]
             \/ watch' = [watch EXCEPT !.changed = @ \cup {s}, !.moves = @ + 1]
      BY <1>2, <1>4 DEF ContainerRestarts
    <3> DEFINE y == [watch EXCEPT !.changed = @ \cup {s}]
    <3>2. watch.moves + 1 \in Nat /\ watch.changed \cup {s} \in SUBSET Managed
      BY <1>1, <3>1, Watching
    <3>3. /\ y \in Watches /\ y.sent = watch.sent /\ y.changed = watch.changed \cup {s} /\ y.late = watch.late
          /\ watch' = y \/ watch' = [y EXCEPT !.moves = watch.moves + 1]
      BY <1>1, <3>1, <3>2, Watching
    <3> HIDE DEF y
    <3>4. CASE watch' = y
      BY <3>1, <3>3, <3>4
    <3>5. CASE watch' = [y EXCEPT !.moves = watch.moves + 1]
      <4>1. PICK z : z = [y EXCEPT !.moves = watch.moves + 1]
        OBVIOUS
      <4>2. z \in Watches /\ z.sent = y.sent /\ z.changed = y.changed /\ z.late = y.late
        BY <3>2, <3>3, <4>1, Watching
      <4> QED BY <3>1, <3>3, <3>5, <4>1, <4>2
    <3> QED BY <3>3, <3>4, <3>5
  <2>4. s \in Managed /\ age \in Nat /\ age >= host[s].age /\ c \in Conditions /\ n \in Nat /\ n <= age
    BY <1>1, <1>2 DEF Conditions, UpConditions
  <2>5. host'[s].age = age /\ \A t \in Managed \ {s} : host'[t].age = host[t].age
    BY <1>1, <2>1, <2>4 DEF HostBecomes
  <2>6. PICK x : x = [r EXCEPT !.at = at, !.age = n]
    OBVIOUS
  <2>7. x \in Restarts /\ x.service = s /\ x.age = n
    BY <1>1, <2>4, <2>6 DEF Restarts
  <2>8. restarts' = (restarts \ {r}) \cup {x}
    BY <2>2, <2>6 DEF Restarting
  <2>9. \A p \in restarts' : p.age <= host'[p.service].age
              /\ \E q \in restarts : q.service = p.service /\ \A o \in restarts' : o.service = p.service => o = p
    <3>1. \A p \in restarts' : p = x \/ (p \in restarts /\ p.service # s /\ p.service \in Managed /\ p.age <= host[p.service].age)
      BY <1>2, <2>8
    <3>2. \A p \in restarts' : p.age <= host'[p.service].age
      BY <2>4, <2>5, <2>7, <3>1
    <3>3. \A p, o \in restarts' : o.service = p.service => o = p
      BY <1>2, <2>7, <3>1
    <3> QED BY <2>7, <3>1, <3>2, <3>3
  <2>10. restarts' \subseteq Restarts
    BY <1>1, <2>7, <2>8
  <2> HIDE DEF s, age
  <2> QED BY <2>1, <2>3, <2>4, <2>9, <2>10, HostMoves
<1> QED BY <1>3, <1>4

(* A view is asked for: it comes after all others and has read nothing.    *)
LEMMA NewView ==
    ASSUME FleetInv, NEW for \in Managed \cup {"nobody"}, NEW w, w = View(watch.sent + 1, for)
    PROVE  /\ w \in Views /\ w.id = watch.sent + 1 /\ w.for = for /\ TrueView(w)
           /\ \A s \in Managed : w.at[s] = "list"
           /\ \A v \in views : v.id < w.id
<1>1. watch.sent \in Nat /\ \A v \in views : v.id \in Nat /\ v.id <= watch.sent
  BY DEF FleetInv, FleetTyped, OrderInv, Watches, Views
<1>2. "missing" \in Conditions
  BY DEF Conditions
<1>3. /\ w \in Views /\ w.id = watch.sent + 1 /\ w.for = for /\ \A s \in Managed : w.at[s] = "list"
  BY <1>1, <1>2, ServicesRead DEF View, Views
<1> QED BY <1>1, <1>3 DEF TrueView

LEMMA ServiceRequestsTurn ==
    ASSUME FleetInv, ViewAsked \/ (\E s \in Managed : RestartPressed(s)) \/ (\E r \in restarts : RestartListed(r) \/ RestartFails(r))
    PROVE  FleetInv'
<1>1. /\ host \in [Managed -> [condition : Conditions, age : Nat]] /\ dash \in Dashes /\ views \subseteq Views
      /\ watch \in Watches /\ restarts \subseteq Restarts /\ dash.newest \in Nat
  BY DEF FleetInv, FleetTyped, Dashes
<1>2. CASE ViewAsked
  <2>1. PICK w : w = View(watch.sent + 1, "nobody")
    OBVIOUS
  <2>2. views' = views \cup {w} /\ UNCHANGED <<host, restarts, dash>>
    BY <1>2, <2>1 DEF ViewAsked
  <2>3. watch' \in Watches /\ watch'.sent = watch.sent + 1 /\ watch'.changed = watch.changed /\ watch'.late = watch.late
    <3>1. watch' = [watch EXCEPT !.acts = @ + 1, !.sent = @ + 1]
      BY <1>2 DEF ViewAsked
    <3> DEFINE y == [watch EXCEPT !.acts = @ + 1]
    <3>2. watch.acts + 1 \in Nat /\ watch.sent + 1 \in Nat
      BY <1>1, Watching
    <3>3. /\ y \in Watches /\ y.sent = watch.sent /\ y.changed = watch.changed /\ y.late = watch.late
          /\ watch' = [y EXCEPT !.sent = watch.sent + 1]
      BY <1>1, <3>1, <3>2, Watching
    <3> HIDE DEF y
    <3> QED BY <3>2, <3>3, Watching
  <2>4. /\ w \in Views /\ w.id = watch.sent + 1 /\ w.for = "nobody" /\ TrueView(w)
        /\ \A s \in Managed : w.at[s] = "list"
    BY <2>1, NewView
  <2>5. FleetTyped'
    BY <1>1, <2>2, <2>3, <2>4 DEF FleetTyped
  <2>6. TrueInv'
    BY <2>2, <2>3, <2>4 DEF FleetInv, TrueInv, ShownHealthIsTrue, TrueView, HealthOf
  <2>7. OrderInv'
    BY <1>1, <2>2, <2>3, <2>4 DEF FleetInv, OrderInv, Watches, Views
  <2>8. ASSUME NEW s \in Managed PROVE PromiseInv(s)'
    <3>1. PromiseInv(s)
      BY DEF FleetInv
    <3>2. Brings(w, s)' /\ \A v \in views : Brings(v, s)' <=> Brings(v, s)
      BY <2>2, <2>4 DEF Brings
    <3>3. w.for # s
      BY <2>4, ServiceBounds
    <3> QED BY <2>2, <2>3, <3>1, <3>2, <3>3 DEF PromiseInv
  <2> QED BY <2>5, <2>6, <2>7, <2>8 DEF FleetInv
<1>3. ASSUME NEW s \in Managed, RestartPressed(s) PROVE FleetInv'
  <2> DEFINE x == [service |-> s, at |-> "list", age |-> 0]
             engaged == dash.busy \cup {s}
             promised == [dash.promised EXCEPT ![s] = 0]
  <2>1. /\ restarts' = restarts \cup {x} /\ UNCHANGED <<host, views>> /\ s \notin dash.busy
        /\ dash' = [dash EXCEPT !.busy = engaged, !.promised = promised]
    BY <1>3 DEF RestartPressed
  <2>2. watch' \in Watches /\ watch'.sent = watch.sent /\ watch'.changed = watch.changed /\ watch'.late = watch.late
    <3>1. watch' = [watch EXCEPT !.acts = @ + 1]
      BY <1>3 DEF RestartPressed
    <3> QED BY <1>1, <3>1 DEF Watches
  <2>3. /\ engaged \in SUBSET Managed /\ promised \in [Managed -> Nat] /\ promised[s] = 0
        /\ \A t \in Managed \ {s} : promised[t] = dash.promised[t] /\ (t \in engaged <=> t \in dash.busy)
        /\ s \in engaged
    BY <1>1 DEF Dashes
  <2> HIDE DEF engaged, promised
  <2>4. /\ dash' \in Dashes /\ dash'.busy = engaged /\ dash'.promised = promised /\ dash'.shown = dash.shown
        /\ dash'.newest = dash.newest
    BY <1>1, <2>1, <2>3 DEF Dashes
  <2>5. x \in Restarts /\ x.service = s /\ x.age = 0
    BY DEF Restarts
  <2> HIDE DEF x
  <2>6. FleetTyped'
    BY <1>1, <2>1, <2>2, <2>4, <2>5 DEF FleetTyped
  <2>7. TrueInv'
    BY <2>1, <2>2, <2>4 DEF FleetInv, TrueInv, ShownHealthIsTrue, TrueView, HealthOf
  <2>8. OrderInv'
    BY <2>1, <2>2, <2>4 DEF FleetInv, OrderInv
  <2>9. ASSUME NEW t \in Managed \ {s} PROVE PromiseInv(t)'
    <3>1. PromiseInv(t)
      BY DEF FleetInv
    <3>2. \A v \in views : Brings(v, t)' <=> Brings(v, t)
      BY <2>3, <2>4 DEF Brings
    <3> QED BY <2>1, <2>2, <2>3, <2>4, <2>5, <3>1, <3>2 DEF PromiseInv
  <2>10. PromiseInv(s)'
    <3>1. (\A r \in restarts : r.service # s) /\ \A v \in views : v.for # s
      BY <2>1 DEF FleetInv, PromiseInv
    <3>2. host[s].age \in Nat
      BY <1>1
    <3> QED BY <2>1, <2>3, <2>4, <2>5, <3>1, <3>2 DEF PromiseInv
  <2> QED BY <2>6, <2>7, <2>8, <2>9, <2>10 DEF FleetInv
<1>4. ASSUME NEW r \in restarts, RestartListed(r) \/ RestartFails(r) PROVE FleetInv'
  <2>1. PICK at \in {"error", "restart"} : Restarting(r, at, 0)
    BY <1>4 DEF RestartListed, RestartFails
  <2>2. PICK x : x = [r EXCEPT !.at = at, !.age = 0]
    OBVIOUS
  <2>3. x \in Restarts /\ x.service = r.service /\ x.age = 0
    BY <1>1, <2>2 DEF Restarts
  <2>4. restarts' = (restarts \ {r}) \cup {x} /\ UNCHANGED <<host, views, dash>>
    BY <1>4, <2>1, <2>2 DEF Restarting, RestartListed, RestartFails
  <2>5. watch' \in Watches /\ watch'.sent = watch.sent /\ watch'.changed = watch.changed /\ watch'.late = watch.late
    BY <1>1, <1>4 DEF RestartListed, RestartFails, Watches
  <2>6. FleetTyped'
    BY <1>1, <2>3, <2>4, <2>5 DEF FleetTyped
  <2>7. TrueInv' /\ OrderInv'
    BY <2>4, <2>5 DEF FleetInv, TrueInv, OrderInv, ShownHealthIsTrue, TrueView, HealthOf
  <2>8. ASSUME NEW t \in Managed PROVE PromiseInv(t)'
    <3>1. PromiseInv(t) /\ host[t].age \in Nat
      BY <1>1 DEF FleetInv
    <3>2. \A v \in views : Brings(v, t)' <=> Brings(v, t)
      BY <2>4 DEF Brings
    <3> QED BY <2>3, <2>4, <2>5, <3>1, <3>2 DEF PromiseInv
  <2> QED BY <2>6, <2>7, <2>8 DEF FleetInv
<1> QED BY <1>2, <1>3, <1>4

LEMMA RestartTold == ASSUME FleetInv, NEW r \in restarts, RestartAnswered(r) PROVE FleetInv'
<1> DEFINE s == r.service
<1>1. /\ host \in [Managed -> [condition : Conditions, age : Nat]] /\ dash \in Dashes /\ views \subseteq Views
      /\ watch \in Watches /\ restarts \subseteq Restarts /\ dash.newest \in Nat /\ s \in Managed /\ r.age \in Nat
      /\ watch.sent \in Nat
  BY DEF FleetInv, FleetTyped, Dashes, Restarts, Watches
<1>2. restarts' = restarts \ {r} /\ UNCHANGED host
  BY DEF RestartAnswered
<1>3. /\ s \in dash.busy /\ dash.promised[s] = 0 /\ r.age <= host[s].age
      /\ (\A q \in restarts : q.service = s => q = r) /\ \A v \in views : v.for # s
  BY <1>1 DEF FleetInv, PromiseInv
<1>4. CASE r.at = "ok"
  <2> DEFINE promised == [dash.promised EXCEPT ![s] = r.age]
  <2>1. PICK w : w = View(watch.sent + 1, s)
    OBVIOUS
  <2>2. /\ views' = views \cup {w} /\ watch' = [watch EXCEPT !.sent = @ + 1]
        /\ dash' = [dash EXCEPT !.promised = promised]
    BY <1>4, <2>1 DEF RestartAnswered, RestartReadsAgain
  <2>3. promised \in [Managed -> Nat] /\ promised[s] = r.age /\ \A t \in Managed \ {s} : promised[t] = dash.promised[t]
    BY <1>1 DEF Dashes
  <2> HIDE DEF promised, s
  <2>4. /\ dash' \in Dashes /\ dash'.promised = promised /\ dash'.busy = dash.busy /\ dash'.shown = dash.shown
        /\ dash'.newest = dash.newest
    BY <1>1, <2>2, <2>3 DEF Dashes
  <2>5. watch' \in Watches /\ watch'.sent = watch.sent + 1 /\ watch'.changed = watch.changed /\ watch'.late = watch.late
    BY <1>1, <2>2 DEF Watches
  <2>6. /\ w \in Views /\ w.id = watch.sent + 1 /\ w.for = s /\ TrueView(w)
        /\ (\A t \in Managed : w.at[t] = "list") /\ \A v \in views : v.id < w.id
    BY <1>1, <2>1, NewView
  <2>7. FleetTyped'
    BY <1>1, <1>2, <2>2, <2>4, <2>5, <2>6 DEF FleetTyped
  <2>8. TrueInv'
    BY <1>2, <2>2, <2>4, <2>5, <2>6 DEF FleetInv, TrueInv, ShownHealthIsTrue, TrueView, HealthOf
  <2>9. OrderInv'
    BY <1>1, <2>2, <2>4, <2>5, <2>6 DEF FleetInv, OrderInv, Views
  <2>10. \A t \in Managed : Brings(w, t)'
    BY <2>6 DEF Brings
  <2>11. ASSUME NEW t \in Managed \ {s} PROVE PromiseInv(t)'
    <3>1. PromiseInv(t)
      BY DEF FleetInv
    <3>2. \A v \in views : Brings(v, t)' <=> Brings(v, t)
      BY <2>3, <2>4 DEF Brings
    <3> QED BY <1>2, <2>2, <2>3, <2>4, <2>5, <2>6, <2>10, <3>1, <3>2 DEF PromiseInv
  <2>12. PromiseInv(s)'
    <3>1. \A v \in views' : v.for = s => v = w
      BY <1>3, <2>2 DEF s
    <3>2. \A v \in views' : v.id >= w.id => v = w
      BY <1>1, <2>2, <2>6 DEF Views
    <3>3. \A q \in restarts' : q.service # s
      BY <1>2, <1>3 DEF s
    <3>4. dash'.promised[s] <= host'[s].age /\ s \in dash'.busy
      BY <1>2, <1>3, <2>3, <2>4 DEF s
    <3>5. w \in views' /\ w.for = s /\ Brings(w, s)'
      BY <1>1, <2>2, <2>6, <2>10
    <3> QED BY <3>1, <3>2, <3>3, <3>4, <3>5 DEF PromiseInv
  <2> QED BY <2>7, <2>8, <2>9, <2>11, <2>12 DEF FleetInv
<1>5. CASE r.at # "ok"
  <2> DEFINE engaged == dash.busy \ {s}
  <2>1. dash' = [dash EXCEPT !.busy = engaged] /\ UNCHANGED <<views, watch>>
    BY <1>5 DEF RestartAnswered
  <2>2. engaged \in SUBSET Managed /\ s \notin engaged /\ \A t \in Managed \ {s} : t \in engaged <=> t \in dash.busy
    BY <1>1 DEF Dashes
  <2> HIDE DEF engaged, s
  <2>3. /\ dash' \in Dashes /\ dash'.promised = dash.promised /\ dash'.busy = engaged /\ dash'.shown = dash.shown
        /\ dash'.newest = dash.newest
    BY <1>1, <2>1, <2>2 DEF Dashes
  <2>4. FleetTyped' /\ TrueInv' /\ OrderInv'
    BY <1>1, <1>2, <2>1, <2>3 DEF FleetInv, FleetTyped, TrueInv, OrderInv, ShownHealthIsTrue, TrueView, HealthOf
  <2>5. ASSUME NEW t \in Managed \ {s} PROVE PromiseInv(t)'
    <3>1. PromiseInv(t)
      BY DEF FleetInv
    <3>2. \A v \in views : Brings(v, t)' <=> Brings(v, t)
      BY <2>3 DEF Brings
    <3> QED BY <1>2, <2>1, <2>2, <2>3, <3>1, <3>2 DEF PromiseInv
  <2>6. PromiseInv(s)'
    <3>1. PromiseInv(s) /\ dash'.promised[s] = 0 /\ (\A q \in restarts' : q.service # s) /\ \A v \in views' : v.for # s
      BY <1>1, <1>2, <1>3, <2>1, <2>3 DEF FleetInv, s
    <3>2. host'[s].age \in Nat /\ dash'.promised[s] <= host'[s].age
      BY <1>1, <1>2, <3>1
    <3> QED BY <3>1, <3>2 DEF PromiseInv
  <2> QED BY <2>4, <2>5, <2>6 DEF FleetInv
<1> QED BY <1>4, <1>5

LEMMA ViewTold == ASSUME FleetInv, NEW v \in views, ViewAnswered(v) PROVE FleetInv'
<1> DEFINE done == \A s \in Managed : v.at[s] = "done"
           shown == IF v.failed THEN dash.shown ELSE v.read
           newest == IF v.failed \/ v.id < dash.newest THEN dash.newest ELSE v.id
           engaged == dash.busy \ {v.for}
           promised == IF v.failed /\ v.for \in Managed THEN [dash.promised EXCEPT ![v.for] = 0] ELSE dash.promised
           late == v.id < dash.newest
<1>1. /\ host \in [Managed -> [condition : Conditions, age : Nat]] /\ dash \in Dashes /\ views \subseteq Views
      /\ watch \in Watches /\ restarts \subseteq Restarts /\ dash.newest \in Nat /\ v \in Views /\ v.id \in Nat
      /\ v.failed \in BOOLEAN /\ watch.sent \in Nat /\ dash.newest <= watch.sent /\ v.id <= watch.sent
  BY DEF FleetInv, FleetTyped, Dashes, Views, OrderInv, Watches
<1>2. /\ views' = views \ {v} /\ UNCHANGED <<host, restarts>> /\ (v.failed \/ done)
      /\ dash' = [dash EXCEPT !.shown = shown, !.newest = newest, !.busy = engaged, !.promised = promised]
      /\ watch' = IF v.failed THEN watch ELSE [watch EXCEPT !.changed = v.changed, !.late = late]
  BY DEF ViewAnswered
<1>3. shown \in [Managed -> Reading] /\ newest \in Nat /\ newest >= dash.newest /\ newest <= watch.sent
      /\ engaged \in SUBSET Managed /\ late \in BOOLEAN
  BY <1>1 DEF Dashes, Views
<1>4. /\ promised \in [Managed -> Nat]
      /\ \A s \in Managed : promised[s] = IF v.failed /\ v.for = s THEN 0 ELSE dash.promised[s]
  BY <1>1 DEF Dashes
<1>5. \A s \in Managed : s \in engaged <=> s \in dash.busy /\ s # v.for
  OBVIOUS
<1>6. ~v.failed => shown = v.read /\ newest >= v.id /\ (~late => newest = v.id)
  BY <1>1
<1>7. /\ v.failed => shown = dash.shown /\ newest = dash.newest
      /\ late \/ v.id >= dash.newest
  BY <1>1
<1> HIDE DEF shown, newest, engaged, promised, late
<1>8. /\ dash' \in Dashes /\ dash'.shown = shown /\ dash'.newest = newest /\ dash'.busy = engaged /\ dash'.promised = promised
  BY <1>1, <1>2, <1>3, <1>4 DEF Dashes
<1>9. /\ watch' \in Watches /\ watch'.sent = watch.sent
      /\ v.failed => UNCHANGED watch
      /\ ~v.failed => watch'.changed = v.changed /\ watch'.late = late
  BY <1>1, <1>2, <1>3 DEF Watches, Views
<1>10. FleetTyped'
  BY <1>1, <1>2, <1>8, <1>9 DEF FleetTyped
<1>11. TrueInv'
  <2>1. \A w \in views' : TrueView(w)'
    BY <1>2 DEF FleetInv, TrueInv, TrueView, HealthOf
  <2>2. ShownHealthIsTrue'
    <3>1. CASE v.failed
      BY <1>2, <1>7, <1>8, <1>9, <3>1 DEF FleetInv, TrueInv, ShownHealthIsTrue, HealthOf
    <3>2. CASE ~v.failed
      <4>1. TrueView(v)
        BY DEF FleetInv, TrueInv
      <4>2. \A s \in Managed \ v.changed : v.read[s].health = HealthOf(s)
        BY <1>2, <3>2, <4>1 DEF TrueView
      <4> QED BY <1>2, <1>6, <1>8, <1>9, <3>2, <4>2 DEF ShownHealthIsTrue, HealthOf
    <3> QED BY <3>1, <3>2
  <2> QED BY <2>1, <2>2 DEF TrueInv
<1>12. OrderInv'
  BY <1>2, <1>3, <1>8, <1>9 DEF FleetInv, OrderInv
<1>13. ASSUME NEW s \in Managed PROVE PromiseInv(s)'
  <2>1. PromiseInv(s) /\ host[s].age \in Nat /\ dash.promised[s] \in Nat
    BY <1>1 DEF FleetInv, Dashes
  <2>2. promised[s] = (IF v.failed /\ v.for = s THEN 0 ELSE dash.promised[s]) /\ (s \in engaged <=> s \in dash.busy /\ s # v.for)
    BY <1>4, <1>5
  <2>3. \A w \in views : Brings(w, s) => Brings(w, s)'
    <3>1. ASSUME NEW w \in views, Brings(w, s) PROVE Brings(w, s)'
      <4>1. w.read[s].age \in Nat
        BY <1>1 DEF Views, Reading
      <4> QED BY <1>8, <2>1, <2>2, <3>1, <4>1 DEF Brings
    <3> QED BY <3>1
  <2>4. dash'.promised[s] <= host'[s].age
    BY <1>2, <1>8, <2>1, <2>2 DEF PromiseInv
  <2>5. \A r \in restarts' : r.service = s =>
          /\ s \in dash'.busy /\ dash'.promised[s] = 0 /\ r.age <= host'[s].age
          /\ \A q \in restarts' : q.service = s => q = r
          /\ \A w \in views' : w.for # s
    BY <1>2, <1>8, <2>1, <2>2 DEF PromiseInv
  <2>6. \A w \in views' : w.for = s =>
          /\ s \in dash'.busy
          /\ \A x \in views' : x.for = s => x = w
          /\ \A x \in views' : x.id >= w.id => Brings(x, s)'
    BY <1>2, <1>8, <2>1, <2>2, <2>3 DEF PromiseInv
  <2>7. ASSUME promised[s] > 0, s \in engaged PROVE \E w \in views' : w.for = s
    BY <1>2, <2>1, <2>2, <2>7 DEF PromiseInv
  <2>8. ASSUME promised[s] > 0, s \notin engaged
        PROVE  /\ \A x \in views' : x.id >= newest => Brings(x, s)'
               /\ ~watch'.late => shown[s].age >= promised[s]
    <3>1. promised[s] = dash.promised[s]
      BY <2>2, <2>8
    <3>2. CASE v.for = s
      <4>1. ~v.failed /\ \A x \in views : x.id >= v.id => Brings(x, s)
        BY <2>1, <2>2, <2>8, <3>2 DEF PromiseInv
      <4>2. v.read[s].age >= dash.promised[s]
        BY <1>1, <1>2, <4>1 DEF Brings
      <4>3. \A x \in views' : x.id >= newest => x.id >= v.id
        BY <1>1, <1>2, <1>3, <1>6, <4>1 DEF Views
      <4> QED BY <1>2, <1>6, <2>3, <3>1, <4>1, <4>2, <4>3
    <3>3. CASE v.for # s
      <4>1. s \notin dash.busy
        BY <2>2, <2>8, <3>3
      <4>2. /\ \A x \in views : x.id >= dash.newest => Brings(x, s)
            /\ ~watch.late => dash.shown[s].age >= dash.promised[s]
        BY <2>1, <2>8, <3>1, <4>1 DEF PromiseInv
      <4>3. \A x \in views' : x.id >= newest => x.id >= dash.newest
        BY <1>1, <1>2, <1>3 DEF Views
      <4>4. \A x \in views' : x.id >= newest => Brings(x, s)'
        BY <1>2, <2>3, <4>2, <4>3
      <4>5. CASE v.failed
        <5>1. watch' = watch /\ shown = dash.shown
          BY <1>7, <1>9, <4>5
        <5> QED BY <3>1, <4>2, <4>4, <5>1
      <4>6. CASE ~v.failed
        <5>1. ~watch'.late => v.id >= dash.newest
          BY <1>7, <1>9, <4>6, Zenon
        <5>2. v.id >= dash.newest => v.read[s].age >= dash.promised[s]
          BY <1>2, <4>2, <4>6 DEF Brings
        <5> QED BY <1>6, <3>1, <4>4, <4>6, <5>1, <5>2
      <4> QED BY <4>5, <4>6
    <3> QED BY <3>2, <3>3
  <2> QED BY <1>8, <2>4, <2>5, <2>6, <2>7, <2>8 DEF PromiseInv
<1> QED BY <1>10, <1>11, <1>12, <1>13 DEF FleetInv

LEMMA FleetStep == ASSUME FleetInv, [FleetNext]_fleet PROVE FleetInv'
<1>1. CASE UNCHANGED fleet
  BY <1>1 DEF fleet, FleetInv, FleetTyped, TrueInv, TrueView, ShownHealthIsTrue, HealthOf, OrderInv, PromiseInv, Brings
<1> QED BY <1>1, SnapshotTurns, ContainersTurn, ServiceRequestsTurn, RestartTold, ViewTold DEF FleetNext

(* A restart is shown once it is over. *)
LEMMA RestartsAreShown == ASSUME FleetInv PROVE RestartIsShown /\ ShownHealthIsTrue
BY DEF FleetInv, TrueInv, PromiseInv, RestartIsShown

-----------------------------------------------------------------------------
(* The terminal tab *)

ShellChunks == Projects \X Nat \X Symbols
Shells == [spawned : Nat, at : {"none", "starting", "ready"}, output : Seq(ShellChunks), callers : Nat]
Wires == [at : {"off", "asking", "open", "waiting"}, frames : Seq(ShellChunks)]
Terminals == [project : Scopes, shown : Seq(ShellChunks), tail : Seq(ShellChunks), hydrated : BOOLEAN, asked : BOOLEAN,
              answer : {"none", "asked", "read", "failed"}, snapshot : Seq(ShellChunks)]
Usages == [selects : Nat, breaks : Nat, lost : BOOLEAN]

Has(s, c) == \E i \in DOMAIN s : s[i] = c

(* ShellChunks of one project. *)
OfOne(s, p) == \A i \in DOMAIN s : s[i][1] = p

(* A shell has been spawned once, and prints what is its own. *)
ShellWhole(p, s) ==
    /\ s.spawned = IF s.at = "none" THEN 0 ELSE 1
    /\ OfOne(s.output, p)

(* What the tab has, or is about to have, of chunk c. *)
Reached(w, t, c) ==
    \/ Has(w.frames, c)
    \/ IF t.hydrated THEN Has(t.shown, c) ELSE Has(t.snapshot, c) \/ Has(t.tail, c)

TabWhole(w, t) ==
    /\ OfOne(w.frames, t.project) /\ OfOne(t.shown, t.project) /\ OfOne(t.tail, t.project)
    /\ OfOne(t.snapshot, t.project)
    /\ t.hydrated => t.answer \in {"read", "failed"}
    /\ t.answer # "none" => t.project \in Projects

TerminalInv ==
    /\ shell \in [Projects -> Shells] /\ \A p \in Projects : ShellWhole(p, shell[p])
    /\ wire \in Wires /\ (wire.at # "open" => wire.frames = <<>>)
    /\ tab \in Terminals /\ TabWhole(wire, tab) /\ (wire.at # "off" => tab.project \in Projects)
    /\ usage \in Usages
    /\ tab.hydrated /\ tab.answer = "failed" => usage.lost
    /\ tab.answer = "read" /\ ~usage.lost
          => \A c : Has(shell[tab.project].output, c) => Reached(wire, tab, c)

LEMMA TerminalHere ==
    ASSUME TerminalInv
    PROVE  /\ shell \in [Projects -> Shells] /\ wire \in Wires /\ wire.frames \in Seq(ShellChunks)
           /\ tab \in Terminals /\ tab.shown \in Seq(ShellChunks) /\ tab.tail \in Seq(ShellChunks)
           /\ tab.snapshot \in Seq(ShellChunks) /\ tab.hydrated \in BOOLEAN /\ tab.asked \in BOOLEAN
           /\ tab.project \in Scopes
           /\ usage \in Usages /\ usage.lost \in BOOLEAN /\ usage.selects \in Nat /\ usage.breaks \in Nat
           /\ \A p \in Projects : shell[p] \in Shells /\ shell[p].output \in Seq(ShellChunks)
BY DEF TerminalInv, Shells, Wires, Terminals, Usages

LEMMA NothingYet ==
    /\ <<>> \in Seq(ShellChunks) /\ \A p : OfOne(<<>>, p)
    /\ \A c : ~Has(<<>>, c)
    /\ NoWire \in Wires /\ NoWire.at = "off" /\ NoWire.frames = <<>>
    /\ NoTab \in Terminals /\ NoTab.project = NoProject /\ NoTab.shown = <<>> /\ NoTab.tail = <<>>
    /\ NoTab.snapshot = <<>> /\ NoTab.hydrated = FALSE /\ NoTab.answer = "none"
    /\ NoShell \in Shells /\ NoShell.spawned = 0 /\ NoShell.at = "none" /\ NoShell.output = <<>>
<1>1. <<>> \in Seq(ShellChunks) /\ DOMAIN <<>> = {}
  BY EmptySeq
<1>2. NoProject \in Scopes
  BY DEF Scopes
<1>3. \A p : OfOne(<<>>, p)
  BY <1>1 DEF OfOne
<1>4. \A c : ~Has(<<>>, c)
  BY <1>1 DEF Has
<1> QED BY <1>1, <1>2, <1>3, <1>4 DEF NoWire, Wires, NoTab, Terminals, NoShell, Shells

LEMMA TerminalStarts == ASSUME TerminalInit PROVE TerminalInv
<1>1. shell \in [Projects -> Shells] /\ \A p \in Projects : ShellWhole(p, shell[p])
  BY NothingYet DEF TerminalInit, ShellWhole
<1>2. usage \in Usages
  BY DEF TerminalInit, Usages
<1>3. tab = NoTab /\ wire = NoWire
  BY DEF TerminalInit
<1>4. TabWhole(NoWire, NoTab)
  BY NothingYet DEF TabWhole
<1> QED BY <1>1, <1>2, <1>3, <1>4, NothingYet DEF TerminalInv

-----------------------------------------------------------------------------
(* Transcripts *)

LEMMA ChunkAppended ==
    ASSUME NEW s \in Seq(ShellChunks), NEW c \in ShellChunks
    PROVE  /\ Append(s, c) \in Seq(ShellChunks) /\ Has(Append(s, c), c)
           /\ \A d : Has(s, d) => Has(Append(s, c), d)
           /\ \A d : Has(Append(s, c), d) => d = c \/ Has(s, d)
           /\ \A p : OfOne(s, p) /\ c[1] = p => OfOne(Append(s, c), p)
<1>1. PICK t : t = Append(s, c)
  OBVIOUS
<1>2. /\ t \in Seq(ShellChunks) /\ Len(t) = Len(s) + 1 /\ t[Len(s) + 1] = c
      /\ \A i \in 1 .. Len(s) : t[i] = s[i]
  BY <1>1, AppendProperties
<1>3. Len(s) \in Nat /\ DOMAIN s = 1 .. Len(s) /\ DOMAIN t = 1 .. Len(t)
  BY <1>2, LenProperties
<1>4. Len(s) + 1 \in DOMAIN t /\ \A i \in DOMAIN s : i \in DOMAIN t /\ t[i] = s[i]
  BY <1>2, <1>3
<1>5. ASSUME NEW i \in DOMAIN t PROVE t[i] = c \/ (i \in DOMAIN s /\ t[i] = s[i])
  BY <1>2, <1>3
<1>6. \A d : Has(t, d) => d = c \/ Has(s, d)
  BY <1>5 DEF Has
<1>7. \A p : OfOne(s, p) /\ c[1] = p => OfOne(t, p)
  BY <1>5 DEF OfOne
<1>8. Has(t, c) /\ \A d : Has(s, d) => Has(t, d)
  BY <1>2, <1>4 DEF Has
<1> QED BY <1>1, <1>2, <1>6, <1>7, <1>8

LEMMA ChunkTaken ==
    ASSUME NEW s \in Seq(ShellChunks), s # <<>>
    PROVE  /\ Head(s) \in ShellChunks /\ Tail(s) \in Seq(ShellChunks)
           /\ \A d : Has(s, d) => d = Head(s) \/ Has(Tail(s), d)
           /\ \A p : OfOne(s, p) => Head(s)[1] = p /\ OfOne(Tail(s), p)
<1>1. PICK t : t = Tail(s)
  OBVIOUS
<1>2. /\ Head(s) \in ShellChunks /\ t \in Seq(ShellChunks) /\ Len(t) = Len(s) - 1
      /\ \A i \in 1 .. Len(t) : t[i] = s[i + 1]
  BY <1>1, HeadTailProperties
<1>3. Len(s) \in Nat /\ DOMAIN s = 1 .. Len(s)
  BY LenProperties
<1>4. DOMAIN t = 1 .. Len(t) /\ Len(s) # 0
  BY <1>2, LenProperties, EmptySeq
<1>5. Head(s) = s[1] /\ 1 \in DOMAIN s
  <2>1. Head(s) = s[1]
    BY <1>3, HeadTailProperties, EmptySeq
  <2>2. 1 \in DOMAIN s
    BY <1>3, <1>4
  <2> QED BY <2>1, <2>2
<1>6. ASSUME NEW i \in DOMAIN t PROVE i + 1 \in DOMAIN s /\ t[i] = s[i + 1]
  BY <1>2, <1>3, <1>4
<1>7. ASSUME NEW i \in DOMAIN s, i # 1 PROVE i - 1 \in DOMAIN t /\ t[i - 1] = s[i]
  <2>1. i - 1 \in 1 .. Len(t) /\ (i - 1) + 1 = i
    BY <1>2, <1>3, <1>7
  <2> QED BY <1>2, <1>4, <2>1
<1>8. \A d : Has(s, d) => d = Head(s) \/ Has(t, d)
  BY <1>5, <1>7 DEF Has
<1>9. \A p : OfOne(s, p) => Head(s)[1] = p /\ OfOne(t, p)
  BY <1>5, <1>6 DEF OfOne
<1> QED BY <1>1, <1>2, <1>8, <1>9

(* A set of numbers up to N that is not empty has a greatest one. *)
LEMMA GreatestIn ==
    ASSUME NEW N \in Nat, NEW S, S \subseteq 0 .. N, S # {}
    PROVE  \E x \in S : \A y \in S : y <= x
<1> DEFINE T == {n \in Nat : \A y \in S : y <= n}
<1>1. N \in T /\ T \subseteq Nat
  OBVIOUS
<1>2. \E x \in T : \A y \in T : ~(<<y, x>> \in OpToRel(<, Nat))
  BY <1>1, WFMin, NatLessThanWellFounded
<1>3. PICK x \in T : \A y \in T : ~(<<y, x>> \in OpToRel(<, Nat))
  BY <1>2
<1>4. x \in Nat /\ (\A y \in S : y <= x)
  OBVIOUS
<1>5. \A y \in T : ~(y < x)
  <2> SUFFICES ASSUME NEW y \in T PROVE ~(y < x)
    OBVIOUS
  <2>1. y \in Nat /\ x \in Nat /\ ~(<<y, x>> \in OpToRel(<, Nat))
    BY <1>3
  <2> HIDE DEF T
  <2> QED BY <2>1 DEF OpToRel
<1>6. x \in S
  <2> SUFFICES ASSUME x \notin S PROVE FALSE
    OBVIOUS
  <2>1. \A y \in S : y \in Nat /\ y < x
    BY <1>4
  <2>2. x # 0 /\ x - 1 \in Nat
    <3>1. PICK y \in S : TRUE
      OBVIOUS
    <3>2. y \in Nat /\ y < x /\ x \in Nat
      BY <1>4, <2>1
    <3> QED BY <3>2
  <2>3. \A y \in S : y <= x - 1
    BY <1>4, <2>1, <2>2
  <2>4. x - 1 \in T /\ x - 1 < x
    BY <2>2, <2>3, <1>4
  <2> QED BY <1>5, <2>4
<1> QED BY <1>4, <1>6

(* mergeTerminalTranscript makes nothing up, and loses nothing unless it    *)
(* takes other output for the end of the snapshot.                         *)
LEMMA MergedHas ==
    ASSUME NEW a \in Seq(ShellChunks), NEW b \in Seq(ShellChunks)
    PROVE  /\ Merged(a, b) \in Seq(ShellChunks)
           /\ ~Mistaken(a, b) => \A c : Has(a, c) \/ Has(b, c) => Has(Merged(a, b), c)
           /\ \A p : OfOne(a, p) /\ OfOne(b, p) => OfOne(Merged(a, b), p)
<1>1. /\ Len(a) \in Nat /\ Len(b) \in Nat
      /\ \A i \in 1 .. Len(a) : a[i] \in ShellChunks
      /\ \A i \in 1 .. Len(b) : b[i] \in ShellChunks
  BY LenProperties, ElementOfSeq
<1>2. DOMAIN a = 1 .. Len(a) /\ DOMAIN b = 1 .. Len(b)
  BY LenProperties
<1> DEFINE Fits(k) == \A i \in 1 .. k : a[Len(a) - k + i][3] = b[i][3]
           overlaps == {k \in 0 .. Len(b) : k <= Len(a) /\ Fits(k)}
<1>3. PICK longest : longest = Overlap(a, b)
  OBVIOUS
<1>4. Merged(a, b) = a \o SubSeq(b, longest + 1, Len(b))
  BY <1>3 DEF Merged
<1>5. 0 \in overlaps
  BY <1>1
<1>6. longest \in overlaps
  <2>1. overlaps \subseteq 0 .. Len(b)
    OBVIOUS
  <2>2. longest = CHOOSE k \in overlaps : \A l \in overlaps : l <= k
    BY <1>3 DEF Overlap
  <2> HIDE DEF overlaps
  <2>3. \E x \in overlaps : \A y \in overlaps : y <= x
    BY <1>1, <1>5, <2>1, GreatestIn
  <2> QED BY <2>2, <2>3
<1>7. longest \in 0 .. Len(b) /\ longest <= Len(a) /\ longest \in Nat
  <2> HIDE DEF Fits
  <2> QED BY <1>1, <1>6
<1>8. ASSUME ~Mistaken(a, b), NEW i \in 1 .. longest PROVE Has(a, b[i])
  <2>1. a[Len(a) - longest + i] = b[i]
    BY <1>3, <1>8 DEF Mistaken
  <2>2. Len(a) - longest + i \in 1 .. Len(a)
    BY <1>1, <1>7
  <2> QED BY <1>2, <2>1, <2>2 DEF Has
<1> HIDE DEF Fits, overlaps
<1>9. PICK r : r = SubSeq(b, longest + 1, Len(b))
  OBVIOUS
<1>10. /\ r \in Seq(ShellChunks) /\ Len(r) = Len(b) - longest
       /\ \A j \in 1 .. Len(b) - longest : r[j] = b[longest + j]
  <2>1. PICK m \in Nat : m = longest + 1
    BY <1>7
  <2>2. \A j \in m .. Len(b) : b[j] \in ShellChunks
    BY <1>1, <1>7, <2>1
  <2>3. /\ r \in Seq(ShellChunks) /\ Len(r) = IF m <= Len(b) THEN Len(b) - m + 1 ELSE 0
        /\ \A j \in 1 .. Len(b) - m + 1 : r[j] = b[m + j - 1]
    BY <1>1, <1>9, <2>1, <2>2, SubSeqProperties
  <2>4. Len(b) - m + 1 = Len(b) - longest /\ (~(m <= Len(b)) => Len(b) - longest = 0)
    BY <1>1, <1>7, <2>1
  <2>5. \A j \in 1 .. Len(b) - longest : m + j - 1 = longest + j
    BY <1>7, <2>1
  <2> QED BY <2>3, <2>4, <2>5
<1>11. DOMAIN r = 1 .. Len(b) - longest
  BY <1>10, LenProperties
<1>12. PICK z : z = a \o r
  OBVIOUS
<1>13. /\ z \in Seq(ShellChunks) /\ Len(z) = Len(a) + Len(r)
       /\ \A i \in 1 .. Len(a) + Len(r) : z[i] = IF i <= Len(a) THEN a[i] ELSE r[i - Len(a)]
  BY <1>10, <1>12, ConcatProperties
<1>14. DOMAIN z = 1 .. Len(a) + (Len(b) - longest)
  BY <1>10, <1>13, LenProperties
<1>15. ASSUME NEW i \in DOMAIN a PROVE Has(z, a[i])
  <2>1. i \in DOMAIN z /\ z[i] = a[i]
    BY <1>1, <1>2, <1>7, <1>10, <1>13, <1>14
  <2> QED BY <2>1 DEF Has
<1>16. ASSUME NEW j \in DOMAIN r PROVE Has(z, r[j])
  <2>1. Len(a) + j \in DOMAIN z /\ ~(Len(a) + j <= Len(a)) /\ Len(a) + j - Len(a) = j
    BY <1>1, <1>7, <1>11, <1>14
  <2>2. z[Len(a) + j] = r[j]
    BY <1>10, <1>13, <1>14, <2>1
  <2> QED BY <2>1, <2>2 DEF Has
<1>17. ASSUME ~Mistaken(a, b), NEW i \in DOMAIN b PROVE Has(z, b[i])
  <2>1. CASE i <= longest
    <3>1. i \in 1 .. longest
      BY <1>2, <2>1, <1>7
    <3>2. PICK k \in DOMAIN a : a[k] = b[i]
      BY <1>8, <1>17, <3>1 DEF Has
    <3> QED BY <1>15, <3>2
  <2>2. CASE ~(i <= longest)
    <3>1. i - longest \in 1 .. Len(b) - longest /\ longest + (i - longest) = i
      BY <1>1, <1>2, <1>7, <2>2
    <3>2. r[i - longest] = b[i]
      BY <1>10, <3>1
    <3> QED BY <1>11, <1>16, <3>1, <3>2
  <2> QED BY <2>1, <2>2
<1>18. ASSUME NEW p, OfOne(a, p), OfOne(b, p) PROVE OfOne(z, p)
  <2>1. ASSUME NEW i \in DOMAIN z PROVE z[i][1] = p
    <3>1. CASE i <= Len(a)
      <4>1. i \in DOMAIN a /\ z[i] = a[i]
        BY <1>1, <1>2, <1>10, <1>13, <1>14, <3>1
      <4> QED BY <1>18, <4>1 DEF OfOne
    <3>2. CASE ~(i <= Len(a))
      <4>1. /\ i - Len(a) \in 1 .. Len(b) - longest /\ longest + (i - Len(a)) \in DOMAIN b
        BY <1>1, <1>2, <1>7, <1>14, <3>2
      <4>2. z[i] = r[i - Len(a)]
        BY <1>10, <1>13, <1>14, <3>2
      <4>3. r[i - Len(a)] = b[longest + (i - Len(a))]
        BY <1>10, <4>1
      <4> QED BY <1>18, <4>1, <4>2, <4>3 DEF OfOne
    <3> QED BY <3>1, <3>2
  <2> QED BY <2>1 DEF OfOne
<1>19. ~Mistaken(a, b) => \A c : Has(a, c) \/ Has(b, c) => Has(z, c)
  BY <1>15, <1>17 DEF Has
<1> QED BY <1>4, <1>9, <1>12, <1>13, <1>18, <1>19

-----------------------------------------------------------------------------
(* The shells *)

(* A shell other than the tab's, or with the same transcript. *)
LEMMA ShellTurns ==
    ASSUME TerminalInv, NEW p \in Projects, NEW s \in Shells, ShellWhole(p, s),
           p = tab.project /\ tab.answer = "read" => s.output = shell[p].output,
           shell' = [shell EXCEPT ![p] = s], UNCHANGED <<wire, tab, usage>>
    PROVE  TerminalInv'
<1>1. shell' \in [Projects -> Shells] /\ \A q \in Projects : ShellWhole(q, shell'[q])
  <2>1. shell' \in [Projects -> Shells] /\ \A q \in Projects : shell'[q] = IF q = p THEN s ELSE shell[q]
    BY TerminalHere
  <2> QED BY <2>1 DEF TerminalInv
<1>2. tab.answer = "read" => shell'[tab.project].output = shell[tab.project].output
  <2>1. ASSUME tab.answer = "read" PROVE tab.project \in Projects
    BY <2>1 DEF TerminalInv, TabWhole
  <2> QED BY <2>1, TerminalHere
<1> QED BY <1>1, <1>2 DEF TerminalInv

LEMMA ShellsTurn ==
    ASSUME TerminalInv, NEW p \in Projects, Ensure(p) \/ ShellReady(p)
    PROVE  TerminalInv'
<1>1. PICK s : s = shell[p]
  OBVIOUS
<1>2. s \in Shells /\ ShellWhole(p, s)
  BY <1>1 DEF TerminalInv
<1>3. CASE ShellReady(p)
  <2>1. PICK n : n = [s EXCEPT !.at = "ready"]
    OBVIOUS
  <2>2. shell' = [shell EXCEPT ![p] = n] /\ s.at = "starting" /\ UNCHANGED <<wire, tab, usage>>
    BY <1>1, <1>3, <2>1 DEF ShellReady
  <2>3. n \in Shells /\ n.output = s.output /\ n.at = "ready" /\ n.spawned = s.spawned
    BY <1>2, <2>1 DEF Shells
  <2>4. ShellWhole(p, n)
    BY <1>2, <2>2, <2>3 DEF ShellWhole
  <2> QED BY <1>1, <2>2, <2>3, <2>4, ShellTurns
<1>4. CASE Ensure(p)
  <2>1. PICK c \in Nat : c = s.callers + 1
    BY <1>2 DEF Shells
  <2>2. PICK a : a = IF s.at = "none" THEN "starting" ELSE s.at
    OBVIOUS
  <2>3. PICK k : k = IF s.at = "none" THEN s.spawned + 1 ELSE s.spawned
    OBVIOUS
  <2>4. PICK n : n = [s EXCEPT !.callers = c, !.at = a, !.spawned = k]
    OBVIOUS
  <2>5. a \in {"starting", "ready"} /\ k = 1
    BY <1>2, <2>2, <2>3 DEF Shells, ShellWhole
  <2>6. shell' = [shell EXCEPT ![p] = n] /\ UNCHANGED <<wire, tab, usage>>
    BY <1>1, <1>4, <2>1, <2>2, <2>3, <2>4 DEF Ensure, Missing
  <2>7. n \in Shells /\ n.output = s.output /\ n.at = a /\ n.spawned = k
    BY <1>2, <2>4, <2>5 DEF Shells
  <2>8. ShellWhole(p, n)
    BY <1>2, <2>5, <2>7 DEF ShellWhole
  <2> QED BY <1>1, <2>6, <2>7, <2>8, ShellTurns
<1> QED BY <1>3, <1>4

LEMMA FailingTurns ==
    ASSUME TerminalInv, NEW p \in Projects, ShellFails(p)
    PROVE  TerminalInv'
<1>1. /\ shell[p].output = <<>> /\ shell' = [shell EXCEPT ![p] = NoShell] /\ UNCHANGED <<wire, usage>>
      /\ tab' = IF tab.project = p /\ tab.answer = "asked" THEN [tab EXCEPT !.answer = "failed"] ELSE tab
  BY DEF ShellFails
<1>2. /\ shell' \in [Projects -> Shells] /\ \A q \in Projects : shell'[q].output = shell[q].output
      /\ \A q \in Projects : ShellWhole(q, shell'[q])
  <2>1. shell' \in [Projects -> Shells] /\ \A q \in Projects : shell'[q] = IF q = p THEN NoShell ELSE shell[q]
    BY <1>1, TerminalHere, NothingYet
  <2>2. ShellWhole(p, NoShell)
    BY NothingYet DEF ShellWhole
  <2> QED BY <1>1, <2>1, <2>2, NothingYet DEF TerminalInv
<1>3. CASE tab.project = p /\ tab.answer = "asked"
  <2>1. /\ tab' \in Terminals /\ tab'.answer = "failed" /\ tab'.project = tab.project /\ tab'.shown = tab.shown
        /\ tab'.tail = tab.tail /\ tab'.snapshot = tab.snapshot /\ tab'.hydrated = tab.hydrated
    BY <1>1, <1>3, TerminalHere DEF Terminals
  <2>2. ~tab.hydrated
    BY <1>3 DEF TerminalInv, TabWhole
  <2>3. TabWhole(wire, tab')
    BY <1>3, <2>1, <2>2 DEF TerminalInv, TabWhole
  <2> QED BY <1>1, <1>2, <2>1, <2>2, <2>3 DEF TerminalInv
<1>4. CASE ~(tab.project = p /\ tab.answer = "asked")
  <2>1. tab' = tab
    BY <1>1, <1>4
  <2>2. tab.answer = "read" => tab.project \in Projects
    BY DEF TerminalInv, TabWhole
  <2> QED BY <1>1, <1>2, <2>1, <2>2 DEF TerminalInv
<1> QED BY <1>3, <1>4

LEMMA PrintingTurns ==
    ASSUME TerminalInv, NEW p \in Projects, NEW text \in Symbols, Prints(p, text)
    PROVE  TerminalInv'
<1>1. PICK s : s = shell[p]
  OBVIOUS
<1>2. s \in Shells /\ ShellWhole(p, s) /\ s.output \in Seq(ShellChunks)
  BY <1>1, TerminalHere DEF TerminalInv
<1>3. PICK c \in ShellChunks : c = <<p, Len(s.output) + 1, text>>
  <2>1. Len(s.output) \in Nat
    BY <1>2, LenProperties
  <2>2. Len(s.output) + 1 \in Nat
    BY <2>1
  <2> QED BY <2>2 DEF ShellChunks
<1>4. c[1] = p
  BY <1>3
<1>5. PICK hears \in BOOLEAN : hears = (wire.at = "open" /\ Matches("terminal", tab.project,
                                            [topic |-> "terminal", project |-> p], FALSE))
  OBVIOUS
<1>6. PICK o : o = Append(s.output, c)
  OBVIOUS
<1>7. PICK n : n = [s EXCEPT !.output = o, !.at = "ready"]
  OBVIOUS
<1>8. PICK m \in BOOLEAN : m = (usage.lost \/ (p = tab.project /\ ~hears /\ tab.answer = "read"))
  OBVIOUS
<1>9. /\ s.at \in {"starting", "ready"} /\ shell' = [shell EXCEPT ![p] = n]
      /\ wire' = IF hears THEN [wire EXCEPT !.frames = Append(@, c)] ELSE wire
      /\ usage' = [usage EXCEPT !.lost = m] /\ tab' = tab
  BY <1>1, <1>3, <1>5, <1>6, <1>7, <1>8 DEF Prints
<1>10. hears => wire.at = "open" /\ p = tab.project
  <2>1. ASSUME hears PROVE wire.at = "open" /\ Matches("terminal", tab.project, [topic |-> "terminal", project |-> p], FALSE)
    BY <1>5, <2>1, Zenon
  <2> QED BY <2>1, HubBounds DEF Matches
<1>11. /\ o \in Seq(ShellChunks) /\ (\A d : Has(o, d) => d = c \/ Has(s.output, d)) /\ OfOne(o, p)
  <2>1. OfOne(s.output, p)
    BY <1>2 DEF ShellWhole
  <2> QED BY <1>2, <1>4, <1>6, <2>1, ChunkAppended
<1>12. n \in Shells /\ n.output = o /\ n.at = "ready" /\ n.spawned = s.spawned
  BY <1>2, <1>7, <1>11 DEF Shells
<1>13. ShellWhole(p, n)
  BY <1>2, <1>9, <1>11, <1>12 DEF ShellWhole
<1>14. /\ shell' \in [Projects -> Shells] /\ \A q \in Projects : shell'[q] = IF q = p THEN n ELSE shell[q]
  BY <1>9, <1>12, TerminalHere
<1>15. \A q \in Projects : ShellWhole(q, shell'[q])
  BY <1>13, <1>14 DEF TerminalInv
<1>16. usage' \in Usages /\ usage'.lost = m
  BY <1>8, <1>9, TerminalHere DEF Usages
<1>17. /\ wire' \in Wires /\ wire'.at = wire.at /\ (wire'.at # "open" => wire'.frames = <<>>)
       /\ OfOne(wire'.frames, tab.project)
       /\ \A d : Has(wire.frames, d) => Has(wire'.frames, d)
       /\ hears => Has(wire'.frames, c)
  <2>0. OfOne(wire.frames, tab.project)
    BY DEF TerminalInv, TabWhole
  <2>1. CASE hears
    <3>1. PICK f : f = Append(wire.frames, c)
      OBVIOUS
    <3>2. wire' = [wire EXCEPT !.frames = f]
      BY <1>9, <2>1, <3>1
    <3>3. /\ f \in Seq(ShellChunks) /\ Has(f, c) /\ (\A d : Has(wire.frames, d) => Has(f, d)) /\ OfOne(f, tab.project)
      BY <1>4, <1>10, <2>0, <2>1, <3>1, TerminalHere, ChunkAppended
    <3>4. wire' \in Wires /\ wire'.at = wire.at /\ wire'.frames = f
      BY <3>2, <3>3, TerminalHere DEF Wires
    <3> QED BY <1>10, <2>1, <3>3, <3>4
  <2>2. CASE ~hears
    <3>1. wire' = wire
      BY <1>9, <2>2
    <3> QED BY <2>0, <2>2, <3>1 DEF TerminalInv
  <2> QED BY <2>1, <2>2
<1>18. TabWhole(wire', tab)
  BY <1>17 DEF TerminalInv, TabWhole
<1>19. ASSUME tab.answer = "read", ~m, NEW d, Has(shell'[tab.project].output, d)
       PROVE  Reached(wire', tab, d)
  <2>1. tab.project \in Projects
    BY <1>19 DEF TerminalInv, TabWhole
  <2>2. ~usage.lost /\ ~(p = tab.project /\ ~hears)
    BY <1>8, <1>19
  <2>3. ASSUME Has(shell[tab.project].output, d) PROVE Reached(wire', tab, d)
    <3>1. Reached(wire, tab, d)
      BY <1>19, <2>2, <2>3 DEF TerminalInv
    <3> QED BY <1>17, <3>1 DEF Reached
  <2>4. CASE tab.project = p
    <3>1. d = c \/ Has(shell[tab.project].output, d)
      BY <1>1, <1>11, <1>12, <1>14, <1>19, <2>1, <2>4
    <3>2. Has(wire'.frames, c)
      BY <1>17, <2>2, <2>4
    <3> QED BY <2>3, <3>1, <3>2 DEF Reached
  <2>5. CASE tab.project # p
    BY <1>14, <1>19, <2>1, <2>3, <2>5
  <2> QED BY <2>4, <2>5
<1>20. tab.hydrated /\ tab.answer = "failed" => m
  BY <1>8 DEF TerminalInv
<1> QED BY <1>9, <1>14, <1>15, <1>16, <1>17, <1>18, <1>19, <1>20 DEF TerminalInv

-----------------------------------------------------------------------------
(* The tab and its connection *)

LEMMA SelectionTurns ==
    ASSUME TerminalInv, (\E p \in Projects : Selects(p)) \/ SelectsAgain
    PROVE  TerminalInv'
<1>0. usage.selects + 1 \in Nat
  BY TerminalHere
<1>1. ASSUME NEW p \in Projects, Selects(p) PROVE TerminalInv'
  <2>1. /\ tab' = [NoTab EXCEPT !.project = p] /\ wire' = [NoWire EXCEPT !.at = "asking"] /\ shell' = shell
        /\ usage' = [usage EXCEPT !.selects = @ + 1, !.lost = FALSE]
    BY <1>1 DEF Selects
  <2>2. /\ tab' \in Terminals /\ tab'.project = p /\ tab'.shown = <<>> /\ tab'.tail = <<>> /\ tab'.snapshot = <<>>
        /\ tab'.hydrated = FALSE /\ tab'.answer = "none"
    BY <2>1, NothingYet DEF Terminals, Scopes
  <2>3. wire' \in Wires /\ wire'.frames = <<>>
    BY <2>1, NothingYet DEF Wires
  <2>4. usage' \in Usages
    BY <1>0, <2>1, TerminalHere DEF Usages
  <2>5. TabWhole(wire', tab')
    BY <2>2, <2>3, NothingYet DEF TabWhole
  <2> QED BY <2>1, <2>2, <2>3, <2>4, <2>5 DEF TerminalInv
<1>2. CASE SelectsAgain
  <2>1. /\ tab' = [tab EXCEPT !.shown = <<>>] /\ UNCHANGED <<shell, wire>>
        /\ usage' = [usage EXCEPT !.selects = @ + 1, !.lost = TRUE]
    BY <1>2 DEF SelectsAgain
  <2>2. /\ tab' \in Terminals /\ tab'.project = tab.project /\ tab'.shown = <<>> /\ tab'.tail = tab.tail
        /\ tab'.snapshot = tab.snapshot /\ tab'.hydrated = tab.hydrated /\ tab'.answer = tab.answer
    BY <2>1, NothingYet, TerminalHere DEF Terminals
  <2>3. usage' \in Usages /\ usage'.lost = TRUE
    BY <1>0, <2>1, TerminalHere DEF Usages
  <2>4. TabWhole(wire, tab')
    BY <2>2, NothingYet DEF TerminalInv, TabWhole
  <2> QED BY <2>1, <2>2, <2>3, <2>4 DEF TerminalInv
<1> QED BY <1>1, <1>2

LEMMA BreaksTurn ==
    ASSUME TerminalInv, NEW lost \in BOOLEAN, Break(lost)
    PROVE  usage' \in Usages /\ usage'.lost = (usage.lost \/ lost)
<1>1. PICK m \in BOOLEAN : m = (usage.lost \/ lost)
  OBVIOUS
<1>2. usage' = [usage EXCEPT !.breaks = @ + 1, !.lost = m] /\ usage.breaks + 1 \in Nat
  BY <1>1, TerminalHere DEF Break
<1> QED BY <1>1, <1>2, TerminalHere DEF Usages

LEMMA WireTurns ==
    ASSUME TerminalInv, Opened \/ Closed \/ Retries
    PROVE  TerminalInv'
<1>1. tab.project \in Projects /\ shell' = shell
  BY DEF TerminalInv, Opened, Closed, Retries
<1>2. CASE Opened
  <2>1. /\ wire.at = "asking" /\ wire' = [wire EXCEPT !.at = "open"] /\ usage' = usage
        /\ tab' = IF tab.hydrated \/ tab.asked THEN tab ELSE [tab EXCEPT !.asked = TRUE, !.answer = "asked"]
    BY <1>2 DEF Opened
  <2>2. wire' \in Wires /\ wire'.frames = wire.frames
    BY <2>1, TerminalHere DEF Wires
  <2>3. CASE tab' = tab
    <3>1. TabWhole(wire', tab)
      BY <2>2 DEF TerminalInv, TabWhole
    <3>2. \A c : Reached(wire, tab, c) => Reached(wire', tab, c)
      BY <2>2 DEF Reached
    <3>3. wire'.at = "open"
      BY <2>1, TerminalHere DEF Wires
    <3> QED BY <1>1, <2>1, <2>2, <2>3, <3>1, <3>2, <3>3 DEF TerminalInv
  <2>4. CASE ~tab.hydrated /\ tab' = [tab EXCEPT !.asked = TRUE, !.answer = "asked"]
    <3>1. /\ tab' \in Terminals /\ tab'.answer = "asked" /\ tab'.project = tab.project /\ tab'.shown = tab.shown
          /\ tab'.tail = tab.tail /\ tab'.snapshot = tab.snapshot /\ tab'.hydrated = tab.hydrated
      BY <2>4, TerminalHere DEF Terminals
    <3>2. TabWhole(wire', tab')
      BY <1>1, <2>2, <2>4, <3>1 DEF TerminalInv, TabWhole
    <3>3. wire'.at = "open"
      BY <2>1, TerminalHere DEF Wires
    <3> QED BY <1>1, <2>1, <2>2, <2>4, <3>1, <3>2, <3>3 DEF TerminalInv
  <2> QED BY <2>1, <2>3, <2>4
<1>3. CASE Closed
  <2>1. PICK lost \in BOOLEAN : lost = (wire.frames # <<>> /\ tab.answer = "read")
    OBVIOUS
  <2>2. wire' = [NoWire EXCEPT !.at = "waiting"] /\ Break(lost) /\ tab' = tab
    BY <1>3, <2>1 DEF Closed
  <2>3. wire' \in Wires /\ wire'.frames = <<>>
    BY <2>2, NothingYet DEF Wires
  <2>4. usage' \in Usages /\ usage'.lost = (usage.lost \/ lost)
    BY <2>2, BreaksTurn
  <2>5. TabWhole(wire', tab)
    BY <2>3, NothingYet DEF TerminalInv, TabWhole
  <2>6. ASSUME tab.answer = "read", ~usage'.lost PROVE wire.frames = <<>> /\ ~usage.lost
    BY <2>1, <2>4, <2>6
  <2>7. \A c : wire.frames = <<>> /\ Reached(wire, tab, c) => Reached(wire', tab, c)
    BY <2>3 DEF Reached
  <2>8. usage.lost => usage'.lost
    BY <2>4
  <2> QED BY <1>1, <2>2, <2>3, <2>4, <2>5, <2>6, <2>7, <2>8 DEF TerminalInv
<1>4. CASE Retries
  <2>1. wire.at = "waiting" /\ wire' = [wire EXCEPT !.at = "asking"] /\ UNCHANGED <<tab, usage>>
    BY <1>4 DEF Retries
  <2>2. wire' \in Wires /\ wire'.frames = wire.frames /\ wire.frames = <<>>
    BY <2>1, TerminalHere DEF Wires, TerminalInv
  <2>3. TabWhole(wire', tab)
    BY <2>2 DEF TerminalInv, TabWhole
  <2>4. \A c : Reached(wire, tab, c) => Reached(wire', tab, c)
    BY <2>2 DEF Reached
  <2> QED BY <1>1, <2>1, <2>2, <2>3, <2>4 DEF TerminalInv
<1> QED BY <1>2, <1>3, <1>4

LEMMA HearingTurns ==
    ASSUME TerminalInv, FrameHeard
    PROVE  TerminalInv'
<1>1. PICK c : c = Head(wire.frames)
  OBVIOUS
<1>2. PICK rest : rest = Tail(wire.frames)
  OBVIOUS
<1>3. /\ wire.frames # <<>> /\ wire' = [wire EXCEPT !.frames = rest] /\ tab' = PushChunk(tab, c)
      /\ UNCHANGED <<shell, usage>>
  BY <1>1, <1>2 DEF FrameHeard
<1>4. OfOne(wire.frames, tab.project) /\ OfOne(tab.shown, tab.project) /\ OfOne(tab.tail, tab.project)
  BY DEF TerminalInv, TabWhole
<1>5. /\ c \in ShellChunks /\ rest \in Seq(ShellChunks) /\ c[1] = tab.project /\ OfOne(rest, tab.project)
      /\ \A d : Has(wire.frames, d) => d = c \/ Has(rest, d)
  BY <1>1, <1>2, <1>3, <1>4, TerminalHere, ChunkTaken
<1>6. wire' \in Wires /\ wire'.at = wire.at /\ wire'.frames = rest
  BY <1>3, <1>5, TerminalHere DEF Wires
<1>7. wire.at = "open"
  BY <1>3 DEF TerminalInv
<1>8. PICK s : s = Append(tab.shown, c)
  OBVIOUS
<1>9. PICK t : t = Append(tab.tail, c)
  OBVIOUS
<1>10. /\ s \in Seq(ShellChunks) /\ Has(s, c) /\ (\A d : Has(tab.shown, d) => Has(s, d)) /\ OfOne(s, tab.project)
  BY <1>4, <1>5, <1>8, TerminalHere, ChunkAppended
<1>11. /\ t \in Seq(ShellChunks) /\ Has(t, c) /\ (\A d : Has(tab.tail, d) => Has(t, d)) /\ OfOne(t, tab.project)
  BY <1>4, <1>5, <1>9, TerminalHere, ChunkAppended
<1>12. CASE tab.hydrated
  <2>1. tab' = [tab EXCEPT !.shown = s]
    BY <1>3, <1>8, <1>12 DEF PushChunk
  <2>2. /\ tab' \in Terminals /\ tab'.project = tab.project /\ tab'.shown = s /\ tab'.tail = tab.tail
        /\ tab'.snapshot = tab.snapshot /\ tab'.hydrated = tab.hydrated /\ tab'.answer = tab.answer
    BY <1>10, <2>1, TerminalHere DEF Terminals
  <2>3. TabWhole(wire', tab')
    BY <1>5, <1>6, <1>10, <2>2 DEF TerminalInv, TabWhole
  <2>4. \A d : Reached(wire, tab, d) => Reached(wire', tab', d)
    BY <1>5, <1>6, <1>10, <1>12, <2>2 DEF Reached
  <2> QED BY <1>3, <1>6, <1>7, <2>2, <2>3, <2>4 DEF TerminalInv
<1>13. CASE ~tab.hydrated
  <2>1. tab' = [tab EXCEPT !.tail = t]
    BY <1>3, <1>9, <1>13 DEF PushChunk
  <2>2. /\ tab' \in Terminals /\ tab'.project = tab.project /\ tab'.shown = tab.shown /\ tab'.tail = t
        /\ tab'.snapshot = tab.snapshot /\ tab'.hydrated = tab.hydrated /\ tab'.answer = tab.answer
    BY <1>11, <2>1, TerminalHere DEF Terminals
  <2>3. TabWhole(wire', tab')
    BY <1>5, <1>6, <1>11, <2>2 DEF TerminalInv, TabWhole
  <2>4. \A d : Reached(wire, tab, d) => Reached(wire', tab', d)
    BY <1>5, <1>6, <1>11, <1>13, <2>2 DEF Reached
  <2> QED BY <1>3, <1>6, <1>7, <2>2, <2>3, <2>4 DEF TerminalInv
<1> QED BY <1>12, <1>13

(* The answer to GET terminal. *)
LEMMA HydratesFrom ==
    ASSUME TerminalInv, SnapshotRead \/ SnapshotFails
    PROVE  TerminalInv'
<1>1. tab.answer = "asked" /\ tab.project \in Projects /\ ~tab.hydrated /\ wire' = wire
  BY DEF SnapshotRead, SnapshotFails, TerminalInv, TabWhole
<1>2. CASE SnapshotFails
  <2>1. tab' = [tab EXCEPT !.answer = "failed"] /\ Break(FALSE) /\ shell' = shell
    BY <1>2 DEF SnapshotFails
  <2>2. /\ tab' \in Terminals /\ tab'.answer = "failed" /\ tab'.project = tab.project /\ tab'.shown = tab.shown
        /\ tab'.tail = tab.tail /\ tab'.snapshot = tab.snapshot /\ tab'.hydrated = tab.hydrated
    BY <2>1, TerminalHere DEF Terminals
  <2>3. usage' \in Usages
    BY <2>1, BreaksTurn
  <2>4. TabWhole(wire, tab')
    BY <1>1, <2>2 DEF TerminalInv, TabWhole
  <2> QED BY <1>1, <2>1, <2>2, <2>3, <2>4 DEF TerminalInv
<1>3. CASE SnapshotRead
  <2>1. PICK p \in Projects : p = tab.project
    BY <1>1
  <2>2. PICK s : s = shell[p]
    OBVIOUS
  <2>3. s \in Shells /\ ShellWhole(p, s)
    BY <2>2 DEF TerminalInv
  <2>4. CASE s.at = "none"
    <3>0. PICK k : k = s.spawned + 1 /\ k = 1
      BY <2>3, <2>4 DEF ShellWhole
    <3>1. PICK n : n = [s EXCEPT !.at = "starting", !.spawned = k]
      OBVIOUS
    <3>2. shell' = [shell EXCEPT ![p] = n] /\ UNCHANGED <<wire, tab, usage>>
      BY <1>3, <2>1, <2>2, <2>4, <3>0, <3>1 DEF SnapshotRead
    <3>3. n \in Shells /\ n.output = s.output /\ n.at = "starting" /\ n.spawned = 1
      <4>1. k = 1 /\ k \in Nat
        BY <3>0
      <4> QED BY <2>3, <3>1, <4>1 DEF Shells
    <3>4. ShellWhole(p, n)
      BY <2>3, <3>3 DEF ShellWhole
    <3> QED BY <2>2, <3>2, <3>3, <3>4, ShellTurns
  <2>5. CASE s.at # "none"
    <3>1. tab' = [tab EXCEPT !.answer = "read", !.snapshot = s.output] /\ UNCHANGED <<shell, usage>>
      BY <1>3, <2>1, <2>2, <2>5 DEF SnapshotRead
    <3>2. s.output \in Seq(ShellChunks) /\ OfOne(s.output, tab.project)
      BY <2>1, <2>3 DEF Shells, ShellWhole
    <3>3. /\ tab' \in Terminals /\ tab'.answer = "read" /\ tab'.project = tab.project /\ tab'.shown = tab.shown
          /\ tab'.tail = tab.tail /\ tab'.snapshot = s.output /\ tab'.hydrated = tab.hydrated
      BY <3>1, <3>2, TerminalHere DEF Terminals
    <3>4. TabWhole(wire, tab')
      BY <1>1, <3>2, <3>3 DEF TerminalInv, TabWhole
    <3>5. \A c : Has(shell[tab.project].output, c) => Reached(wire, tab', c)
      BY <1>1, <2>1, <2>2, <3>3 DEF Reached
    <3> QED BY <1>1, <3>1, <3>3, <3>4, <3>5 DEF TerminalInv
  <2> QED BY <2>4, <2>5
<1> QED BY <1>2, <1>3

LEMMA HydrationTurns ==
    ASSUME TerminalInv, Hydrated
    PROVE  TerminalInv'
<1>1. PICK z : z = IF tab.answer = "read" THEN Merged(tab.snapshot, tab.tail)
                   ELSE IF tab.tail # <<>> THEN tab.tail ELSE tab.shown
  OBVIOUS
<1>2. PICK m \in BOOLEAN : m = (usage.lost \/ tab.answer = "failed" \/ Mistaken(tab.snapshot, tab.tail))
  OBVIOUS
<1>3. /\ tab.answer \in {"read", "failed"} /\ ~tab.hydrated
      /\ tab' = [tab EXCEPT !.hydrated = TRUE, !.asked = FALSE, !.tail = <<>>, !.shown = z]
      /\ usage' = [usage EXCEPT !.lost = m] /\ UNCHANGED <<shell, wire>>
  BY <1>1, <1>2 DEF Hydrated
<1>4. /\ OfOne(tab.snapshot, tab.project) /\ OfOne(tab.shown, tab.project) /\ OfOne(tab.tail, tab.project)
  BY DEF TerminalInv, TabWhole
<1>5. PICK k : k = Merged(tab.snapshot, tab.tail)
  OBVIOUS
<1>6. /\ k \in Seq(ShellChunks) /\ OfOne(k, tab.project)
      /\ ~m => \A c : Has(tab.snapshot, c) \/ Has(tab.tail, c) => Has(k, c)
  BY <1>2, <1>4, <1>5, TerminalHere, MergedHas
<1>7. z \in Seq(ShellChunks) /\ OfOne(z, tab.project) /\ (tab.answer = "read" => z = k)
  BY <1>1, <1>4, <1>5, <1>6, TerminalHere
<1>8. usage' \in Usages /\ usage'.lost = m
  BY <1>2, <1>3, TerminalHere DEF Usages
<1>9. /\ tab' \in Terminals /\ tab'.project = tab.project /\ tab'.shown = z /\ tab'.tail = <<>>
      /\ tab'.snapshot = tab.snapshot /\ tab'.hydrated = TRUE /\ tab'.answer = tab.answer
  BY <1>3, <1>7, NothingYet, TerminalHere DEF Terminals
<1>10. TabWhole(wire, tab')
  BY <1>3, <1>7, <1>9, NothingYet DEF TerminalInv, TabWhole
<1>11. \A c : ~m /\ tab.answer = "read" /\ Reached(wire, tab, c) => Reached(wire, tab', c)
  BY <1>3, <1>6, <1>7, <1>9 DEF Reached
<1>12. (tab.answer = "failed" => m) /\ (~m => ~usage.lost)
  BY <1>2
<1> QED BY <1>3, <1>8, <1>9, <1>10, <1>11, <1>12 DEF TerminalInv

LEMMA TerminalStep == ASSUME TerminalInv, [TerminalNext]_terminal PROVE TerminalInv'
<1>1. ASSUME NEW p \in Projects, Ensure(p) \/ ShellReady(p) PROVE TerminalInv'
  BY <1>1, ShellsTurn
<1>2. ASSUME NEW p \in Projects, ShellFails(p) PROVE TerminalInv'
  BY <1>2, FailingTurns
<1>3. ASSUME NEW p \in Projects, NEW text \in Symbols, Prints(p, text) PROVE TerminalInv'
  BY <1>3, PrintingTurns
<1>4. ASSUME NEW p \in Projects, Selects(p) PROVE TerminalInv'
  BY <1>4, SelectionTurns
<1>5. CASE UNCHANGED terminal
  BY <1>5 DEF terminal, TerminalInv
<1> QED BY <1>1, <1>2, <1>3, <1>4, <1>5, SelectionTurns, WireTurns, HearingTurns, HydratesFrom, HydrationTurns
        DEF TerminalNext

LEMMA TerminalIsTrue == TerminalInv => TerminalIsWhole
<1> SUFFICES ASSUME TerminalInv PROVE TerminalIsWhole
  OBVIOUS
<1>1. ASSUME NEW p \in Projects PROVE shell[p].spawned <= 1
  <2>1. shell[p].spawned = IF shell[p].at = "none" THEN 0 ELSE 1
    BY DEF TerminalInv, ShellWhole
  <2> QED BY <2>1
<1>2. \A i \in DOMAIN tab.shown : tab.shown[i][1] = tab.project
  BY DEF TerminalInv, TabWhole, OfOne
<1>3. ASSUME tab.hydrated, wire.frames = <<>>, ~usage.lost
      PROVE  ToSet(shell[tab.project].output) \subseteq ToSet(tab.shown)
  <2>1. tab.answer = "read"
    BY <1>3 DEF TerminalInv, TabWhole
  <2>2. \A c : Has(shell[tab.project].output, c) => Has(tab.shown, c)
    BY <1>3, <2>1, NothingYet DEF TerminalInv, Reached
  <2> QED BY <2>2 DEF ToSet, Has
<1> QED BY <1>1, <1>2, <1>3 DEF TerminalIsWhole

-----------------------------------------------------------------------------
(* Cards of projects *)

CardVersions == [Cards -> Nat]

(* What is under way. *)
CardRequests ==
    [kind : {"catalog"}, step : {"sent"}, id : Nat, next : Cards \cup {"none"}]
    \cup [kind : {"metadata"}, step : {"sent"}, id : Nat]
    \cup [kind : {"metadata"}, step : {"statuses"}, id : Nat, docker : CardVersions]
    \cup [kind : {"metadata"}, step : {"read"}, id : Nat, docker : CardVersions, git : CardVersions]
    \cup [kind : {"status", "overview"}, step : {"sent", "read"}, id : Nat, slug : Cards, value : Nat]
    \cup [kind : {"select"}, step : {"sent"}, id : Nat, slug : Cards]
    \cup [kind : {"mutation"}, step : {"sent", "acted"}, id : Nat, slug : Cards]
    \cup [kind : {"action"}, step : {"sent", "acted"}, id : Nat, slug : Cards, whole : BOOLEAN]

CardsShape ==
    /\ world \in [docker : CardVersions, tree : CardVersions]
    /\ page \in [docker : CardVersions, git : CardVersions, overview : CardVersions, open : Cards \cup {"none"}]
    /\ ids \in [projects : Nat, metadata : Nat, status : CardVersions]
    /\ load \subseteq CardRequests
    /\ wanted \in [docker : CardVersions, git : CardVersions]
    /\ overtaken \in [Cards -> BOOLEAN] /\ loads \in Nat /\ misses \in Nat
    /\ \A p \in Cards : wanted.docker[p] <= world.docker[p] /\ wanted.git[p] <= world.tree[p]

(* The counters are those of the newest request of a kind. *)
CardIdsInv ==
    \A l \in load : /\ l.kind = "metadata" => l.id <= ids.metadata
                    /\ l.kind = "status" => l.id <= ids.status[l.slug]

ListComing == \E l \in load : l.kind = "catalog" /\ l.id = ids.projects
MetadataComing == \E l \in load : l.kind = "metadata" /\ l.id = ids.metadata

(* As long as nothing failed, a git summary that is older than the user's  *)
(* own change, on the page or in the newest metadata, will be read again.  *)
GitComes(p) ==
    /\ page.git[p] < wanted.git[p] => ListComing \/ MetadataComing
    /\ \A l \in load : l.kind = "metadata" /\ l.step = "read" /\ l.id = ids.metadata /\ l.git[p] < wanted.git[p]
                         => ListComing

FollowUp(p) == \E l \in load : l.kind = "catalog" /\ l.next = p
StatusComing(p) == \E l \in load : l.kind = "status" /\ l.slug = p /\ l.id = ids.status[p]

(* The same of the containers, by their own status. *)
DockerComes(p) ==
    /\ page.docker[p] < wanted.docker[p] /\ ~overtaken[p] => FollowUp(p) \/ StatusComing(p)
    /\ \A l \in load : l.kind = "status" /\ l.step = "read" /\ l.slug = p /\ l.id = ids.status[p]
                            /\ l.value < wanted.docker[p]
                         => FollowUp(p)

CardsInv ==
    /\ CardsShape /\ CardIdsInv
    /\ misses = 0 => \A p \in Cards : GitComes(p) /\ DockerComes(p)


LEMMA CardKinds ==
    ASSUME NEW l \in CardRequests
    PROVE  /\ l.kind = "catalog" => l.id \in Nat /\ l.next \in Cards \cup {"none"}
           /\ l.kind = "metadata" => l.id \in Nat /\ l.step \in {"sent", "statuses", "read"}
           /\ l.kind = "metadata" /\ l.step \in {"statuses", "read"} => l.docker \in CardVersions
           /\ l.kind = "metadata" /\ l.step = "read" => l.git \in CardVersions
           /\ l.kind \in {"status", "overview"} =>
                l.id \in Nat /\ l.slug \in Cards /\ l.value \in Nat /\ l.step \in {"sent", "read"}
           /\ l.kind \in {"select", "mutation", "action"} => l.slug \in Cards
BY DEF CardRequests

LEMMA CardKinds2 ==
    ASSUME CardsShape, NEW p \in Cards
    PROVE  /\ Status(p) \in CardRequests /\ Status(p).kind = "status" /\ Status(p).slug = p
           /\ Status(p).id = ids.status[p] + 1 /\ Status(p).step = "sent"
           /\ Overview(p) \in CardRequests /\ Overview(p).kind = "overview"
           /\ \A q \in {p, "none"} : /\ Catalog(q) \in CardRequests /\ Catalog(q).kind = "catalog"
                                     /\ Catalog(q).id = ids.projects + 1 /\ Catalog(q).next = q
<1>1. ids.status[p] + 1 \in Nat /\ ids.projects + 1 \in Nat /\ loads \in Nat
  BY DEF CardsShape, CardVersions
<1>2. Status(p) = [kind |-> "status", step |-> "sent", id |-> ids.status[p] + 1, slug |-> p, value |-> 0]
  BY DEF Status
<1>3. Overview(p) = [kind |-> "overview", step |-> "sent", id |-> loads, slug |-> p, value |-> 0]
  BY DEF Overview
<1>4. ASSUME NEW q \in {p, "none"}
      PROVE  /\ Catalog(q) \in CardRequests /\ Catalog(q).kind = "catalog"
             /\ Catalog(q).id = ids.projects + 1 /\ Catalog(q).next = q
  <2>1. Catalog(q) = [kind |-> "catalog", step |-> "sent", id |-> ids.projects + 1, next |-> q]
    BY DEF Catalog
  <2> QED BY <1>1, <2>1 DEF CardRequests
<1>5. Status(p) \in CardRequests /\ Overview(p) \in CardRequests
  BY <1>1, <1>2, <1>3 DEF CardRequests
<1> QED BY <1>2, <1>3, <1>4, <1>5

(* Counters move on by one. *)
LEMMA CountersTurn ==
    ASSUME CardsShape, NEW p \in Cards
    PROVE  /\ LET i == [ids EXCEPT !.projects = @ + 1] IN
              /\ i \in [projects : Nat, metadata : Nat, status : CardVersions]
              /\ i.projects = ids.projects + 1 /\ i.metadata = ids.metadata /\ i.status = ids.status
           /\ LET i == [ids EXCEPT !.metadata = @ + 1] IN
              /\ i \in [projects : Nat, metadata : Nat, status : CardVersions]
              /\ i.projects = ids.projects /\ i.metadata = ids.metadata + 1 /\ i.status = ids.status
           /\ LET i == [ids EXCEPT !.status[p] = @ + 1] IN
              /\ i \in [projects : Nat, metadata : Nat, status : CardVersions]
              /\ i.projects = ids.projects /\ i.metadata = ids.metadata
              /\ i.status[p] = ids.status[p] + 1 /\ \A q \in Cards \ {p} : i.status[q] = ids.status[q]
           /\ LET i == [ids EXCEPT !.metadata = @ + 1, !.status[p] = @ + 1] IN
              /\ i \in [projects : Nat, metadata : Nat, status : CardVersions]
              /\ i.projects = ids.projects /\ i.metadata = ids.metadata + 1
              /\ i.status[p] = ids.status[p] + 1 /\ \A q \in Cards \ {p} : i.status[q] = ids.status[q]
<1> DEFINE s == [ids.status EXCEPT ![p] = @ + 1]
           m == [ids EXCEPT !.metadata = @ + 1]
<1>1. ids \in [projects : Nat, metadata : Nat, status : CardVersions]
  BY DEF CardsShape
<1>2. s \in CardVersions /\ s[p] = ids.status[p] + 1 /\ \A q \in Cards \ {p} : s[q] = ids.status[q]
  BY <1>1 DEF CardVersions
<1>3. [ids EXCEPT !.status[p] = @ + 1] = [ids EXCEPT !.status = s]
  OBVIOUS
<1>4. /\ m \in [projects : Nat, metadata : Nat, status : CardVersions]
      /\ m.projects = ids.projects /\ m.metadata = ids.metadata + 1 /\ m.status = ids.status
  BY <1>1
<1>5. [ids EXCEPT !.metadata = @ + 1, !.status[p] = @ + 1] = [m EXCEPT !.status = s]
  BY <1>1
<1>6. /\ [ids EXCEPT !.projects = @ + 1] \in [projects : Nat, metadata : Nat, status : CardVersions]
      /\ [ids EXCEPT !.projects = @ + 1].projects = ids.projects + 1
      /\ [ids EXCEPT !.projects = @ + 1].metadata = ids.metadata
      /\ [ids EXCEPT !.projects = @ + 1].status = ids.status
  BY <1>1
<1> HIDE DEF s, m
<1>7. /\ [ids EXCEPT !.status = s] \in [projects : Nat, metadata : Nat, status : CardVersions]
      /\ [ids EXCEPT !.status = s].projects = ids.projects
      /\ [ids EXCEPT !.status = s].metadata = ids.metadata
      /\ [ids EXCEPT !.status = s].status = s
  BY <1>1, <1>2
<1>8. /\ [m EXCEPT !.status = s] \in [projects : Nat, metadata : Nat, status : CardVersions]
      /\ [m EXCEPT !.status = s].projects = ids.projects
      /\ [m EXCEPT !.status = s].metadata = ids.metadata + 1
      /\ [m EXCEPT !.status = s].status = s
  BY <1>2, <1>4
<1>9. m = [ids EXCEPT !.metadata = @ + 1]
  BY DEF m
<1> QED BY <1>2, <1>3, <1>4, <1>5, <1>6, <1>7, <1>8, <1>9

LEMMA CardsStarting == ASSUME CardsInit PROVE CardsInv
<1>1. Nothing \in CardVersions /\ \A p \in Cards : Nothing[p] = 0
  BY DEF Nothing, CardVersions
<1>2. CardsShape
  BY <1>1 DEF CardsInit, CardsShape, CardVersions
<1>3. CardIdsInv
  BY DEF CardsInit, CardIdsInv
<1>4. \A p \in Cards : GitComes(p) /\ DockerComes(p)
  BY <1>1 DEF CardsInit, GitComes, DockerComes
<1> QED BY <1>2, <1>3, <1>4 DEF CardsInv

(* A request that nobody's promise rests on comes or goes. *)
LEMMA QuietCards ==
    ASSUME CardsInv, CardsShape', ids' = ids, wanted' = wanted, overtaken' = overtaken,
           page'.git = page.git, page'.docker = page.docker, misses' >= misses,
           \A l \in load : l \in load' \/ l.kind \notin {"catalog", "metadata", "status"},
           \A l \in load' : l \in load \/ l.kind \notin {"metadata", "status"}
    PROVE  CardsInv'
<1>1. CardIdsInv'
  BY DEF CardsInv, CardIdsInv
<1>2. misses' = 0 => misses = 0
  BY DEF CardsInv, CardsShape
<1>3. ASSUME NEW p \in Cards, misses = 0 PROVE GitComes(p)' /\ DockerComes(p)'
  <2>1. /\ ListComing => ListComing'
        /\ MetadataComing => MetadataComing'
        /\ FollowUp(p) => FollowUp(p)'
        /\ StatusComing(p) => StatusComing(p)'
    BY DEF ListComing, MetadataComing, FollowUp, StatusComing
  <2>2. GitComes(p) /\ DockerComes(p)
    BY <1>3 DEF CardsInv
  <2>3. GitComes(p)'
    BY <2>1, <2>2 DEF GitComes
  <2>4. DockerComes(p)'
    BY <2>1, <2>2 DEF DockerComes
  <2> QED BY <2>3, <2>4
<1> QED BY <1>1, <1>2, <1>3 DEF CardsInv

(* Once something failed nothing is promised. *)
LEMMA FailedCards ==
    ASSUME CardsInv, CardsShape', misses' = misses + 1, CardIdsInv'
    PROVE  CardsInv'
<1>1. misses' # 0
  BY DEF CardsInv, CardsShape
<1> QED BY <1>1 DEF CardsInv

LEMMA CountersBound ==
    ASSUME CardsInv, CardsShape', ids'.metadata >= ids.metadata, \A p \in Cards : ids'.status[p] >= ids.status[p],
           \A l \in load' : l \in load \/ /\ l.kind = "metadata" => l.id <= ids'.metadata
                                          /\ l.kind = "status" => l.id <= ids'.status[l.slug]
    PROVE  CardIdsInv'
<1>1. ids \in [projects : Nat, metadata : Nat, status : CardVersions] /\ ids' \in [projects : Nat, metadata : Nat, status : CardVersions]
  BY DEF CardsInv, CardsShape
<1>2. ASSUME NEW l \in load' PROVE (l.kind = "metadata" => l.id <= ids'.metadata) /\ (l.kind = "status" => l.id <= ids'.status[l.slug])
  <2>1. l \in CardRequests
    BY DEF CardsShape
  <2>2. CASE l \in load
    BY <1>1, <2>1, <2>2, CardKinds DEF CardsInv, CardIdsInv, CardVersions
  <2> QED BY <2>2
<1> QED BY <1>2 DEF CardIdsInv

(* The server changes by one step. *)
LEMMA ServerChanges ==
    ASSUME CardsShape, NEW p \in Cards, NEW part \in {"docker", "tree"}, Changes(part, p)
    PROVE  /\ world' \in [docker : CardVersions, tree : CardVersions]
           /\ \A q \in Cards : world'.docker[q] >= world.docker[q] /\ world'.tree[q] >= world.tree[q]
<1>1. world \in [docker : CardVersions, tree : CardVersions]
  BY DEF CardsShape
<1> DEFINE d == [world.docker EXCEPT ![p] = @ + 1]
           t == [world.tree EXCEPT ![p] = @ + 1]
<1>2. /\ d \in CardVersions /\ \A q \in Cards : d[q] >= world.docker[q]
      /\ t \in CardVersions /\ \A q \in Cards : t[q] >= world.tree[q]
  BY <1>1 DEF CardVersions
<1>3. world' = [world EXCEPT !.docker = d] \/ world' = [world EXCEPT !.tree = t]
  BY DEF Changes
<1> HIDE DEF d, t
<1>4. \A q \in Cards : world.docker[q] \in Nat /\ world.tree[q] \in Nat
  BY <1>1 DEF CardVersions
<1>5. CASE world' = [world EXCEPT !.docker = d]
  <2>1. world'.docker = d /\ world'.tree = world.tree
    BY <1>1, <1>5
  <2> QED BY <1>1, <1>2, <1>4, <1>5, <2>1
<1>6. CASE world' = [world EXCEPT !.tree = t]
  <2>1. world'.docker = world.docker /\ world'.tree = t
    BY <1>1, <1>6
  <2> QED BY <1>1, <1>2, <1>4, <1>6, <2>1
<1> QED BY <1>3, <1>5, <1>6

LEMMA UserAsks ==
    ASSUME CardsInv, NEW p \in Cards,
           \/ WorldMoves(p) \/ LoadGitOverview(p) \/ OpenAsked(p) \/ GitAsked(p)
           \/ \E whole \in BOOLEAN : ActionAsked(p, whole)
    PROVE  CardsInv'
<1> USE DEF CardsInv
<1>1. CASE WorldMoves(p)
  <2>2. UNCHANGED <<page, ids, load, wanted, overtaken, loads, misses>>
    BY <1>1 DEF WorldMoves
  <2>3. /\ world' \in [docker : CardVersions, tree : CardVersions]
        /\ \A q \in Cards : world'.docker[q] >= world.docker[q] /\ world'.tree[q] >= world.tree[q]
    BY <1>1, ServerChanges DEF WorldMoves
  <2>4. CardsShape'
    BY <2>2, <2>3 DEF CardsShape, CardVersions
  <2> QED BY <2>2, <2>4, QuietCards DEF CardsShape
<1>2. ASSUME NEW r \in CardRequests, Sends(r), r.kind \notin {"metadata", "status"},
             UNCHANGED <<world, page, ids, wanted, overtaken, misses>>
      PROVE  CardsInv'
  <2>1. load' = load \cup {r} /\ loads' = loads + 1
    BY <1>2 DEF Sends
  <2>2. CardsShape'
    BY <1>2, <2>1 DEF CardsShape
  <2> QED BY <1>2, <2>1, <2>2, QuietCards DEF CardsShape
<1>3. CASE LoadGitOverview(p)
  BY <1>2, <1>3, CardKinds2 DEF LoadGitOverview
<1>4. loads \in Nat
  BY DEF CardsShape
<1>5. CASE OpenAsked(p)
  <2>1. [kind |-> "select", step |-> "sent", id |-> loads, slug |-> p] \in CardRequests
    BY <1>4 DEF CardRequests
  <2> QED BY <1>2, <1>5, <2>1 DEF OpenAsked
<1>6. CASE GitAsked(p)
  <2>1. [kind |-> "mutation", step |-> "sent", id |-> loads, slug |-> p] \in CardRequests
    BY <1>4 DEF CardRequests
  <2> QED BY <1>2, <1>6, <2>1 DEF GitAsked
<1>7. ASSUME NEW whole \in BOOLEAN, ActionAsked(p, whole) PROVE CardsInv'
  <2>1. [kind |-> "action", step |-> "sent", id |-> loads, slug |-> p, whole |-> whole] \in CardRequests
    BY <1>4 DEF CardRequests
  <2> QED BY <1>2, <1>7, <2>1 DEF ActionAsked
<1> QED BY <1>1, <1>3, <1>5, <1>6, <1>7

(* A list, or the status of p, is asked for anew. *)
AsksStatus(p, gone, also) ==
    /\ load' = (load \ gone) \cup {Status(p)} \cup also /\ ids' = [ids EXCEPT !.status[p] = @ + 1]
    /\ wanted'.git = wanted.git
AsksList(p, gone, next) ==
    /\ load' = (load \ gone) \cup {Catalog(next)} /\ ids' = [ids EXCEPT !.projects = @ + 1]
    /\ wanted'.docker[p] = wanted.docker[p] \/ next = p

LEMMA AskedShape ==
    ASSUME CardsShape, NEW p \in Cards, NEW gone, NEW also, also \subseteq {Overview(p)},
           AsksStatus(p, gone, also) \/ \E next \in {p, "none"} : AsksList(p, gone, next)
    PROVE  /\ ids' \in [projects : Nat, metadata : Nat, status : CardVersions] /\ load' \subseteq CardRequests
           /\ ids'.metadata = ids.metadata /\ \A q \in Cards : ids'.status[q] >= ids.status[q]
<1>1. \A q \in Cards : ids.status[q] \in Nat
  BY DEF CardsShape, CardVersions
<1>2. load \subseteq CardRequests
  BY DEF CardsShape
<1>3. CASE AsksStatus(p, gone, also)
  <2>1. ids' = [ids EXCEPT !.status[p] = @ + 1] /\ load' = (load \ gone) \cup {Status(p)} \cup also
    BY <1>3 DEF AsksStatus
  <2>2. /\ ids' \in [projects : Nat, metadata : Nat, status : CardVersions] /\ ids'.metadata = ids.metadata
        /\ ids'.status[p] = ids.status[p] + 1 /\ \A o \in Cards \ {p} : ids'.status[o] = ids.status[o]
    BY <2>1, CountersTurn
  <2>3. load' \subseteq CardRequests
    BY <1>2, <2>1, CardKinds2
  <2>4. \A q \in Cards : ids'.status[q] >= ids.status[q]
    <3> TAKE q \in Cards
    <3>1. CASE q = p
      BY <1>1, <2>2, <3>1
    <3>2. CASE q # p
      BY <1>1, <2>2, <3>2
    <3> QED BY <3>1, <3>2
  <2> QED BY <2>2, <2>3, <2>4
<1>4. CASE \E next \in {p, "none"} : AsksList(p, gone, next)
  <2>1. PICK next \in {p, "none"} : AsksList(p, gone, next)
    BY <1>4
  <2>2. ids' = [ids EXCEPT !.projects = @ + 1] /\ load' = (load \ gone) \cup {Catalog(next)}
    BY <2>1 DEF AsksList
  <2>3. /\ ids' \in [projects : Nat, metadata : Nat, status : CardVersions] /\ ids'.metadata = ids.metadata
        /\ ids'.status = ids.status
    BY <2>2, CountersTurn
  <2>4. load' \subseteq CardRequests
    BY <1>2, <2>2, CardKinds2
  <2> QED BY <1>1, <2>3, <2>4
<1> QED BY <1>3, <1>4

LEMMA NewestAsked ==
    ASSUME CardsInv, NEW p \in Cards, NEW gone, gone \subseteq load, NEW also, also \subseteq {Overview(p)}, \A l \in gone : l.kind \notin {"catalog", "metadata", "status"},
           misses' = misses, overtaken' = overtaken, CardsShape',
           page'.git = page.git, page'.docker = page.docker,
           \A q \in Cards : q # p => wanted'.docker[q] = wanted.docker[q] /\ wanted'.git[q] = wanted.git[q],
           AsksStatus(p, gone, also) \/ \E next \in {p, "none"} : AsksList(p, gone, next)
    PROVE  CardsInv'
<1> USE DEF CardsInv
<1>1. \A q \in Cards : ids.status[q] \in Nat /\ ids'.status[q] \in Nat
  BY DEF CardsShape, CardVersions
<1>2. /\ ids'.metadata = ids.metadata /\ ids.metadata \in Nat
      /\ \A q \in Cards : ids'.status[q] >= ids.status[q]
  BY AskedShape, ZenonT(60) DEF CardsShape
<1>3. \A l \in load' : l \in load \/ (l = Status(p) /\ ids'.status[p] = ids.status[p] + 1) \/ l = Catalog("none") \/ l = Catalog(p) \/ l = Overview(p)
  <2>1. CASE AsksStatus(p, gone, also)
    <3>1. ids'.status[p] = ids.status[p] + 1
      BY <2>1, CountersTurn DEF AsksStatus
    <3> QED BY <2>1, <3>1 DEF AsksStatus
  <2>2. CASE \E next \in {p, "none"} : AsksList(p, gone, next)
    BY <2>2 DEF AsksList
  <2> QED BY <2>1, <2>2
<1>4. CardIdsInv'
  BY <1>1, <1>2, <1>3, CardKinds2, CountersBound
<1>5. \A l \in load : l \in load' \/ l.kind \notin {"catalog", "metadata", "status"}
  BY DEF AsksStatus, AsksList
<1>6. ASSUME NEW q \in Cards, misses = 0 PROVE GitComes(q)' /\ DockerComes(q)'
  <2>1. GitComes(q) /\ DockerComes(q)
    BY <1>6
  <2>2. MetadataComing => MetadataComing'
    BY <1>2, <1>5 DEF MetadataComing
  <2>3. FollowUp(q) => FollowUp(q)'
    BY <1>5 DEF FollowUp
  <2>4. CASE AsksStatus(p, gone, also)
    <3> USE DEF AsksStatus
    <3>1. ids'.projects = ids.projects /\ ids'.status[p] = ids.status[p] + 1 /\ \A o \in Cards \ {p} : ids'.status[o] = ids.status[o]
      BY <2>4, CountersTurn
    <3>2. ListComing => ListComing'
      BY <1>5, <3>1 DEF ListComing
    <3>3. \A l \in load' : l.kind = "metadata" => l \in load
      BY <2>4, CardKinds2
    <3>4. GitComes(q)'
      BY <1>2, <2>1, <2>2, <2>4, <3>2, <3>3 DEF GitComes
    <3>5. CASE q = p
      <4>1. StatusComing(p)'
        BY <2>4, <3>1, CardKinds2 DEF StatusComing
      <4>2. \A l \in load' : l.kind = "status" /\ l.slug = p /\ l.id = ids'.status[p] => l.step = "sent"
        <5>1. \A l \in load : l.kind = "status" /\ l.slug = p => l.id # ids'.status[p]
          <6> TAKE l \in load
          <6>1. l \in CardRequests
            BY DEF CardsShape
          <6> QED BY <1>1, <3>1, <6>1, CardKinds DEF CardIdsInv
        <5> QED BY <2>4, <5>1, CardKinds2
      <4>3. \A l \in load' : ~(l.kind = "status" /\ l.step = "read" /\ l.slug = p /\ l.id = ids'.status[p])
        BY <4>2
      <4> QED BY <3>4, <3>5, <4>1, <4>3 DEF DockerComes
    <3>6. CASE q # p
      <4>1. StatusComing(q) => StatusComing(q)'
        BY <1>5, <3>1, <3>6 DEF StatusComing
      <4>2. \A l \in load' : l.kind = "status" /\ l.slug = q => l \in load
        BY <2>4, <3>6, CardKinds2
      <4>3. DockerComes(q)'
        BY <2>1, <2>3, <3>1, <3>6, <4>1, <4>2 DEF DockerComes
      <4> QED BY <3>4, <4>3
    <3> QED BY <3>5, <3>6
  <2>5. ASSUME NEW next \in {p, "none"}, AsksList(p, gone, next)
        PROVE  GitComes(q)' /\ DockerComes(q)'
    <3> USE DEF AsksList
    <3>1. ids'.projects = ids.projects + 1 /\ ids'.status = ids.status
      BY <2>5, CountersTurn
    <3>2. ListComing'
      BY <2>5, <3>1, CardKinds2 DEF ListComing
    <3>3. GitComes(q)'
      BY <3>2 DEF GitComes
    <3>4. StatusComing(q) => StatusComing(q)'
      BY <1>5, <3>1 DEF StatusComing
    <3>5. \A l \in load' : l.kind = "status" => l \in load
      BY <2>5, CardKinds2
    <3>6. wanted'.docker[q] = wanted.docker[q] \/ FollowUp(q)'
      BY <2>5, CardKinds2 DEF FollowUp
    <3>7. CASE wanted'.docker[q] = wanted.docker[q]
      <4>1. DockerComes(q)'
        BY <2>1, <2>3, <3>1, <3>4, <3>5, <3>7 DEF DockerComes
      <4> QED BY <3>3, <4>1
    <3>8. CASE FollowUp(q)'
      BY <3>3, <3>8 DEF DockerComes
    <3> QED BY <3>6, <3>7, <3>8
  <2> QED BY <2>4, <2>5
<1> QED BY <1>4, <1>6

LEMMA StatusAsked ==
    ASSUME CardsInv, NEW p \in Cards, LoadStatus(p)
    PROVE  CardsInv'
<1>1. AsksStatus(p, {}, {}) /\ loads' = loads + 1
      /\ UNCHANGED <<world, page, wanted, overtaken, misses>>
  BY DEF LoadStatus, Sends, AsksStatus
<1>2. CardsShape'
  BY <1>1, AskedShape DEF CardsInv, CardsShape
<1> QED BY <1>1, <1>2, NewestAsked, SMTT(60)

LEMMA ListAsked ==
    ASSUME CardsInv, LoadProjects
    PROVE  CardsInv'
<1>1. /\ load' = load \cup {Catalog("none")} /\ loads' = loads + 1
      /\ ids' = [ids EXCEPT !.projects = @ + 1]
      /\ UNCHANGED <<world, page, wanted, overtaken, misses>>
  BY DEF LoadProjects, Sends
<1>2. /\ ids'.projects = ids.projects + 1 /\ ids'.metadata = ids.metadata /\ ids'.status = ids.status
      /\ ids' \in [projects : Nat, metadata : Nat, status : CardVersions]
  BY <1>1 DEF CardsInv, CardsShape
<1>3. /\ Catalog("none") \in CardRequests /\ Catalog("none").kind = "catalog"
      /\ Catalog("none").id = ids'.projects
  <2>1. Catalog("none") = [kind |-> "catalog", step |-> "sent", id |-> ids.projects + 1, next |-> "none"]
    BY DEF Catalog
  <2> QED BY <1>2, <2>1 DEF CardRequests, CardsInv, CardsShape
<1>4. CardsShape'
  BY <1>1, <1>2, <1>3 DEF CardsInv, CardsShape
<1>5. \A l \in load' : l \in load \/ l.kind = "catalog"
  BY <1>1, <1>3
<1>6. CardIdsInv'
  BY <1>2, <1>5 DEF CardsInv, CardIdsInv
<1>7. ListComing'
  BY <1>1, <1>3 DEF ListComing
<1>8. ASSUME NEW p \in Cards, misses = 0 PROVE GitComes(p)' /\ DockerComes(p)'
  <2>1. GitComes(p)'
    BY <1>7 DEF GitComes
  <2>2. DockerComes(p) /\ (FollowUp(p) => FollowUp(p)') /\ (StatusComing(p) => StatusComing(p)')
    BY <1>1, <1>2, <1>8 DEF CardsInv, FollowUp, StatusComing
  <2>3. DockerComes(p)'
    BY <1>1, <1>2, <1>5, <2>2 DEF DockerComes
  <2> QED BY <2>1, <2>3
<1> QED BY <1>1, <1>4, <1>6, <1>8 DEF CardsInv

LEMMA OneOpened ==
    ASSUME CardsInv, NEW l \in load, OpenAnswered(l)
    PROVE  CardsInv'
<1>1. l \in CardRequests /\ l.kind = "select" /\ l.slug \in Cards
  BY CardKinds DEF CardsInv, CardsShape, OpenAnswered
<1>2. PICK p \in Cards : p = l.slug
  BY <1>1
<1>3. /\ page' = [page EXCEPT !.open = p] /\ AsksStatus(p, {l}, {Overview(p)})
      /\ UNCHANGED <<world, wanted, overtaken, loads, misses>>
  BY <1>2 DEF OpenAnswered, AsksStatus
<1>4. /\ page' \in [docker : CardVersions, git : CardVersions, overview : CardVersions, open : Cards \cup {"none"}]
      /\ page'.git = page.git /\ page'.docker = page.docker
  BY <1>3 DEF CardsInv, CardsShape
<1>5. CardsShape'
  BY <1>3, <1>4, AskedShape DEF CardsInv, CardsShape
<1> QED BY <1>1, <1>3, <1>4, <1>5, NewestAsked

(* What the user's action made is wanted from now on. *)
LEMMA WantedTurns ==
    ASSUME CardsShape, NEW p \in Cards
    PROVE  /\ LET w == [wanted EXCEPT !.docker[p] = world.docker[p]] IN
              /\ w \in [docker : CardVersions, git : CardVersions] /\ w.git = wanted.git
              /\ w.docker[p] = world.docker[p] /\ \A q \in Cards \ {p} : w.docker[q] = wanted.docker[q]
           /\ LET w == [wanted EXCEPT !.git[p] = world.tree[p]] IN
              /\ w \in [docker : CardVersions, git : CardVersions] /\ w.docker = wanted.docker
              /\ w.git[p] = world.tree[p] /\ \A q \in Cards \ {p} : w.git[q] = wanted.git[q]
<1> DEFINE d == [wanted.docker EXCEPT ![p] = world.docker[p]]
           g == [wanted.git EXCEPT ![p] = world.tree[p]]
<1>1. wanted \in [docker : CardVersions, git : CardVersions] /\ world \in [docker : CardVersions, tree : CardVersions]
  BY DEF CardsShape
<1>2. /\ d \in CardVersions /\ d[p] = world.docker[p] /\ \A q \in Cards \ {p} : d[q] = wanted.docker[q]
      /\ g \in CardVersions /\ g[p] = world.tree[p] /\ \A q \in Cards \ {p} : g[q] = wanted.git[q]
  BY <1>1 DEF CardVersions
<1>3. /\ [wanted EXCEPT !.docker[p] = world.docker[p]] = [wanted EXCEPT !.docker = d]
      /\ [wanted EXCEPT !.git[p] = world.tree[p]] = [wanted EXCEPT !.git = g]
  OBVIOUS
<1> HIDE DEF d, g
<1>4. /\ [wanted EXCEPT !.docker = d] \in [docker : CardVersions, git : CardVersions]
      /\ [wanted EXCEPT !.docker = d].docker = d /\ [wanted EXCEPT !.docker = d].git = wanted.git
  BY <1>1, <1>2
<1>5. /\ [wanted EXCEPT !.git = g] \in [docker : CardVersions, git : CardVersions]
      /\ [wanted EXCEPT !.git = g].git = g /\ [wanted EXCEPT !.git = g].docker = wanted.docker
  BY <1>1, <1>2
<1> QED BY <1>2, <1>3, <1>4, <1>5

LEMMA ActionDone ==
    ASSUME CardsInv, NEW l \in load, ActionAnswered(l)
    PROVE  CardsInv'
<1>1. l \in CardRequests /\ l.kind = "action" /\ l.slug \in Cards
  BY CardKinds DEF CardsInv, CardsShape, ActionAnswered
<1>2. PICK p \in Cards : p = l.slug
  BY <1>1
<1>3. /\ wanted' = [wanted EXCEPT !.docker[p] = world.docker[p]]
      /\ UNCHANGED <<world, page, overtaken, loads, misses>>
      /\ AsksStatus(p, {l}, {}) \/ AsksList(p, {l}, p)
  <2>1. wanted' = [wanted EXCEPT !.docker[p] = world.docker[p]] /\ UNCHANGED <<world, page, overtaken, loads, misses>>
    BY <1>2 DEF ActionAnswered
  <2>2. wanted'.git = wanted.git
    BY <2>1, WantedTurns DEF CardsInv
  <2> QED BY <1>2, <2>1, <2>2 DEF ActionAnswered, TurnsInto, AsksStatus, AsksList
<1>4. /\ wanted' \in [docker : CardVersions, git : CardVersions] /\ wanted'.git = wanted.git
      /\ wanted'.docker[p] = world.docker[p] /\ \A q \in Cards \ {p} : wanted'.docker[q] = wanted.docker[q]
  BY <1>3, WantedTurns DEF CardsInv
<1>5. /\ ids' \in [projects : Nat, metadata : Nat, status : CardVersions]
      /\ load' \subseteq CardRequests
  BY <1>3, AskedShape DEF CardsInv
<1>6. \A q \in Cards : world.docker[q] \in Nat
  BY DEF CardsInv, CardsShape, CardVersions
<1>7. CardsShape'
  <2>1. \A q \in Cards : wanted'.docker[q] <= world'.docker[q] /\ wanted'.git[q] <= world'.tree[q]
    <3> TAKE q \in Cards
    <3>1. world' = world /\ wanted.docker[q] <= world.docker[q] /\ wanted.git[q] <= world.tree[q]
      BY <1>3 DEF CardsInv, CardsShape
    <3> QED BY <1>4, <1>6, <3>1
  <2>2. CardsShape /\ UNCHANGED <<world, page, overtaken, loads, misses>>
    BY <1>3 DEF CardsInv
  <2> QED BY <1>4, <1>5, <2>1, <2>2 DEF CardsShape
<1>8. CASE AsksStatus(p, {l}, {})
  <2>1. /\ {l} \subseteq load /\ {} \subseteq {Overview(p)}
        /\ \A o \in {l} : o.kind \notin {"catalog", "metadata", "status"}
        /\ UNCHANGED <<page, overtaken, misses>>
    BY <1>1, <1>3
  <2> QED BY <1>4, <1>7, <1>8, <2>1, NewestAsked
<1>9. CASE AsksList(p, {l}, p)
  <2>1. /\ {l} \subseteq load /\ {} \subseteq {Overview(p)}
        /\ \A o \in {l} : o.kind \notin {"catalog", "metadata", "status"}
        /\ UNCHANGED <<page, overtaken, misses>>
        /\ AsksStatus(p, {l}, {}) \/ \E next \in {p, "none"} : AsksList(p, {l}, next)
    BY <1>1, <1>3, <1>9
  <2> QED BY <1>4, <1>7, <2>1, NewestAsked
<1> QED BY <1>3, <1>8, <1>9

LEMMA GitDone ==
    ASSUME CardsInv, NEW l \in load, GitAnswered(l)
    PROVE  CardsInv'
<1>1. l \in CardRequests /\ l.kind = "mutation" /\ l.slug \in Cards
  BY CardKinds DEF CardsInv, CardsShape, GitAnswered
<1>2. PICK p \in Cards : p = l.slug
  BY <1>1
<1>3. /\ wanted' = [wanted EXCEPT !.git[p] = world.tree[p]]
      /\ page' = [page EXCEPT !.overview[p] = world.tree[p]]
      /\ UNCHANGED <<world, overtaken, loads, misses>>
      /\ AsksList(p, {l}, "none")
  <2>1. wanted' = [wanted EXCEPT !.git[p] = world.tree[p]] /\ UNCHANGED <<world, overtaken, loads, misses>>
    BY <1>2 DEF GitAnswered
  <2>2. wanted'.docker = wanted.docker
    BY <2>1, WantedTurns DEF CardsInv
  <2> QED BY <1>2, <2>1, <2>2 DEF GitAnswered, TurnsInto, AsksList
<1>4. /\ wanted' \in [docker : CardVersions, git : CardVersions] /\ wanted'.docker = wanted.docker
      /\ wanted'.git[p] = world.tree[p] /\ \A q \in Cards \ {p} : wanted'.git[q] = wanted.git[q]
  BY <1>3, WantedTurns DEF CardsInv
<1>5. /\ ids' \in [projects : Nat, metadata : Nat, status : CardVersions]
      /\ load' \subseteq CardRequests
  BY <1>3, AskedShape DEF CardsInv
<1>6. \A q \in Cards : world.tree[q] \in Nat
  BY DEF CardsInv, CardsShape, CardVersions
<1>7. /\ page' \in [docker : CardVersions, git : CardVersions, overview : CardVersions, open : Cards \cup {"none"}]
      /\ page'.git = page.git /\ page'.docker = page.docker
  <2> DEFINE o == [page.overview EXCEPT ![p] = world.tree[p]]
  <2>1. o \in CardVersions /\ page' = [page EXCEPT !.overview = o]
    BY <1>3, <1>6 DEF CardsInv, CardsShape, CardVersions
  <2> HIDE DEF o
  <2> QED BY <2>1 DEF CardsInv, CardsShape
<1>8. CardsShape'
  <2>1. \A q \in Cards : wanted'.docker[q] <= world'.docker[q] /\ wanted'.git[q] <= world'.tree[q]
    <3> TAKE q \in Cards
    <3>1. world' = world /\ wanted.docker[q] <= world.docker[q] /\ wanted.git[q] <= world.tree[q]
      BY <1>3 DEF CardsInv, CardsShape
    <3> QED BY <1>4, <1>6, <3>1
  <2>2. CardsShape /\ UNCHANGED <<world, overtaken, loads, misses>>
    BY <1>3 DEF CardsInv
  <2> QED BY <1>4, <1>5, <1>7, <2>1, <2>2 DEF CardsShape
<1>9. /\ {l} \subseteq load /\ {} \subseteq {Overview(p)}
      /\ \A o \in {l} : o.kind \notin {"catalog", "metadata", "status"}
      /\ UNCHANGED <<overtaken, misses>> /\ page'.git = page.git /\ page'.docker = page.docker
      /\ AsksStatus(p, {l}, {}) \/ \E next \in {p, "none"} : AsksList(p, {l}, next)
      /\ \A q \in Cards : q # p => wanted'.docker[q] = wanted.docker[q] /\ wanted'.git[q] = wanted.git[q]
  BY <1>1, <1>3, <1>4, <1>7
<1> QED BY <1>8, <1>9, NewestAsked

-----------------------------------------------------------------------------
(* Answers *)

(* Requests of the newest kind: what an answer takes away and adds. *)
LEMMA ListLands ==
    ASSUME CardsInv, NEW l \in load, CatalogLands(l) \/ CatalogFails(l)
    PROVE  CardsInv'
<1> DEFINE p == l.next
           meta == [kind |-> "metadata", step |-> "sent", id |-> ids.metadata + 1]
<1>1. l \in CardRequests /\ l.kind = "catalog" /\ l.id \in Nat /\ l.next \in Cards \cup {"none"}
  BY CardKinds DEF CardsInv, CardsShape, CatalogLands, CatalogFails
<1>2. \A q \in Cards : ids.status[q] \in Nat
  BY DEF CardsInv, CardsShape, CardVersions
<1>3. ids.metadata \in Nat /\ ids.projects \in Nat /\ misses \in Nat
  BY DEF CardsInv, CardsShape
<1>4. meta \in CardRequests /\ meta.kind = "metadata" /\ meta.step = "sent" /\ meta.id = ids.metadata + 1
  BY <1>3 DEF CardRequests
<1> DEFINE more == IF CatalogLands(l) /\ l.id = ids.projects THEN {meta} ELSE {}
           own == IF p \in Cards THEN {Status(p)} ELSE {}
<1>5. /\ load' = (load \ {l}) \cup more \cup own
      /\ ids'.metadata = ids.metadata + (IF more = {} THEN 0 ELSE 1) /\ ids'.projects = ids.projects
      /\ ids' \in [projects : Nat, metadata : Nat, status : CardVersions]
      /\ \A q \in Cards : ids'.status[q] = ids.status[q] + (IF q = p THEN 1 ELSE 0)
  <2>1. "none" \notin Cards
    BY CardNames
  <2>2. ids \in [projects : Nat, metadata : Nat, status : CardVersions]
    BY DEF CardsInv, CardsShape
  <2>3. CASE CatalogLands(l) /\ p = "none" /\ l.id = ids.projects
    <3>1. load' = (load \ {l}) \cup {meta} /\ ids' = [ids EXCEPT !.metadata = @ + 1]
      BY <2>1, <2>3 DEF CatalogLands, TurnsInto
    <3>2. more = {meta} /\ own = {}
      BY <2>1, <2>3
    <3>3. /\ ids' \in [projects : Nat, metadata : Nat, status : CardVersions]
          /\ ids'.projects = ids.projects /\ ids'.metadata = ids.metadata + 1 /\ ids'.status = ids.status
      BY <2>2, <3>1
    <3>4. p \notin Cards
      BY <2>1, <2>3
    <3> HIDE DEF p, meta, more, own
    <3> QED BY <1>2, <1>3, <3>1, <3>2, <3>3, <3>4
  <2>4. CASE p = "none" /\ ~(CatalogLands(l) /\ l.id = ids.projects)
    <3>1. load' = load \ {l} /\ ids' = ids
      BY <2>1, <2>4 DEF CatalogLands, CatalogFails, Over
    <3> QED BY <1>2, <1>3, <2>1, <2>2, <2>4, <3>1
  <2>5. CASE p # "none" /\ ~(CatalogLands(l) /\ l.id = ids.projects)
    <3>1. load' = (load \ {l}) \cup {Status(p)} /\ ids' = [ids EXCEPT !.status[p] = @ + 1]
      BY <2>5 DEF CatalogLands, CatalogFails, TurnsInto
    <3>2. p \in Cards
      BY <1>1, <2>5
    <3>3. /\ ids' \in [projects : Nat, metadata : Nat, status : CardVersions]
          /\ ids'.projects = ids.projects /\ ids'.metadata = ids.metadata
          /\ ids'.status[p] = ids.status[p] + 1 /\ \A q \in Cards \ {p} : ids'.status[q] = ids.status[q]
      BY <3>1, <3>2, CountersTurn DEF CardsInv
    <3> HIDE DEF p
    <3> QED BY <1>2, <1>3, <2>5, <3>1, <3>2, <3>3
  <2>6. CASE CatalogLands(l) /\ p # "none" /\ l.id = ids.projects
    <3>1. /\ load' = (load \ {l}) \cup {meta, Status(p)}
          /\ ids' = [ids EXCEPT !.metadata = @ + 1, !.status[p] = @ + 1]
      BY <2>6 DEF CatalogLands
    <3>2. p \in Cards
      BY <1>1, <2>6
    <3>3. /\ ids' \in [projects : Nat, metadata : Nat, status : CardVersions]
          /\ ids'.projects = ids.projects /\ ids'.metadata = ids.metadata + 1
          /\ ids'.status[p] = ids.status[p] + 1 /\ \A q \in Cards \ {p} : ids'.status[q] = ids.status[q]
      BY <3>1, <3>2, CountersTurn DEF CardsInv
    <3>4. more = {meta} /\ own = {Status(p)}
      BY <2>6, <3>2
    <3> HIDE DEF p, meta, more, own
    <3> QED BY <1>2, <1>3, <3>1, <3>3, <3>4
  <2> QED BY <2>3, <2>4, <2>5, <2>6
<1>6. /\ UNCHANGED <<world, page, wanted, overtaken, loads>>
      /\ misses' \in Nat /\ (misses' = misses \/ (misses' = misses + 1 /\ more = {}))
  BY <1>3 DEF CatalogLands, CatalogFails, Misses
<1>7. /\ more \subseteq {meta} /\ own \subseteq CardRequests
      /\ \A o \in own : p \in Cards /\ o = Status(p) /\ o.kind = "status" /\ o.slug = p /\ o.id = ids'.status[p] /\ o.step = "sent"
      /\ p \in Cards => Status(p) \in own
  BY <1>2, <1>5, CardKinds2 DEF CardsInv
<1>8. misses' = 0 /\ l.id = ids.projects => meta \in more
  BY <1>3, <1>6 DEF CatalogLands, CatalogFails, Misses
<1> HIDE DEF more, own, meta, p
<1>9. CardsShape'
  BY <1>4, <1>5, <1>6, <1>7 DEF CardsInv, CardsShape
<1>10. CardIdsInv'
  <2>1. \A o \in load' : o \in load \/ /\ o.kind = "metadata" => o.id <= ids'.metadata
                                       /\ o.kind = "status" => o.id <= ids'.status[o.slug]
    <3> SUFFICES ASSUME NEW o \in load', o \notin load
                 PROVE  (o.kind = "metadata" => o.id <= ids'.metadata) /\ (o.kind = "status" => o.id <= ids'.status[o.slug])
      OBVIOUS
    <3>1. CASE o \in own
      BY <1>5, <1>7, <3>1 DEF CardVersions
    <3>2. CASE o = meta /\ o \in more
      BY <1>3, <1>4, <1>5, <3>2
    <3> QED BY <1>5, <1>7, <3>1, <3>2
  <2>2. ids'.metadata >= ids.metadata /\ \A q \in Cards : ids'.status[q] >= ids.status[q]
    BY <1>2, <1>3, <1>5
  <2> QED BY <1>9, <2>1, <2>2, CountersBound
<1>11. ASSUME NEW q \in Cards, misses' = 0 PROVE GitComes(q)' /\ DockerComes(q)'
  <2>1. GitComes(q) /\ DockerComes(q) /\ misses' = misses
    BY <1>3, <1>6, <1>11 DEF CardsInv
  <2>2. GitComes(q)'
    <3>1. CASE l.id = ids.projects
      <4>1. ids'.metadata = ids.metadata + 1 /\ meta \in load'
        BY <1>5, <1>8, <1>11, <3>1
      <4>2. MetadataComing'
        BY <1>4, <4>1 DEF MetadataComing
      <4>3. \A o \in load' : ~(o.kind = "metadata" /\ o.step = "read" /\ o.id = ids'.metadata)
        BY <1>3, <1>4, <1>5, <1>7, <4>1 DEF CardsInv, CardIdsInv
      <4> QED BY <4>2, <4>3 DEF GitComes
    <3>2. CASE l.id # ids.projects
      <4>1. ListComing => ListComing'
        BY <1>5, <3>2 DEF ListComing
      <4>2. CASE more = {}
        <5>1. ids'.metadata = ids.metadata
          BY <1>3, <1>5, <4>2
        <5>2. MetadataComing => MetadataComing'
          BY <1>1, <1>5, <5>1 DEF MetadataComing
        <5>3. \A o \in load' : o.kind = "metadata" => o \in load
          BY <1>5, <1>7, <4>2
        <5> QED BY <1>6, <2>1, <4>1, <5>1, <5>2, <5>3 DEF GitComes
      <4>3. CASE more # {}
        BY <3>2, <4>3 DEF more
      <4> QED BY <4>2, <4>3
    <3> QED BY <3>1, <3>2
  <2>3. DockerComes(q)'
    <3>1. CASE q = p
      <4>1. StatusComing(q)'
        BY <1>5, <1>7, <3>1 DEF StatusComing
      <4>2. \A o \in load' : o.kind = "status" /\ o.slug = q /\ o.id = ids'.status[q] => o.step = "sent"
        <5> SUFFICES ASSUME NEW o \in load', o.kind = "status", o.slug = q, o.id = ids'.status[q]
                     PROVE  o.step = "sent"
          OBVIOUS
        <5>1. ids'.status[q] = ids.status[q] + 1
          BY <1>5, <3>1
        <5>2. o \notin load
          <6>1. o \in load => o.id <= ids.status[q]
            BY DEF CardsInv, CardIdsInv
          <6> QED BY <1>2, <5>1, <6>1
        <5> QED BY <1>4, <1>5, <1>7, <5>2
      <4> QED BY <4>1, <4>2 DEF DockerComes
    <3>2. CASE q # p
      <4>1. ids'.status[q] = ids.status[q]
        BY <1>2, <1>5, <3>2
      <4>2. FollowUp(q) => FollowUp(q)'
        BY <1>5, <3>2 DEF FollowUp, p
      <4>3. StatusComing(q) => StatusComing(q)'
        BY <1>1, <1>5, <4>1 DEF StatusComing
      <4>4. \A o \in load' : o.kind = "status" /\ o.slug = q => o \in load
        BY <1>4, <1>5, <1>7, <3>2
      <4> QED BY <1>6, <2>1, <4>1, <4>2, <4>3, <4>4 DEF DockerComes
    <3> QED BY <3>1, <3>2
  <2> QED BY <2>2, <2>3
<1> QED BY <1>9, <1>10, <1>11 DEF CardsInv

LEMMA RequestFailed ==
    ASSUME CardsInv, NEW l \in load, CardRequestFails(l)
    PROVE  CardsInv'
<1>1. /\ load' = load \ {l} /\ misses' = misses + 1
      /\ UNCHANGED <<world, page, ids, wanted, overtaken, loads>>
  BY DEF CardRequestFails, Over, Misses
<1>2. CardsShape'
  BY <1>1 DEF CardsInv, CardsShape
<1>3. CardIdsInv'
  BY <1>1 DEF CardsInv, CardIdsInv
<1> QED BY <1>1, <1>2, <1>3, FailedCards

LEMMA MetadataIsRead ==
    ASSUME CardsInv, NEW l \in load, MetadataReads(l)
    PROVE  CardsInv'
<1>1. PICK lost \in SUBSET Cards :
        /\ IF lost = {} THEN UNCHANGED misses ELSE Cardinality(lost) = 1 /\ Misses
        /\ LET read(part) == [p \in Cards |-> IF p \in lost THEN 0 ELSE world[part][p]] IN
            \/ /\ l.step = "sent"
               /\ TurnsInto(l, [kind |-> "metadata", step |-> "statuses", id |-> l.id,
                              docker |-> read("docker")])
            \/ /\ l.step = "statuses"
               /\ TurnsInto(l, [kind |-> "metadata", step |-> "read", id |-> l.id,
                              docker |-> l.docker, git |-> read("tree")])
  BY DEF MetadataReads
<1>2. UNCHANGED <<world, page, ids, wanted, overtaken, loads>> /\ l.kind = "metadata"
  BY DEF MetadataReads
<1> DEFINE d == [p \in Cards |-> IF p \in lost THEN 0 ELSE world.docker[p]]
           t == [p \in Cards |-> IF p \in lost THEN 0 ELSE world.tree[p]]
           r == [kind |-> "metadata", step |-> "statuses", id |-> l.id, docker |-> d]
           s == [kind |-> "metadata", step |-> "read", id |-> l.id, docker |-> l.docker, git |-> t]
<1>3. d \in CardVersions /\ t \in CardVersions /\ \A p \in Cards \ lost : t[p] = world.tree[p]
  BY DEF CardsInv, CardsShape, CardVersions
<1>4. l \in CardRequests /\ l.id \in Nat /\ l.step \in {"sent", "statuses", "read"}
      /\ (l.step = "statuses" => l.docker \in CardVersions)
  BY <1>2, CardKinds DEF CardsInv, CardsShape
<1>5. PICK n : /\ load' = (load \ {l}) \cup {n} /\ n \in CardRequests /\ n.kind = "metadata" /\ n.id = l.id
               /\ n.step = "read" => n.git = t
  <2>1. CASE l.step = "sent" /\ load' = (load \ {l}) \cup {r}
    <3>1. r \in CardRequests /\ r.kind = "metadata" /\ r.id = l.id /\ r.step # "read"
      <4> HIDE DEF d
      <4> QED BY <1>3, <1>4 DEF CardRequests
    <3> HIDE DEF r
    <3> QED BY <2>1, <3>1
  <2>2. CASE l.step = "statuses" /\ load' = (load \ {l}) \cup {s}
    <3>1. s \in CardRequests /\ s.kind = "metadata" /\ s.id = l.id /\ s.git = t
      <4> HIDE DEF t
      <4> QED BY <1>3, <1>4, <2>2 DEF CardRequests
    <3> HIDE DEF s
    <3> QED BY <2>2, <3>1
  <2> QED BY <1>1, <2>1, <2>2 DEF TurnsInto
<1> HIDE DEF d, t, r, s
<1>6. misses' \in Nat /\ misses' >= misses /\ (misses' = 0 => misses = 0 /\ lost = {})
  BY <1>1 DEF Misses, CardsInv, CardsShape
<1>7. CardsShape'
  BY <1>2, <1>5, <1>6 DEF CardsInv, CardsShape
<1>8. CardIdsInv'
  BY <1>2, <1>5 DEF CardsInv, CardIdsInv
<1>9. ASSUME NEW p \in Cards, misses' = 0 PROVE GitComes(p)' /\ DockerComes(p)'
  <2>1. GitComes(p) /\ DockerComes(p)
    BY <1>6, <1>9 DEF CardsInv
  <2>2. /\ ListComing => ListComing'
        /\ FollowUp(p) => FollowUp(p)'
        /\ StatusComing(p) => StatusComing(p)'
        /\ MetadataComing => MetadataComing'
    BY <1>2, <1>5 DEF ListComing, FollowUp, StatusComing, MetadataComing
  <2>3. \A o \in load' : o.kind = "status" => o \in load
    BY <1>5
  <2>4. DockerComes(p)'
    BY <1>2, <2>1, <2>2, <2>3 DEF DockerComes
  <2>5. t[p] = world.tree[p] /\ wanted.git[p] <= world.tree[p]
    BY <1>3, <1>6, <1>9 DEF CardsInv, CardsShape
  <2>6. wanted.git[p] \in Nat /\ world.tree[p] \in Nat
    BY DEF CardsInv, CardsShape, CardVersions
  <2>7. \A o \in load' : o.kind = "metadata" /\ o.step = "read" /\ o.git[p] < wanted.git[p] => o \in load
    BY <1>5, <2>5, <2>6
  <2>8. GitComes(p)'
    BY <1>2, <2>1, <2>2, <2>7 DEF GitComes
  <2> QED BY <2>4, <2>8
<1> QED BY <1>7, <1>8, <1>9 DEF CardsInv

LEMMA MetadataShown ==
    ASSUME CardsInv, NEW l \in load, MetadataLands(l)
    PROVE  CardsInv'
<1>1. /\ l.kind = "metadata" /\ l.step = "read" /\ load' = load \ {l}
      /\ UNCHANGED <<world, ids, wanted, loads, misses>>
  BY DEF MetadataLands, Over
<1>2. l \in CardRequests /\ l.docker \in CardVersions /\ l.git \in CardVersions
  BY <1>1, CardKinds DEF CardsInv, CardsShape
<1> DEFINE o == [p \in Cards |-> l.docker[p] < page.docker[p] \/ (overtaken[p] /\ l.docker[p] < wanted.docker[p])]
<1>3. o \in [Cards -> BOOLEAN] /\ \A p \in Cards : o[p] = (l.docker[p] < page.docker[p] \/ (overtaken[p] /\ l.docker[p] < wanted.docker[p]))
  OBVIOUS
<1>4. \/ l.id = ids.metadata /\ page' = [page EXCEPT !.docker = l.docker, !.git = l.git] /\ overtaken' = o
      \/ l.id # ids.metadata /\ UNCHANGED <<page, overtaken>>
  BY DEF MetadataLands, NewestMetadata
<1> HIDE DEF o
<1>5. page \in [docker : CardVersions, git : CardVersions, overview : CardVersions, open : Cards \cup {"none"}]
  BY DEF CardsInv, CardsShape
<1>6. l.id = ids.metadata => page'.docker = l.docker /\ page'.git = l.git /\ overtaken' = o
  BY <1>4, <1>5
<1>7. /\ page' \in [docker : CardVersions, git : CardVersions, overview : CardVersions, open : Cards \cup {"none"}]
      /\ overtaken' \in [Cards -> BOOLEAN]
  BY <1>2, <1>3, <1>4, <1>5 DEF CardsInv, CardsShape
<1>8. CardsShape'
  BY <1>1, <1>7 DEF CardsInv, CardsShape
<1>9. CardIdsInv'
  BY <1>1 DEF CardsInv, CardIdsInv
<1>10. ASSUME NEW p \in Cards, misses = 0 PROVE GitComes(p)' /\ DockerComes(p)'
  <2>1. GitComes(p) /\ DockerComes(p)
    BY <1>10 DEF CardsInv
  <2>2. /\ ListComing => ListComing'
        /\ FollowUp(p) => FollowUp(p)'
        /\ StatusComing(p) => StatusComing(p)'
        /\ l.id # ids.metadata /\ MetadataComing => MetadataComing'
    BY <1>1 DEF ListComing, FollowUp, StatusComing, MetadataComing
  <2>3. CASE l.id # ids.metadata
    <3>1. UNCHANGED <<page, overtaken>>
      BY <1>4, <2>3
    <3>2. GitComes(p)'
      BY <1>1, <2>1, <2>2, <2>3, <3>1 DEF GitComes
    <3>3. DockerComes(p)'
      BY <1>1, <2>1, <2>2, <3>1 DEF DockerComes
    <3> QED BY <3>2, <3>3
  <2>4. CASE l.id = ids.metadata
    <3>1. page'.git[p] < wanted'.git[p] => ListComing'
      BY <1>1, <1>6, <2>1, <2>2, <2>4 DEF GitComes
    <3>2. GitComes(p)'
      BY <1>1, <2>1, <2>2, <3>1 DEF GitComes
    <3>3. l.docker[p] \in Nat /\ page.docker[p] \in Nat /\ wanted.docker[p] \in Nat
      BY <1>2 DEF CardsInv, CardsShape, CardVersions
    <3>4. page'.docker[p] < wanted'.docker[p] /\ ~overtaken'[p] => page.docker[p] < wanted.docker[p] /\ ~overtaken[p]
      <4>1. page'.docker[p] = l.docker[p] /\ wanted'.docker[p] = wanted.docker[p] /\ overtaken'[p] = o[p]
        BY <1>1, <1>6, <2>4
      <4>2. o[p] = (l.docker[p] < page.docker[p] \/ (overtaken[p] /\ l.docker[p] < wanted.docker[p]))
        BY <1>3
      <4>3. ~o[p] => ~(l.docker[p] < page.docker[p]) /\ ~(overtaken[p] /\ l.docker[p] < wanted.docker[p])
        BY <4>2, Zenon
      <4> QED BY <3>3, <4>1, <4>3
    <3>5. DockerComes(p)'
      BY <1>1, <2>1, <2>2, <3>4 DEF DockerComes
    <3> QED BY <3>2, <3>5
  <2> QED BY <2>3, <2>4
<1>11. misses' = misses
  BY <1>1
<1> QED BY <1>8, <1>9, <1>10, <1>11 DEF CardsInv

LEMMA ServerAnswers ==
    ASSUME CardsInv, NEW l \in load, Answers(l)
    PROVE  CardsInv'
<1> DEFINE part == IF l.kind = "status" THEN "docker" ELSE "tree"
           n == [l EXCEPT !.step = "read", !.value = world[part][l.slug]]
<1>1. /\ l.kind \in {"status", "overview"} /\ load' = (load \ {l}) \cup {n}
      /\ UNCHANGED <<world, page, ids, wanted, overtaken, loads, misses>>
  BY DEF Answers, TurnsInto
<1>2. l \in CardRequests /\ l.id \in Nat /\ l.slug \in Cards
  BY <1>1, CardKinds DEF CardsInv, CardsShape
<1>3. l \in [kind : {"status", "overview"}, step : {"sent", "read"}, id : Nat, slug : Cards, value : Nat]
  BY <1>1, <1>2 DEF CardRequests
<1>4. world[part][l.slug] \in Nat /\ (l.kind = "status" => world[part][l.slug] = world.docker[l.slug])
  BY <1>2 DEF CardsInv, CardsShape, CardVersions
<1> HIDE DEF part
<1>5. /\ n \in CardRequests /\ n.kind = l.kind /\ n.slug = l.slug /\ n.id = l.id
      /\ n.value = world[part][l.slug]
  <2>1. /\ n \in [kind : {"status", "overview"}, step : {"sent", "read"}, id : Nat, slug : Cards, value : Nat]
        /\ n.kind = l.kind /\ n.slug = l.slug /\ n.id = l.id /\ n.value = world[part][l.slug]
    BY <1>3, <1>4
  <2> HIDE DEF n
  <2> QED BY <2>1 DEF CardRequests
<1> HIDE DEF n
<1>6. CardsShape'
  BY <1>1, <1>5 DEF CardsInv, CardsShape
<1>7. CardIdsInv'
  BY <1>1, <1>5 DEF CardsInv, CardIdsInv
<1>8. ASSUME NEW p \in Cards, misses = 0 PROVE GitComes(p)' /\ DockerComes(p)'
  <2>1. GitComes(p) /\ DockerComes(p)
    BY <1>8 DEF CardsInv
  <2>2. /\ ListComing => ListComing'
        /\ FollowUp(p) => FollowUp(p)'
        /\ StatusComing(p) => StatusComing(p)'
        /\ MetadataComing => MetadataComing'
    BY <1>1, <1>5 DEF ListComing, FollowUp, StatusComing, MetadataComing
  <2>3. \A o \in load' : o.kind = "metadata" => o \in load
    BY <1>1, <1>5
  <2>4. GitComes(p)'
    BY <1>1, <2>1, <2>2, <2>3 DEF GitComes
  <2>5. wanted.docker[p] <= world.docker[p] /\ wanted.docker[p] \in Nat /\ world.docker[p] \in Nat
    BY DEF CardsInv, CardsShape, CardVersions
  <2>6. \A o \in load' : o.kind = "status" /\ o.slug = p /\ o.value < wanted.docker[p] => o \in load
    BY <1>1, <1>4, <1>5, <2>5
  <2>7. DockerComes(p)'
    BY <1>1, <2>1, <2>2, <2>6 DEF DockerComes
  <2> QED BY <2>4, <2>7
<1>9. misses' = misses
  BY <1>1
<1> QED BY <1>6, <1>7, <1>8, <1>9 DEF CardsInv

LEMMA StatusShown ==
    ASSUME CardsInv, NEW l \in load, StatusLands(l)
    PROVE  CardsInv'
<1>1. /\ l.kind = "status" /\ l.step = "read" /\ load' = load \ {l}
      /\ UNCHANGED <<world, ids, wanted, loads, misses>>
  BY DEF StatusLands, Over
<1>2. l \in CardRequests /\ l.slug \in Cards /\ l.value \in Nat
  BY <1>1, CardKinds DEF CardsInv, CardsShape
<1>3. PICK s \in Cards : s = l.slug
  BY <1>2
<1> DEFINE d == [page.docker EXCEPT ![s] = l.value]
<1>4. page \in [docker : CardVersions, git : CardVersions, overview : CardVersions, open : Cards \cup {"none"}]
  BY DEF CardsInv, CardsShape
<1>5. d \in CardVersions /\ d[s] = l.value /\ \A q \in Cards \ {s} : d[q] = page.docker[q]
  BY <1>2, <1>4 DEF CardVersions
<1>6. \/ l.id = ids.status[s] /\ page' = [page EXCEPT !.docker = d] /\ overtaken' = [overtaken EXCEPT ![s] = FALSE]
      \/ l.id # ids.status[s] /\ UNCHANGED <<page, overtaken>>
  BY <1>3 DEF StatusLands
<1> HIDE DEF d
<1>7. l.id = ids.status[s] => page'.docker = d /\ page'.git = page.git
  BY <1>4, <1>6
<1>8. /\ page' \in [docker : CardVersions, git : CardVersions, overview : CardVersions, open : Cards \cup {"none"}]
      /\ overtaken' \in [Cards -> BOOLEAN] /\ \A q \in Cards \ {s} : overtaken'[q] = overtaken[q]
  BY <1>4, <1>5, <1>6 DEF CardsInv, CardsShape
<1>9. CardsShape'
  BY <1>1, <1>8 DEF CardsInv, CardsShape
<1>10. CardIdsInv'
  BY <1>1 DEF CardsInv, CardIdsInv
<1>11. ASSUME NEW p \in Cards, misses = 0 PROVE GitComes(p)' /\ DockerComes(p)'
  <2>1. GitComes(p) /\ DockerComes(p)
    BY <1>11 DEF CardsInv
  <2>2. /\ ListComing => ListComing'
        /\ FollowUp(p) => FollowUp(p)'
        /\ MetadataComing => MetadataComing'
        /\ ~(p = s /\ l.id = ids.status[s]) /\ StatusComing(p) => StatusComing(p)'
    BY <1>1, <1>3 DEF ListComing, FollowUp, StatusComing, MetadataComing
  <2>3. page'.git = page.git
    BY <1>6, <1>7
  <2>4. GitComes(p)'
    BY <1>1, <2>1, <2>2, <2>3 DEF GitComes
  <2>5. CASE p = s /\ l.id = ids.status[s]
    <3>1. page'.docker[p] = l.value
      BY <1>5, <1>7, <2>5
    <3>2. l.value < wanted.docker[p] => FollowUp(p)
      BY <1>1, <1>3, <2>1, <2>5 DEF DockerComes
    <3> QED BY <1>1, <2>1, <2>2, <2>4, <3>1, <3>2 DEF DockerComes
  <2>6. CASE ~(p = s /\ l.id = ids.status[s])
    <3>1. page'.docker[p] = page.docker[p] /\ overtaken'[p] = overtaken[p]
      BY <1>5, <1>6, <1>7, <1>8, <2>6
    <3> QED BY <1>1, <2>1, <2>2, <2>4, <2>6, <3>1 DEF DockerComes
  <2> QED BY <2>5, <2>6
<1>12. misses' = misses
  BY <1>1
<1> QED BY <1>9, <1>10, <1>11, <1>12 DEF CardsInv

LEMMA OverviewIsPut ==
    ASSUME CardsInv, NEW l \in load, OverviewLands(l)
    PROVE  CardsInv'
<1>1. /\ l.kind = "overview" /\ load' = load \ {l} /\ page' = [page EXCEPT !.overview[l.slug] = l.value]
      /\ UNCHANGED <<world, ids, wanted, overtaken, loads, misses>>
  BY DEF OverviewLands, Over
<1>2. l \in CardRequests /\ l.slug \in Cards /\ l.value \in Nat
  BY <1>1, CardKinds DEF CardsInv, CardsShape
<1> DEFINE o == [page.overview EXCEPT ![l.slug] = l.value]
<1>3. o \in CardVersions /\ page' = [page EXCEPT !.overview = o]
  BY <1>1, <1>2 DEF CardsInv, CardsShape, CardVersions
<1> HIDE DEF o
<1>4. /\ page' \in [docker : CardVersions, git : CardVersions, overview : CardVersions, open : Cards \cup {"none"}]
      /\ page'.git = page.git /\ page'.docker = page.docker
  BY <1>3 DEF CardsInv, CardsShape
<1>5. CardsShape'
  BY <1>1, <1>4 DEF CardsInv, CardsShape
<1>6. misses' >= misses
  BY <1>1 DEF CardsInv, CardsShape
<1> QED BY <1>1, <1>4, <1>5, <1>6, QuietCards

LEMMA CommandRuns ==
    ASSUME CardsInv, NEW l \in load, Acts(l)
    PROVE  CardsInv'
<1> DEFINE n == [l EXCEPT !.step = "acted"]
           part == IF l.kind = "action" THEN "docker" ELSE "tree"
<1>1. /\ l.kind \in {"action", "mutation"} /\ load' = (load \ {l}) \cup {n}
      /\ Changes(part, l.slug) /\ part \in {"docker", "tree"}
      /\ UNCHANGED <<page, ids, wanted, overtaken, loads, misses>>
  BY DEF Acts, TurnsInto
<1>2. l \in CardRequests /\ l.slug \in Cards
  BY <1>1, CardKinds DEF CardsInv, CardsShape
<1>3. n \in CardRequests /\ n.kind = l.kind
  BY <1>1, <1>2 DEF CardRequests
<1> HIDE DEF n, part
<1>4. /\ world' \in [docker : CardVersions, tree : CardVersions]
      /\ \A q \in Cards : world'.docker[q] >= world.docker[q] /\ world'.tree[q] >= world.tree[q]
  BY <1>1, <1>2, ServerChanges DEF CardsInv
<1>5. CardsShape'
  BY <1>1, <1>3, <1>4 DEF CardsInv, CardsShape, CardVersions
<1>6. misses' >= misses
  BY <1>1 DEF CardsInv, CardsShape
<1> QED BY <1>1, <1>3, <1>5, <1>6, QuietCards

LEMMA CardsStep == ASSUME CardsInv, [CardsNext]_cards PROVE CardsInv'
<1>1. CASE LoadProjects
  BY <1>1, ListAsked
<1>2. ASSUME NEW p \in Cards,
             \/ WorldMoves(p) \/ LoadStatus(p) \/ LoadGitOverview(p) \/ OpenAsked(p) \/ GitAsked(p)
             \/ \E whole \in BOOLEAN : ActionAsked(p, whole)
      PROVE  CardsInv'
  BY <1>2, StatusAsked, UserAsks
<1>3. ASSUME NEW l \in load,
             \/ CatalogLands(l) \/ CatalogFails(l) \/ MetadataReads(l) \/ MetadataLands(l)
             \/ Answers(l) \/ StatusLands(l) \/ OverviewLands(l) \/ CardRequestFails(l)
             \/ OpenAnswered(l) \/ Acts(l) \/ ActionAnswered(l) \/ GitAnswered(l)
      PROVE  CardsInv'
  BY <1>3, ListLands, MetadataIsRead, MetadataShown, ServerAnswers, StatusShown, OverviewIsPut,
     RequestFailed, OneOpened, CommandRuns, ActionDone, GitDone
<1>4. CASE UNCHANGED cards
  BY <1>4 DEF CardsInv, CardsShape, CardIdsInv, GitComes, DockerComes, ListComing, MetadataComing, FollowUp,
     StatusComing, cards
<1> QED BY <1>1, <1>2, <1>3, <1>4 DEF CardsNext

LEMMA CardsFollowTruly == CardsInv => CardsFollow
<1> SUFFICES ASSUME CardsInv, load = {}, misses = 0, NEW p \in Cards
             PROVE  page.git[p] >= wanted.git[p] /\ (page.docker[p] >= wanted.docker[p] \/ overtaken[p])
  BY DEF CardsFollow
<1>1. GitComes(p) /\ DockerComes(p)
  BY DEF CardsInv
<1>2. ~ListComing /\ ~MetadataComing /\ ~FollowUp(p) /\ ~StatusComing(p)
  BY DEF ListComing, MetadataComing, FollowUp, StatusComing
<1>3. /\ page.git[p] \in Nat /\ wanted.git[p] \in Nat
      /\ page.docker[p] \in Nat /\ wanted.docker[p] \in Nat
  BY DEF CardsInv, CardsShape, CardVersions
<1>4. ~(page.git[p] < wanted.git[p]) /\ ~(page.docker[p] < wanted.docker[p] /\ ~overtaken[p])
  BY <1>1, <1>2 DEF GitComes, DockerComes
<1> QED BY <1>3, <1>4

=============================================================================
