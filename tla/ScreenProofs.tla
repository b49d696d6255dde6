---------------------------- MODULE ScreenProofs ----------------------------
(***************************************************************************)
(* What the chat and the screens show, proved for every value of the       *)
(* constants: files, notes, checklists and the agent's turns in the chat,  *)
(* the catalog of skills, the open board and the files tab.                *)
(***************************************************************************)
EXTENDS AgentMedia, ChatNotes, SkillCatalog, LiveBoard, ProjectScreen,
        StreamingTurn, SequenceTheorems, NaturalsInduction,
        WellFoundedInduction, TLAPS

-----------------------------------------------------------------------------
(* Sifts *)

(* What holds of zero, and of a number when of the one before, holds. *)
LEMMA Upwards ==
    ASSUME NEW N \in Nat, NEW P, 0 \in P, \A n \in 1 .. N : n - 1 \in P => n \in P
    PROVE  0 .. N \subseteq P
<1> DEFINE Out == (0 .. N) \ P
<1> SUFFICES ASSUME Out # {} PROVE FALSE
  OBVIOUS
<1>1. Out \subseteq Nat
  OBVIOUS
<1>2. \E x \in Out : \A y \in Out : ~(<<y, x>> \in OpToRel(<, Nat))
  BY <1>1, WFMin, NatLessThanWellFounded
<1>3. PICK x \in Out : \A y \in Out : ~(<<y, x>> \in OpToRel(<, Nat))
  BY <1>2
<1>4. x \in 1 .. N
  OBVIOUS
<1>5. x - 1 \in 0 .. N /\ x - 1 < x /\ x - 1 \in Nat /\ x \in Nat
  BY <1>4
<1>6. x - 1 \notin Out
  BY <1>3, <1>5 DEF OpToRel
<1> QED BY <1>4, <1>5, <1>6

(* f is what the filter has kept of s after each place. *)
Sifts(f, S, s, I) ==
    /\ f \in [0 .. Len(s) -> Seq(S)]
    /\ f[0] = <<>>
    /\ \A n \in 1 .. Len(s) : f[n] = IF n \in I THEN Append(f[n - 1], s[n]) ELSE f[n - 1]
    /\ Kept(s, I) = f[Len(s)]

LEMMA KeptUnfolds ==
    ASSUME NEW S, NEW s \in Seq(S), NEW I
    PROVE  \E f : Sifts(f, S, s, I)
<1> DEFINE L == Len(s)
           Goes(f, m) == /\ f \in [0 .. m -> Seq(S)] /\ f[0] = <<>>
                         /\ \A n \in 1 .. m : f[n] = IF n \in I THEN Append(f[n - 1], s[n]) ELSE f[n - 1]
           P == {m \in 0 .. L : \E f : Goes(f, m)}
           F(f) == [n \in 0 .. L |-> IF n = 0 THEN <<>>
                                     ELSE IF n \in I THEN Append(f[n - 1], s[n]) ELSE f[n - 1]]
<1>0. L \in Nat /\ \A n \in 1 .. L : s[n] \in S
  BY LenProperties
<1>1. 0 \in P
  <2> DEFINE z == [n \in 0 .. 0 |-> <<>>]
  <2>1. <<>> \in Seq(S)
    OBVIOUS
  <2>2. z \in [0 .. 0 -> Seq(S)] /\ z[0] = <<>>
    BY <2>1
  <2>3. 1 .. 0 = {}
    OBVIOUS
  <2> HIDE DEF z
  <2>4. Goes(z, 0)
    BY <2>2, <2>3
  <2> QED BY <1>0, <2>4
<1>2. \A m \in 1 .. L : m - 1 \in P => m \in P
  <2> SUFFICES ASSUME NEW m \in 1 .. L, m - 1 \in P PROVE m \in P
    OBVIOUS
  <2>1. PICK f : Goes(f, m - 1)
    OBVIOUS
  <2> DEFINE x == IF m \in I THEN Append(f[m - 1], s[m]) ELSE f[m - 1]
             g == [n \in 0 .. m |-> IF n = m THEN x ELSE f[n]]
  <2>2. m - 1 \in 0 .. m - 1 /\ f[m - 1] \in Seq(S) /\ s[m] \in S
    BY <1>0, <2>1
  <2>3. x \in Seq(S)
    BY <2>2, AppendProperties
  <2>4. g \in [0 .. m -> Seq(S)] /\ g[0] = <<>>
    <3>1. ASSUME NEW n \in 0 .. m PROVE (IF n = m THEN x ELSE f[n]) \in Seq(S)
      BY <2>1, <2>3
    <3>2. g \in [0 .. m -> Seq(S)]
      BY <3>1
    <3> HIDE DEF x
    <3>3. 0 \in 0 .. m /\ 0 # m
      OBVIOUS
    <3> QED BY <2>1, <3>2, <3>3
  <2>5. ASSUME NEW n \in 1 .. m PROVE g[n] = IF n \in I THEN Append(g[n - 1], s[n]) ELSE g[n - 1]
    <3>1. CASE n = m
      <4>1. g[n] = x /\ g[n - 1] = f[m - 1]
        BY <3>1
      <4> QED BY <3>1, <4>1
    <3>2. CASE n # m
      <4>1. n \in 1 .. m - 1 /\ n - 1 # m /\ n - 1 \in 0 .. m
        BY <3>2
      <4>2. g[n] = f[n] /\ g[n - 1] = f[n - 1]
        BY <4>1, <3>2
      <4> QED BY <2>1, <4>1, <4>2
    <3> QED BY <3>1, <3>2
  <2>6. Goes(g, m)
    BY <2>4, <2>5
  <2> HIDE DEF g, Goes
  <2> QED BY <2>6
<1>3. L \in P
  <2> HIDE DEF P
  <2>1. 0 .. L \subseteq P
    BY <1>0, <1>1, <1>2, Upwards
  <2> QED BY <1>0, <2>1
<1>4. PICK f : Goes(f, L)
  BY <1>3
<1>5. f = F(f)
  <2>1. ASSUME NEW n \in 0 .. L PROVE f[n] = F(f)[n]
    <3>1. CASE n = 0
      BY <1>4, <3>1
    <3>2. CASE n # 0
      <4>1. n \in 1 .. L
        BY <1>0, <3>2
      <4> QED BY <1>4, <3>2, <4>1
    <3> QED BY <3>1, <3>2
  <2>2. DOMAIN f = 0 .. L /\ f = [n \in 0 .. L |-> f[n]]
    BY <1>4
  <2> HIDE DEF Goes
  <2> QED BY <2>1, <2>2
<1> DEFINE h == CHOOSE h : h = F(h)
<1>6. h = F(h)
  <2> HIDE DEF F
  <2> QED BY <1>5
<1>7. Kept(s, I) = h[L]
  BY DEF Kept
<1> HIDE DEF h
<1>8. h[0] = <<>> /\ \A n \in 1 .. L : h[n] = IF n \in I THEN Append(h[n - 1], s[n]) ELSE h[n - 1]
  <2>1. \A n \in 0 .. L : h[n] = F(h)[n]
    BY <1>6
  <2>2. 0 \in 0 .. L /\ \A n \in 1 .. L : n \in 0 .. L /\ n # 0
    BY <1>0
  <2> QED BY <2>1, <2>2
<1>9. h \in [0 .. L -> Seq(S)]
  <2> DEFINE Q == {n \in 0 .. L : h[n] \in Seq(S)}
  <2>1. 0 \in Q
    <3>1. <<>> \in Seq(S) /\ h[0] = <<>> /\ 0 \in 0 .. L
      BY <1>0, <1>8
    <3> HIDE DEF L
    <3> QED BY <3>1
  <2>2. \A n \in 1 .. L : n - 1 \in Q => n \in Q
    <3> SUFFICES ASSUME NEW n \in 1 .. L, n - 1 \in Q PROVE n \in Q
      OBVIOUS
    <3>1. h[n - 1] \in Seq(S) /\ s[n] \in S
      BY <1>0
    <3>2. Append(h[n - 1], s[n]) \in Seq(S)
      BY <3>1, AppendProperties
    <3>3. h[n] = IF n \in I THEN Append(h[n - 1], s[n]) ELSE h[n - 1]
      BY <1>8
    <3>4. h[n] \in Seq(S)
      BY <3>1, <3>2, <3>3
    <3> QED BY <3>4
  <2>3. 0 .. L \subseteq Q
    <3> HIDE DEF Q
    <3> QED BY <1>0, <2>1, <2>2, Upwards
  <2>4. \A n \in 0 .. L : h[n] \in Seq(S)
    BY <2>3
  <2>5. h = [n \in 0 .. L |-> h[n]]
    BY <1>6
  <2> QED BY <2>4, <2>5
<1> QED BY <1>7, <1>8, <1>9 DEF Sifts

(* What is kept was there. *)
LEMMA KeptFromItems ==
    ASSUME NEW S, NEW s \in Seq(S), NEW I
    PROVE  /\ Kept(s, I) \in Seq(S)
           /\ \A j \in DOMAIN Kept(s, I) : \E k \in DOMAIN s : k \in I /\ Kept(s, I)[j] = s[k]
<1> DEFINE L == Len(s)
<1>0. PICK f : Sifts(f, S, s, I)
  BY KeptUnfolds
<1>1. /\ f \in [0 .. L -> Seq(S)] /\ f[0] = <<>>
      /\ \A n \in 1 .. L : f[n] = IF n \in I THEN Append(f[n - 1], s[n]) ELSE f[n - 1]
      /\ Kept(s, I) = f[L]
  BY <1>0 DEF Sifts
<1>2. L \in Nat /\ DOMAIN s = 1 .. L /\ \A n \in 1 .. L : s[n] \in S
  BY LenProperties
<1> DEFINE P == {n \in 0 .. L : \A j \in DOMAIN f[n] : \E k \in DOMAIN s : k \in I /\ f[n][j] = s[k]}
<1>3. 0 \in P
  BY <1>1, <1>2
<1>4. \A n \in 1 .. L : n - 1 \in P => n \in P
  <2> SUFFICES ASSUME NEW n \in 1 .. L, n - 1 \in P PROVE n \in P
    OBVIOUS
  <2>1. f[n - 1] \in Seq(S) /\ s[n] \in S /\ n \in DOMAIN s
    <3>1. n - 1 \in 0 .. L
      BY <1>2
    <3> HIDE DEF P, L
    <3> QED BY <1>1, <1>2, <3>1
  <2>2. CASE n \notin I
    BY <1>1, <2>2
  <2>3. CASE n \in I
    <3>1. f[n] = Append(f[n - 1], s[n])
      BY <1>1, <2>3
    <3> SUFFICES ASSUME NEW j \in DOMAIN f[n] PROVE \E k \in DOMAIN s : k \in I /\ f[n][j] = s[k]
      OBVIOUS
    <3>2. CASE j = Len(f[n - 1]) + 1
      BY <2>1, <2>3, <3>1, <3>2, AppendProperties
    <3>3. CASE j # Len(f[n - 1]) + 1
      <4>1. j \in DOMAIN f[n - 1] /\ f[n][j] = f[n - 1][j]
        BY <2>1, <3>1, <3>3, AppendProperties
      <4> QED BY <4>1
    <3> QED BY <3>2, <3>3
  <2> QED BY <2>2, <2>3
<1>5. L \in P
  <2> HIDE DEF P
  <2>1. 0 .. L \subseteq P
    BY <1>2, <1>3, <1>4, Upwards
  <2> QED BY <1>2, <2>1
<1> QED BY <1>1, <1>2, <1>5

(* A filter that nothing fails keeps all. *)
LEMMA KeptAll ==
    ASSUME NEW S, NEW s \in Seq(S), NEW I, DOMAIN s \subseteq I
    PROVE  Kept(s, I) = s
<1> DEFINE L == Len(s)
<1>0. PICK f : Sifts(f, S, s, I)
  BY KeptUnfolds
<1>1. /\ f \in [0 .. L -> Seq(S)] /\ f[0] = <<>>
      /\ \A n \in 1 .. L : f[n] = IF n \in I THEN Append(f[n - 1], s[n]) ELSE f[n - 1]
      /\ Kept(s, I) = f[L]
  BY <1>0 DEF Sifts
<1>2. L \in Nat /\ DOMAIN s = 1 .. L /\ \A n \in 1 .. L : s[n] \in S
  BY LenProperties
<1> DEFINE P == {n \in 0 .. L : Len(f[n]) = n /\ \A j \in 1 .. n : f[n][j] = s[j]}
<1>3. 0 \in P
  BY <1>1, <1>2
<1>4. \A n \in 1 .. L : n - 1 \in P => n \in P
  <2> SUFFICES ASSUME NEW n \in 1 .. L, n - 1 \in P PROVE n \in P
    OBVIOUS
  <2>1. f[n - 1] \in Seq(S) /\ s[n] \in S /\ n \in I
    <3>1. n - 1 \in 0 .. L
      BY <1>2
    <3> HIDE DEF P, L
    <3> QED BY <1>1, <1>2, <3>1
  <2>2. f[n] = Append(f[n - 1], s[n])
    BY <1>1, <2>1
  <2>3. Len(f[n]) = n
    BY <2>1, <2>2, AppendProperties
  <2>4. ASSUME NEW j \in 1 .. n PROVE f[n][j] = s[j]
    BY <2>1, <2>2, AppendProperties
  <2> QED BY <2>3, <2>4
<1>5. L \in P
  <2> HIDE DEF P
  <2>1. 0 .. L \subseteq P
    BY <1>2, <1>3, <1>4, Upwards
  <2> QED BY <1>2, <2>1
<1>6. Kept(s, I) \in Seq(S) /\ Len(Kept(s, I)) = Len(s) /\ \A j \in 1 .. Len(s) : Kept(s, I)[j] = s[j]
  BY <1>1, <1>2, <1>5
<1> QED BY <1>6, SeqEqual

-----------------------------------------------------------------------------
(* Files for the chat *)

MediaItems == [files : SUBSET Nat, chat : Chats, status : {"pending", "delivered", "dead"}, since : Nat]
MediaCalls == [at : {"idle", "asked", "recovering"}, files : SUBSET Nat, left : Seq(Chats), matches : SUBSET Chats]

MediaTyped ==
    /\ day \in Nat /\ members \subseteq Chats
    /\ filed \in Seq(MediaItems)
    /\ routeOf \in [Agents -> Chats \cup {NoAdmin}]
    /\ sending \in [Agents -> MediaCalls]
    /\ mediaUsed \in [copies : Nat, moves : Nat]

MediaInv == MediaTyped /\ WaitingMediaIsThere

LEMMA MediaStart == ASSUME MediaInit PROVE MediaInv
<1>1. NotSending \in MediaCalls
  BY DEF NotSending, MediaCalls
<1>2. filed = <<>> /\ filed \in Seq(MediaItems)
  BY DEF MediaInit
<1>3. MediaTyped
  BY <1>1, <1>2 DEF MediaInit, MediaTyped
<1> QED BY <1>2, <1>3 DEF MediaInv, WaitingMediaIsThere

(* A call under way moves on, and may leave an item whose files are there. *)
LEMMA CallMovesOn ==
    ASSUME MediaInv, NEW a \in Agents, NEW c \in MediaCalls,
           sending' = [sending EXCEPT ![a] = c], UNCHANGED <<day, folder, filed, members, mediaUsed>>,
           routeOf' \in [Agents -> Chats \cup {NoAdmin}]
    PROVE  MediaInv'
BY DEF MediaInv, MediaTyped, WaitingMediaIsThere, InFolder

LEMMA ItemQueued ==
    ASSUME MediaInv, NEW a \in Agents, NEW c \in Chats, QueueMedia(a, c),
           UNCHANGED <<day, folder, members, mediaUsed>>,
           routeOf' \in [Agents -> Chats \cup {NoAdmin}]
    PROVE  MediaInv'
<1> DEFINE item == [files |-> sending[a].files, chat |-> c, status |-> "pending", since |-> day]
<1>1. NotSending \in MediaCalls
  BY DEF NotSending, MediaCalls
<1>2. sending' \in [Agents -> MediaCalls]
  BY <1>1 DEF QueueMedia, Gives, MediaInv, MediaTyped
<1>3. item \in MediaItems /\ item.files = sending[a].files
  BY DEF MediaInv, MediaTyped, MediaCalls, MediaItems
<1>4. filed' = IF item.files \subseteq InFolder THEN Append(filed, item) ELSE filed
  BY <1>3 DEF QueueMedia
<1> HIDE DEF item
<1>5. filed' \in Seq(MediaItems)
  BY <1>3, <1>4, AppendProperties DEF MediaInv, MediaTyped
<1>6. ASSUME NEW k \in DOMAIN filed', filed'[k].status = "pending" PROVE filed'[k].files \subseteq InFolder'
  <2>0. InFolder' = InFolder /\ filed \in Seq(MediaItems)
    BY DEF InFolder, MediaInv, MediaTyped
  <2>1. CASE filed' = filed
    BY <1>6, <2>0, <2>1 DEF MediaInv, WaitingMediaIsThere
  <2>2. CASE filed' = Append(filed, item) /\ item.files \subseteq InFolder
    <3>1. CASE k = Len(filed) + 1
      BY <1>3, <2>0, <2>2, <3>1, AppendProperties
    <3>2. CASE k # Len(filed) + 1
      <4>1. k \in DOMAIN filed /\ filed'[k] = filed[k]
        BY <1>3, <1>6, <2>0, <2>2, <3>2, AppendProperties
      <4> QED BY <1>6, <2>0, <4>1 DEF MediaInv, WaitingMediaIsThere
    <3> QED BY <3>1, <3>2
  <2> QED BY <1>4, <2>1, <2>2
<1> QED BY <1>2, <1>5, <1>6 DEF MediaInv, MediaTyped, WaitingMediaIsThere

LEMMA RecoversAdmins == ASSUME MediaInv, NEW a \in Agents PROVE Recovered(a) \subseteq Chats
BY DEF Recovered, MediaInv, MediaTyped, MediaCalls

LEMMA SendersTurn ==
    ASSUME MediaInv, NEW a \in Agents,
           \/ RouteKnown(a) \/ RouteUnknown(a) \/ LooksAtAdmin(a) \/ RecoversRoute(a) \/ Unbound(a)
           \/ \E n \in 1..MaxAlbum : StageFiles(a, n) \/ StageFails(a, n)
           \/ \E c \in Chats : PromptBinds(a, c)
    PROVE  MediaInv'
<1>0. sending[a] \in MediaCalls /\ sending \in [Agents -> MediaCalls] /\ NotSending \in MediaCalls
      /\ routeOf \in [Agents -> Chats \cup {NoAdmin}]
  BY DEF MediaInv, MediaTyped, NotSending, MediaCalls
<1>1. CASE RouteKnown(a)
  BY <1>0, <1>1, ItemQueued DEF RouteKnown
<1>2. CASE RouteUnknown(a)
  <2> DEFINE c == [sending[a] EXCEPT !.at = "recovering", !.left = AdminIds]
  <2>1. sending' = [sending EXCEPT ![a] = c]
    BY <1>0, <1>2 DEF RouteUnknown
  <2>2. c \in MediaCalls
    BY <1>0, AdminsListed DEF MediaCalls, Chats
  <2> HIDE DEF c
  <2> QED BY <1>0, <1>2, <2>1, <2>2, CallMovesOn DEF RouteUnknown
<1>3. CASE LooksAtAdmin(a)
  <2> DEFINE left == Tail(sending[a].left)
             who == Head(sending[a].left)
             matches == IF who \in members THEN sending[a].matches \cup {who} ELSE sending[a].matches
             c == [sending[a] EXCEPT !.left = left, !.matches = matches]
  <2>1. sending' = [sending EXCEPT ![a] = c]
    BY <1>0, <1>3 DEF LooksAtAdmin
  <2>2. left \in Seq(Chats)
    BY <1>0, <1>3, HeadTailProperties DEF LooksAtAdmin, MediaCalls
  <2>3. matches \subseteq Chats
    BY <1>0 DEF MediaCalls, MediaInv, MediaTyped
  <2> HIDE DEF left, matches
  <2>4. c \in MediaCalls
    BY <1>0, <2>2, <2>3 DEF MediaCalls
  <2> HIDE DEF c
  <2> QED BY <1>0, <1>3, <2>1, <2>4, CallMovesOn DEF LooksAtAdmin
<1>4. CASE RecoversRoute(a)
  <2>1. PICK c \in Recovered(a) : routeOf' = [routeOf EXCEPT ![a] = c] /\ QueueMedia(a, c)
    BY <1>4 DEF RecoversRoute
  <2>2. c \in Chats
    BY RecoversAdmins
  <2>3. routeOf' \in [Agents -> Chats \cup {NoAdmin}]
    BY <1>0, <2>1, <2>2
  <2> QED BY <1>4, <2>1, <2>2, <2>3, ItemQueued DEF RecoversRoute
<1>5. CASE Unbound(a)
  BY <1>0, <1>5, CallMovesOn DEF Unbound, Gives
<1>6. ASSUME NEW n \in 1 .. MaxAlbum, StageFiles(a, n) \/ StageFails(a, n) PROVE MediaInv'
  <2>1. n \in Nat /\ mediaUsed.copies \in Nat
    BY MediaBounds DEF MediaInv, MediaTyped
  <2> DEFINE new == mediaUsed.copies + 1 .. mediaUsed.copies + n
             c == [sending[a] EXCEPT !.at = "asked", !.files = new]
             used == mediaUsed.copies + n
  <2>2. new \subseteq Nat /\ used \in Nat
    BY <2>1
  <2>3. InFolder \subseteq InFolder'
    BY <1>6 DEF StageFiles, StageFails, Copied, InFolder
  <2>4. mediaUsed' = [mediaUsed EXCEPT !.copies = used]
    BY <1>6 DEF StageFiles, StageFails, Copied
  <2>5. sending' = sending \/ sending' = [sending EXCEPT ![a] = c]
    BY <1>0, <1>6 DEF StageFiles, StageFails
  <2>6. UNCHANGED <<day, filed, routeOf, members>>
    BY <1>6 DEF StageFiles, StageFails
  <2> HIDE DEF new, used
  <2>7. c \in MediaCalls
    BY <1>0, <2>2 DEF MediaCalls
  <2> HIDE DEF c
  <2>8. sending' \in [Agents -> MediaCalls]
    BY <1>0, <2>5, <2>7
  <2>9. mediaUsed' \in [copies : Nat, moves : Nat]
    BY <2>2, <2>4 DEF MediaInv, MediaTyped
  <2> QED BY <2>3, <2>6, <2>8, <2>9 DEF MediaInv, MediaTyped, WaitingMediaIsThere
<1>7. ASSUME NEW c \in Chats, PromptBinds(a, c) PROVE MediaInv'
  BY <1>7 DEF PromptBinds, Reroutes, MediaInv, MediaTyped, WaitingMediaIsThere, InFolder
<1> QED BY <1>1, <1>2, <1>3, <1>4, <1>5, <1>6, <1>7

(* The sweep takes no file that a pending item needs. *)
LEMMA SweepSpares == ASSUME MediaInv, Maintain PROVE MediaInv'
<1> DEFINE I == DOMAIN Remaining
<1>1. filed \in Seq(MediaItems) /\ filed' = Kept(filed, I)
  BY DEF MediaInv, MediaTyped, Maintain
<1>2. filed' \in Seq(MediaItems) /\ \A j \in DOMAIN filed' : \E k \in DOMAIN filed : k \in I /\ filed'[j] = filed[k]
  <2> HIDE DEF I
  <2> QED BY <1>1, KeptFromItems
<1>3. ASSUME NEW k \in DOMAIN filed, filed[k].status = "pending", NEW f \in folder, f.file \in filed[k].files
      PROVE  f \in folder'
  <2>1. k \in DOMAIN Remaining /\ Remaining[k] = filed[k]
    BY <1>3 DEF Remaining, Stays
  <2>2. Remaining[k].since \in Times(f, "pending")
    BY <1>3, <2>1 DEF Times
  <2>3. ~Expired(f)
    BY <2>2 DEF Expired
  <2> QED BY <2>3 DEF Maintain
<1>4. ASSUME NEW j \in DOMAIN filed', filed'[j].status = "pending" PROVE filed'[j].files \subseteq InFolder'
  <2>1. PICK k \in DOMAIN filed : filed'[j] = filed[k]
    BY <1>2
  <2>2. filed[k].status = "pending" /\ filed[k].files \subseteq InFolder
    BY <1>4, <2>1 DEF MediaInv, WaitingMediaIsThere
  <2>3. ASSUME NEW x \in filed[k].files PROVE x \in InFolder'
    <3>1. PICK f \in folder : f.file = x
      BY <2>2 DEF InFolder
    <3>2. f \in folder'
      BY <1>3, <2>2, <3>1
    <3> QED BY <3>1, <3>2 DEF InFolder
  <2> QED BY <2>1, <2>3
<1> QED BY <1>2, <1>4 DEF Maintain, MediaInv, MediaTyped, WaitingMediaIsThere

LEMMA MediaStep == ASSUME MediaInv, [MediaNext]_media PROVE MediaInv'
<1>1. CASE DayPasses
  BY <1>1 DEF DayPasses, MediaInv, MediaTyped, WaitingMediaIsThere, InFolder
<1>2. CASE MediaRestart
  <2>1. NotSending \in MediaCalls
    BY DEF NotSending, MediaCalls
  <2> QED BY <1>2, <2>1 DEF MediaRestart, Reroutes, MediaInv, MediaTyped, WaitingMediaIsThere, InFolder
<1>3. ASSUME NEW c \in Chats, ActiveProjectChanges(c) PROVE MediaInv'
  BY <1>3 DEF ActiveProjectChanges, Reroutes, MediaInv, MediaTyped, WaitingMediaIsThere, InFolder
<1>4. ASSUME NEW k \in DOMAIN filed, NEW status \in {"delivered", "dead"}, MediaSettles(k, status) PROVE MediaInv'
  <2> DEFINE i == [filed[k] EXCEPT !.status = status, !.since = day]
  <2>1. filed \in Seq(MediaItems) /\ filed[k] \in MediaItems /\ day \in Nat
    BY DEF MediaInv, MediaTyped
  <2>2. filed' = [filed EXCEPT ![k] = i]
    BY <1>4, <2>1 DEF MediaSettles
  <2>3. i \in MediaItems /\ i.status # "pending"
    BY <2>1 DEF MediaItems
  <2> HIDE DEF i
  <2>4. filed' \in Seq(MediaItems) /\ DOMAIN filed' = DOMAIN filed
    BY <2>1, <2>2, <2>3
  <2>5. ASSUME NEW j \in DOMAIN filed', filed'[j].status = "pending" PROVE filed'[j].files \subseteq InFolder'
    <3>1. j # k /\ filed'[j] = filed[j]
      BY <2>1, <2>2, <2>3, <2>4, <2>5
    <3> QED BY <1>4, <2>4, <2>5, <3>1 DEF MediaSettles, InFolder, MediaInv, WaitingMediaIsThere
  <2> QED BY <1>4, <2>4, <2>5 DEF MediaSettles, MediaInv, MediaTyped, WaitingMediaIsThere
<1>5. CASE UNCHANGED media
  BY <1>5 DEF media, MediaInv, MediaTyped, WaitingMediaIsThere, InFolder
<1> QED BY <1>1, <1>2, <1>3, <1>4, <1>5, SweepSpares, SendersTurn DEF MediaNext

-----------------------------------------------------------------------------
(* Checklists *)

(* A todo's progress is a number. *)
LEMMA RankIsNat == \A s : Rank(s) \in 0 .. 3
BY DEF Rank

LEMMA TodoStepNeverGoesBack ==
    ASSUME [TodoNext]_todo, tracked',
           ~(TodosOf(list) # {} /\ TodosOf(list') # {} /\ TodosOf(list) \cap TodosOf(list') = {}),
           NEW t \in TodosOf(list)
    PROVE  \/ Rank(list'.status[t]) >= Rank(list.status[t])
           \/ list'.status[t] = "absent" /\ ~Final(list.status[t])
<1>1. CASE UNCHANGED list
  BY <1>1, RankIsNat
<1>2. CASE \E items \in TodoLists : ApplySnapshot(items) /\ list' # list
  <2> PICK items \in TodoLists : ApplySnapshot(items) /\ list' # list
    BY <1>2
  <2> DEFINE new == DedupeTodoItems(items)
  <2>1. list' = MergeTodoSnapshots(list, new)
    BY DEF ApplySnapshot
  <2> HIDE DEF new
  <2>2. ~ShouldReset(list, new)
    <3> SUFFICES ASSUME ShouldReset(list, new) PROVE FALSE
      OBVIOUS
    <3>1. list' = new
      BY <2>1 DEF MergeTodoSnapshots
    <3> QED BY <3>1 DEF ShouldReset
  <2>3. /\ t \in Todos
        /\ list'.status[t] = IF t \in TodosOf(new) THEN MergeTodoItems(list.status[t], new.status[t])
                             ELSE IF StaysListed(list, new, t) THEN list.status[t] ELSE "absent"
    BY <2>1, <2>2, t \in Todos DEF MergeTodoSnapshots, TodosOf
  <2>4. CASE t \in TodosOf(new)
    BY <2>3, <2>4, RankIsNat DEF MergeTodoItems
  <2>5. CASE t \notin TodosOf(new)
    BY <2>3, <2>5, RankIsNat DEF StaysListed
  <2> QED BY <2>4, <2>5
<1> QED BY <1>1, <1>2 DEF TodoNext, todo, DropList

THEOREM ChecklistsOnlyAdvance == TodoSpec => TodosNeverGoBack
<1>1. [TodoNext]_todo =>
        [tracked' =>
          \/ TodosOf(list) # {} /\ TodosOf(list') # {} /\ TodosOf(list) \cap TodosOf(list') = {}
          \/ \A t \in TodosOf(list) :
                 \/ Rank(list'.status[t]) >= Rank(list.status[t])
                 \/ list'.status[t] = "absent" /\ ~Final(list.status[t])]_todo
  BY TodoStepNeverGoesBack
<1> QED BY <1>1, PTL DEF TodoSpec, TodosNeverGoBack

-----------------------------------------------------------------------------
(* Notes about changed files *)

CallOps == [call : Nat, left : Nat, token : Nat]
NoteRecords == [call : Nat, token : Nat, sent : BOOLEAN, native : BOOLEAN]

Tokens(s) == {s[i].token : i \in DOMAIN s}
Alone(s) == \A i, j \in DOMAIN s : i # j => s[i].token # s[j].token /\ s[i].call # s[j].call
Apart(s, t) == \A i \in DOMAIN s, j \in DOMAIN t : s[i].token # t[j].token /\ s[i].call # t[j].call
Follows(s, n) == \A i \in DOMAIN s, j \in DOMAIN n : s[i].call = n[j].call => n[j].token < s[i].token
Ascends(n) == \A i, j \in DOMAIN n : i < j /\ n[i].call = n[j].call => n[i].token < n[j].token
Within(s, calls) == \A i \in DOMAIN s : s[i].call <= calls

(* A tool call has one file under way, whose preview is newer than those   *)
(* with notes; each preview has a note or a file under way.                *)
FilesInv(w, r, n, total, calls) ==
    /\ w \in Seq(CallOps) /\ r \in Seq(CallOps) /\ n \in Seq(NoteRecords)
    /\ Alone(w) /\ Alone(r) /\ Apart(w, r) /\ Within(w, calls) /\ Within(r, calls)
    /\ Tokens(w) \cup Tokens(r) \cup Tokens(n) = 1 .. total
    /\ Tokens(n) \cap (Tokens(w) \cup Tokens(r)) = {}
    /\ Follows(w, n) /\ Follows(r, n) /\ Ascends(n)

LEMMA FilesSwap ==
    ASSUME NEW w, NEW r, NEW n, NEW total, NEW calls, FilesInv(w, r, n, total, calls)
    PROVE  FilesInv(r, w, n, total, calls)
<1>1. Apart(r, w)
  BY DEF FilesInv, Apart
<1>2. Tokens(r) \cup Tokens(w) \cup Tokens(n) = 1 .. total /\ Tokens(n) \cap (Tokens(r) \cup Tokens(w)) = {}
  BY DEF FilesInv
<1> QED BY <1>1, <1>2 DEF FilesInv

LEMMA FileJoins ==
    ASSUME NEW w, NEW r, NEW n, NEW total \in Nat, NEW calls \in Nat, FilesInv(w, r, n, total, calls),
           NEW more \in Nat, calls <= more, NEW op \in CallOps, op.token = total + 1, op.call <= more,
           \A i \in DOMAIN w : w[i].call # op.call, \A i \in DOMAIN r : r[i].call # op.call
    PROVE  FilesInv(Append(w, op), r, n, total + 1, more)
<1> DEFINE v == Append(w, op)
<1>0. w \in Seq(CallOps) /\ r \in Seq(CallOps) /\ n \in Seq(NoteRecords)
  BY DEF FilesInv
<1>1. /\ v \in Seq(CallOps) /\ DOMAIN v = DOMAIN w \cup {Len(w) + 1} /\ v[Len(w) + 1] = op
      /\ \A i \in DOMAIN w : v[i] = w[i] /\ i # Len(w) + 1
  <2>1. DOMAIN w = 1 .. Len(w) /\ Len(w) \in Nat
    BY <1>0, LenProperties
  <2>2. DOMAIN v = 1 .. Len(w) + 1
    BY <1>0, AppendProperties, LenProperties
  <2> QED BY <1>0, <2>1, <2>2, AppendProperties
<1> HIDE DEF v
<1>2. /\ Tokens(w) \subseteq 1 .. total /\ Tokens(r) \subseteq 1 .. total /\ Tokens(n) \subseteq 1 .. total
  BY DEF FilesInv
<1>3. /\ \A i \in DOMAIN w : w[i] \in CallOps /\ w[i].token \in 1 .. total
      /\ \A i \in DOMAIN r : r[i] \in CallOps /\ r[i].token \in 1 .. total
      /\ \A i \in DOMAIN n : n[i] \in NoteRecords /\ n[i].token \in 1 .. total
  BY <1>0, <1>2 DEF Tokens
<1>4. Tokens(v) = Tokens(w) \cup {total + 1}
  BY <1>1 DEF Tokens
<1>5. Alone(v)
  BY <1>1, <1>3 DEF FilesInv, Alone
<1>6. Apart(v, r)
  <2> SUFFICES ASSUME NEW i \in DOMAIN v, NEW j \in DOMAIN r
               PROVE  v[i].token # r[j].token /\ v[i].call # r[j].call
    BY DEF Apart
  <2>1. CASE i \in DOMAIN w
    BY <1>1, <2>1 DEF FilesInv, Apart
  <2>2. CASE i = Len(w) + 1
    BY <1>1, <1>3, <2>2
  <2> QED BY <1>1, <2>1, <2>2
<1>7. Within(v, more) /\ Within(r, more)
  <2>1. \A i \in DOMAIN w : w[i].call \in Nat /\ w[i].call <= calls
    BY <1>3 DEF FilesInv, Within, CallOps
  <2>2. \A i \in DOMAIN r : r[i].call \in Nat /\ r[i].call <= calls
    BY <1>3 DEF FilesInv, Within, CallOps
  <2>3. \A c \in Nat : c <= calls => c <= more
    OBVIOUS
  <2>4. Within(r, more)
    BY <2>2, <2>3 DEF Within
  <2>5. ASSUME NEW i \in DOMAIN v PROVE v[i].call <= more
    <3>1. CASE i \in DOMAIN w
      BY <1>1, <2>1, <2>3, <3>1
    <3>2. CASE i = Len(w) + 1
      BY <1>1, <3>2
    <3> QED BY <1>1, <3>1, <3>2
  <2> QED BY <2>4, <2>5 DEF Within
<1>8. Follows(v, n)
  <2> SUFFICES ASSUME NEW i \in DOMAIN v, NEW j \in DOMAIN n, v[i].call = n[j].call
               PROVE  n[j].token < v[i].token
    BY DEF Follows
  <2>1. CASE i \in DOMAIN w
    BY <1>1, <2>1 DEF FilesInv, Follows
  <2>2. CASE i = Len(w) + 1
    <3>1. n[j].token \in 1 .. total /\ v[i].token = total + 1
      BY <1>1, <1>3, <2>2
    <3> QED BY <3>1
  <2> QED BY <1>1, <2>1, <2>2
<1>9. /\ Tokens(v) \cup Tokens(r) \cup Tokens(n) = 1 .. total + 1
      /\ Tokens(n) \cap (Tokens(v) \cup Tokens(r)) = {}
  <2>1. 1 .. total + 1 = (1 .. total) \cup {total + 1} /\ total + 1 \notin 1 .. total
    OBVIOUS
  <2> QED BY <1>2, <1>4, <2>1 DEF FilesInv
<1> QED BY <1>0, <1>1, <1>5, <1>6, <1>7, <1>8, <1>9 DEF FilesInv, v

LEMMA FileNoted ==
    ASSUME NEW w, NEW r, NEW n, NEW total \in Nat, NEW calls \in Nat, FilesInv(w, r, n, total, calls), r # <<>>,
           NEW note \in NoteRecords, note.call = Head(r).call, note.token = Head(r).token
    PROVE  /\ FilesInv(w, Tail(r), Append(n, note), total, calls)
           /\ Head(r) \in CallOps /\ Head(r).call <= calls
           /\ \A i \in DOMAIN w : w[i].call # Head(r).call
           /\ \A i \in DOMAIN Tail(r) : Tail(r)[i].call # Head(r).call
<1> DEFINE q == Tail(r)
           m == Append(n, note)
<1>0. w \in Seq(CallOps) /\ r \in Seq(CallOps) /\ n \in Seq(NoteRecords)
  BY DEF FilesInv
<1>1. /\ q \in Seq(CallOps) /\ 1 \in DOMAIN r /\ r[1] = Head(r)
      /\ \A i \in DOMAIN q : i + 1 \in DOMAIN r /\ i + 1 # 1 /\ q[i] = r[i + 1] /\ i \in Nat
      /\ \A j \in DOMAIN r : j = 1 \/ (j - 1 \in DOMAIN q /\ q[j - 1] = r[j])
  <2>1. q \in Seq(CallOps) /\ Len(q) = Len(r) - 1 /\ \A i \in 1 .. Len(q) : q[i] = r[i + 1]
    BY <1>0, HeadTailProperties
  <2>2. DOMAIN r = 1 .. Len(r) /\ Len(r) \in Nat /\ Len(r) >= 1
    BY <1>0, LenProperties, EmptySeq
  <2>3. DOMAIN q = 1 .. Len(q) /\ Len(q) \in Nat
    BY <2>1, LenProperties
  <2>4. r[1] = Head(r)
    BY <1>0, HeadTailProperties
  <2> HIDE DEF q
  <2>5. \A j \in DOMAIN r : j = 1 \/ (j - 1 \in DOMAIN q /\ q[j - 1] = r[j])
    <3> SUFFICES ASSUME NEW j \in DOMAIN r, j # 1 PROVE j - 1 \in DOMAIN q /\ q[j - 1] = r[j]
      OBVIOUS
    <3>1. j - 1 \in 1 .. Len(q) /\ (j - 1) + 1 = j
      BY <2>1, <2>2
    <3> QED BY <2>1, <2>3, <3>1
  <2>6. \A i \in DOMAIN q : i + 1 \in DOMAIN r /\ i + 1 # 1 /\ q[i] = r[i + 1] /\ i \in Nat
    BY <2>1, <2>2, <2>3
  <2> QED BY <2>1, <2>2, <2>4, <2>5, <2>6
<1>2. /\ m \in Seq(NoteRecords) /\ DOMAIN m = DOMAIN n \cup {Len(n) + 1} /\ m[Len(n) + 1] = note
      /\ \A i \in DOMAIN n : m[i] = n[i] /\ i < Len(n) + 1 /\ i \in Nat
  <2>1. DOMAIN n = 1 .. Len(n) /\ Len(n) \in Nat
    BY <1>0, LenProperties
  <2>2. DOMAIN m = 1 .. Len(n) + 1
    BY <1>0, AppendProperties, LenProperties
  <2> QED BY <1>0, <2>1, <2>2, AppendProperties
<1>3. Len(n) \in Nat
  BY <1>0, LenProperties
<1> HIDE DEF q, m
<1>4. /\ \A i \in DOMAIN w : w[i] \in CallOps
      /\ \A i \in DOMAIN r : r[i] \in CallOps
      /\ \A i \in DOMAIN n : n[i] \in NoteRecords
  BY <1>0
<1>5. \A i \in DOMAIN q : q[i].call # Head(r).call /\ q[i].token # Head(r).token
  BY <1>1, SMTT(60) DEF FilesInv, Alone
<1>6. \A i \in DOMAIN w : w[i].call # Head(r).call /\ w[i].token # Head(r).token
  BY <1>1 DEF FilesInv, Apart
<1>7. Head(r) \in CallOps /\ Head(r).call <= calls
  BY <1>1, <1>4 DEF FilesInv, Within
<1>8. Alone(q) /\ Apart(w, q) /\ Within(q, calls)
  <2>1. Alone(q)
    <3> SUFFICES ASSUME NEW i \in DOMAIN q, NEW j \in DOMAIN q, i # j
                 PROVE  q[i].token # q[j].token /\ q[i].call # q[j].call
      BY DEF Alone
    <3>1. i + 1 \in DOMAIN r /\ j + 1 \in DOMAIN r /\ i + 1 # j + 1
      BY <1>1
    <3>2. r[i + 1].token # r[j + 1].token /\ r[i + 1].call # r[j + 1].call
      BY <3>1 DEF FilesInv, Alone
    <3> QED BY <1>1, <3>2
  <2>2. Apart(w, q) /\ Within(q, calls)
    BY <1>1 DEF FilesInv, Apart, Within
  <2> QED BY <2>1, <2>2
<1>9. Tokens(r) = Tokens(q) \cup {Head(r).token} /\ Tokens(m) = Tokens(n) \cup {note.token}
  <2>1. Tokens(r) = Tokens(q) \cup {Head(r).token}
    BY <1>1 DEF Tokens
  <2>2. Tokens(m) = Tokens(n) \cup {note.token}
    BY <1>2 DEF Tokens
  <2> QED BY <2>1, <2>2
<1>10. note.token \notin Tokens(q) /\ note.token \notin Tokens(w)
  BY <1>5, <1>6 DEF Tokens
<1>11. /\ Tokens(w) \cup Tokens(q) \cup Tokens(m) = 1 .. total
       /\ Tokens(m) \cap (Tokens(w) \cup Tokens(q)) = {}
  <2>1. /\ Tokens(w) \cup Tokens(r) \cup Tokens(n) = 1 .. total
        /\ Tokens(n) \cap (Tokens(w) \cup Tokens(r)) = {}
    BY DEF FilesInv
  <2> QED BY <1>9, <1>10, <2>1
<1>12. Follows(w, m)
  BY <1>2, <1>6 DEF FilesInv, Follows
<1>13. Follows(q, m)
  <2> SUFFICES ASSUME NEW i \in DOMAIN q, NEW j \in DOMAIN m, q[i].call = m[j].call
               PROVE  m[j].token < q[i].token
    BY DEF Follows
  <2>1. j \in DOMAIN n /\ m[j] = n[j]
    BY <1>2, <1>5
  <2>2. i + 1 \in DOMAIN r /\ q[i] = r[i + 1]
    BY <1>1
  <2> QED BY <2>1, <2>2 DEF FilesInv, Follows
<1>14. Ascends(m)
  <2> SUFFICES ASSUME NEW i \in DOMAIN m, NEW j \in DOMAIN m, i < j, m[i].call = m[j].call
               PROVE  m[i].token < m[j].token
    BY DEF Ascends
  <2>1. CASE j = Len(n) + 1
    <3>1. i \in DOMAIN n /\ m[i] = n[i] /\ m[j] = note
      BY <1>2, <1>3, <2>1
    <3> QED BY <1>1, <3>1, ZenonT(60) DEF FilesInv, Follows
  <2>2. CASE j # Len(n) + 1
    <3>1. j \in DOMAIN n /\ i \in DOMAIN n /\ m[i] = n[i] /\ m[j] = n[j]
      BY <1>2, <1>3, <2>2
    <3> QED BY <3>1 DEF FilesInv, Ascends
  <2> QED BY <2>1, <2>2
<1>15. FilesInv(w, q, m, total, calls)
  BY <1>0, <1>1, <1>2, <1>8, <1>11, <1>12, <1>13, <1>14 DEF FilesInv
<1> QED BY <1>5, <1>6, <1>7, <1>15 DEF q, m

Previews == [token : Nat, day : Nat]

(* Until the first preview goes stale the newest ones are there.           *)
PreviewsInv ==
    noteDay <= PreviewTtl =>
        /\ Len(previews) = IF tokens <= MaxPreviews THEN tokens ELSE MaxPreviews
        /\ \A k \in DOMAIN previews : previews[k].token = tokens - Len(previews) + k

NotesTyped ==
    /\ botName \in {"unknown", "asked", "known"}
    /\ previews \in Seq(Previews)
    /\ {tokens, patches, noteDay, noteFaults} \subseteq Nat /\ streamOn \in BOOLEAN

NotesInv == NotesTyped /\ FilesInv(waiting, ready, notes, tokens, patches) /\ PreviewsInv

(* What pruning leaves of the newest previews. *)
LEMMA PruneLeaves ==
    ASSUME NEW ps \in Seq(Previews), noteDay \in Nat
    PROVE  /\ Prune(ps) \in Seq(Previews)
           /\ noteDay <= PreviewTtl =>
                /\ Len(Prune(ps)) = IF Len(ps) <= MaxPreviews THEN Len(ps) ELSE MaxPreviews
                /\ \A k \in DOMAIN Prune(ps) : /\ Len(ps) - Len(Prune(ps)) + k \in DOMAIN ps
                                               /\ Prune(ps)[k] = ps[Len(ps) - Len(Prune(ps)) + k]
<1> DEFINE I == {k \in DOMAIN ps : FreshPreview(ps[k])}
           fresh == Filtered(ps, I)
<1>0. MaxPreviews \in Nat /\ PreviewTtl \in Nat
  BY NoteBounds
<1>1. Filtered(ps, I) = Kept(ps, I)
  BY DEF Filtered, Kept
<1>2. fresh \in Seq(Previews)
  <2> HIDE DEF I
  <2> QED BY <1>1, KeptFromItems
<1>3. noteDay <= PreviewTtl => fresh = ps
  <2> SUFFICES ASSUME noteDay <= PreviewTtl PROVE fresh = ps
    OBVIOUS
  <2>1. ASSUME NEW k \in DOMAIN ps PROVE k \in I
    <3>1. ps[k] \in Previews
      OBVIOUS
    <3>2. ps[k].day \in Nat
      BY <3>1 DEF Previews
    <3> QED BY <1>0, <3>2 DEF FreshPreview
  <2>2. DOMAIN ps \subseteq I
    BY <2>1
  <2> HIDE DEF I
  <2> QED BY <1>1, <2>2, KeptAll
<1>4. Prune(ps) = IF Len(fresh) <= MaxPreviews THEN fresh ELSE OldestDropped(fresh)
  BY DEF Prune
<1> HIDE DEF fresh
<1>5. Len(fresh) \in Nat /\ DOMAIN fresh = 1 .. Len(fresh)
  BY <1>2, LenProperties
<1>6. CASE Len(fresh) <= MaxPreviews
  <2>1. Prune(ps) = fresh
    BY <1>4, <1>6
  <2>2. ASSUME NEW k \in DOMAIN fresh PROVE Len(fresh) - Len(fresh) + k = k
    BY <1>5
  <2> QED BY <1>2, <1>3, <1>5, <1>6, <2>1, <2>2
<1>7. CASE Len(fresh) > MaxPreviews
  <2> DEFINE cut == SubSeq(fresh, Len(fresh) - MaxPreviews + 1, Len(fresh))
  <2>1. Prune(ps) = cut
    BY <1>0, <1>4, <1>5, <1>7 DEF OldestDropped
  <2>2. /\ cut \in Seq(Previews) /\ Len(cut) = MaxPreviews
        /\ \A k \in 1 .. MaxPreviews : cut[k] = fresh[Len(fresh) - MaxPreviews + k]
    <3> DEFINE a == Len(fresh) - MaxPreviews + 1
    <3>1. a \in 1 .. Len(fresh) + 1 /\ Len(fresh) \in a - 1 .. Len(fresh)
      BY <1>0, <1>5, <1>7
    <3>2. cut \in Seq(Previews) /\ Len(cut) = Len(fresh) - a + 1 /\ \A i \in 1 .. (Len(fresh) - a + 1) : cut[i] = fresh[a + i - 1]
      BY <1>2, <3>1, SubSeqProperties
    <3>3. Len(fresh) - a + 1 = MaxPreviews /\ \A i \in 1 .. MaxPreviews : a + i - 1 = Len(fresh) - MaxPreviews + i
      BY <1>0, <1>5
    <3> QED BY <3>2, <3>3
  <2> HIDE DEF cut
  <2>3. DOMAIN cut = 1 .. MaxPreviews
    BY <2>2, LenProperties
  <2>4. \A k \in 1 .. MaxPreviews : Len(fresh) - MaxPreviews + k \in DOMAIN fresh
    BY <1>0, <1>5, <1>7
  <2>5. ASSUME noteDay <= PreviewTtl
        PROVE  /\ Len(cut) = IF Len(ps) <= MaxPreviews THEN Len(ps) ELSE MaxPreviews
               /\ \A k \in DOMAIN cut : /\ Len(ps) - Len(cut) + k \in DOMAIN ps
                                       /\ cut[k] = ps[Len(ps) - Len(cut) + k]
    <3>1. fresh = ps /\ ~(Len(ps) <= MaxPreviews)
      BY <1>0, <1>3, <1>5, <1>7, <2>5
    <3> QED BY <2>2, <2>3, <2>4, <3>1
  <2> QED BY <2>1, <2>2, <2>5
<1> QED BY <1>0, <1>5, <1>6, <1>7

LEMMA NotesStart == ASSUME NotesInit PROVE NotesInv
<1>1. \A S : <<>> \in Seq(S) /\ DOMAIN <<>> = {} /\ Len(<<>>) = 0
  OBVIOUS
<1>2. Tokens(<<>>) = {} /\ Alone(<<>>) /\ Apart(<<>>, <<>>) /\ Follows(<<>>, <<>>) /\ Ascends(<<>>)
      /\ \A c : Within(<<>>, c)
  BY <1>1 DEF Tokens, Alone, Apart, Follows, Ascends, Within
<1>3. FilesInv(waiting, ready, notes, tokens, patches)
  BY <1>1, <1>2 DEF NotesInit, FilesInv
<1>4. NotesTyped
  BY DEF NotesInit, NotesTyped
<1>5. PreviewsInv
  BY <1>1, NoteBounds DEF NotesInit, PreviewsInv
<1> QED BY <1>3, <1>4, <1>5 DEF NotesInv

(* A new preview is the newest. *)
LEMMA PreviewMade ==
    ASSUME NotesTyped, PreviewsInv, tokens' = tokens + 1, noteDay' = noteDay,
           previews' = Prune(Append(previews, [token |-> tokens + 1, day |-> noteDay]))
    PROVE  previews' \in Seq(Previews) /\ PreviewsInv'
<1> DEFINE new == [token |-> tokens + 1, day |-> noteDay]
           ps == Append(previews, new)
<1>0. tokens \in Nat /\ noteDay \in Nat /\ MaxPreviews \in Nat /\ PreviewTtl \in Nat /\ previews \in Seq(Previews)
  BY NoteBounds DEF NotesTyped
<1>1. new \in Previews /\ new.token = tokens + 1
  BY <1>0 DEF Previews
<1> HIDE DEF new
<1>2. /\ ps \in Seq(Previews) /\ Len(ps) = Len(previews) + 1 /\ ps[Len(previews) + 1] = new
      /\ \A k \in DOMAIN previews : ps[k] = previews[k]
      /\ DOMAIN previews = 1 .. Len(previews) /\ Len(previews) \in Nat /\ DOMAIN ps = 1 .. Len(previews) + 1
  BY <1>0, <1>1, AppendProperties, LenProperties
<1>3. previews' = Prune(ps)
  BY DEF new
<1> HIDE DEF ps
<1>4. /\ Prune(ps) \in Seq(Previews)
      /\ noteDay <= PreviewTtl =>
           /\ Len(Prune(ps)) = IF Len(ps) <= MaxPreviews THEN Len(ps) ELSE MaxPreviews
           /\ \A k \in DOMAIN Prune(ps) : /\ Len(ps) - Len(Prune(ps)) + k \in DOMAIN ps
                                          /\ Prune(ps)[k] = ps[Len(ps) - Len(Prune(ps)) + k]
  BY <1>0, <1>2, PruneLeaves
<1>5. ASSUME noteDay <= PreviewTtl
      PROVE  /\ Len(previews') = IF tokens' <= MaxPreviews THEN tokens' ELSE MaxPreviews
             /\ \A k \in DOMAIN previews' : previews'[k].token = tokens' - Len(previews') + k
  <2>1. /\ Len(previews) = IF tokens <= MaxPreviews THEN tokens ELSE MaxPreviews
        /\ \A k \in DOMAIN previews : previews[k].token = tokens - Len(previews) + k
    BY <1>5 DEF PreviewsInv
  <2>2. Len(previews') = IF tokens' <= MaxPreviews THEN tokens' ELSE MaxPreviews
    BY <1>0, <1>2, <1>3, <1>4, <1>5, <2>1
  <2>3. \A j \in DOMAIN ps : ps[j].token = tokens + 1 - Len(ps) + j
    <3> SUFFICES ASSUME NEW j \in DOMAIN ps PROVE ps[j].token = tokens + 1 - Len(ps) + j
      OBVIOUS
    <3>1. CASE j = Len(previews) + 1
      BY <1>0, <1>1, <1>2, <3>1
    <3>2. CASE j # Len(previews) + 1
      <4>1. j \in DOMAIN previews /\ j \in Nat
        BY <1>2, <3>2
      <4>2. ps[j].token = tokens - Len(previews) + j
        BY <1>2, <2>1, <4>1
      <4> QED BY <1>0, <1>2, <4>1, <4>2
    <3> QED BY <3>1, <3>2
  <2>4. ASSUME NEW k \in DOMAIN previews' PROVE previews'[k].token = tokens' - Len(previews') + k
    <3> DEFINE j == Len(ps) - Len(previews') + k
    <3>1. j \in DOMAIN ps /\ previews'[k] = ps[j]
      BY <1>3, <1>4, <1>5
    <3>2. previews'[k].token = tokens + 1 - Len(ps) + j
      BY <2>3, <3>1
    <3>3. Len(ps) \in Nat /\ Len(previews') \in Nat /\ k \in Nat
      <4>1. DOMAIN previews' = 1 .. Len(previews') /\ Len(previews') \in Nat
        BY <1>3, <1>4, LenProperties
      <4> QED BY <1>2, <4>1
    <3> QED BY <1>0, <3>2, <3>3
  <2> QED BY <2>2, <2>4
<1> QED BY <1>3, <1>4, <1>5 DEF PreviewsInv

(* The next file of a call is the newest, and the only one of its call.    *)
LEMMA NextFileJoins ==
    ASSUME NotesTyped, PreviewsInv, NEW rest, NEW n, NEW call \in Nat, NEW left \in Nat,
           FilesInv(waiting, rest, n, tokens, patches), NextFile(call, left, rest),
           patches' \in Nat, patches <= patches', call <= patches',
           \A i \in DOMAIN waiting : waiting[i].call # call, \A i \in DOMAIN rest : rest[i].call # call,
           UNCHANGED <<noteDay, streamOn>>, noteFaults' \in Nat
    PROVE  NotesTyped' /\ PreviewsInv' /\ FilesInv(waiting', ready', n, tokens', patches')
<1> DEFINE op == [call |-> call, left |-> left, token |-> tokens + 1]
<1>0. tokens \in Nat /\ patches \in Nat /\ noteDay \in Nat
  BY DEF NotesTyped
<1>1. op \in CallOps /\ op.token = tokens + 1 /\ op.call = call
  BY <1>0 DEF CallOps
<1>2. /\ tokens' = tokens + 1
      /\ previews' = Prune(Append(previews, [token |-> tokens + 1, day |-> noteDay]))
      /\ \/ ready' = Append(rest, op) /\ waiting' = waiting /\ botName' = botName
         \/ waiting' = Append(waiting, op) /\ ready' = rest /\ botName' = "asked"
  BY DEF NextFile
<1> HIDE DEF op
<1>3. previews' \in Seq(Previews) /\ PreviewsInv'
  BY <1>2, PreviewMade
<1>4. FilesInv(waiting', ready', n, tokens', patches')
  <2>1. CASE waiting' = Append(waiting, op) /\ ready' = rest
    BY <1>0, <1>1, <1>2, <2>1, FileJoins
  <2>2. CASE ready' = Append(rest, op) /\ waiting' = waiting
    <3>1. FilesInv(rest, waiting, n, tokens, patches)
      BY FilesSwap
    <3>2. FilesInv(Append(rest, op), waiting, n, tokens + 1, patches')
      BY <1>0, <1>1, <3>1, FileJoins
    <3> QED BY <1>2, <2>2, <3>2, FilesSwap
  <2> QED BY <1>2, <2>1, <2>2
<1>5. NotesTyped'
  BY <1>0, <1>2, <1>3 DEF NotesTyped
<1> QED BY <1>3, <1>4, <1>5

LEMMA NotesStep == ASSUME NotesInv, [NotesNext]_fileNotes PROVE NotesInv'
<1>0. /\ NotesTyped /\ PreviewsInv /\ FilesInv(waiting, ready, notes, tokens, patches)
      /\ tokens \in Nat /\ patches \in Nat /\ noteDay \in Nat /\ noteFaults \in Nat /\ noteFaults + 1 \in Nat
  BY DEF NotesInv, NotesTyped
<1>1. CASE ToolCompleted
  <2>1. PICK n \in 1 .. MaxFiles : NextFile(patches + 1, n - 1, ready)
    BY <1>1 DEF ToolCompleted
  <2>2. n - 1 \in Nat
    BY NoteBounds
  <2>3. /\ patches' = patches + 1
        /\ UNCHANGED <<notes, noteDay, streamOn, noteFaults>>
    BY <1>1 DEF ToolCompleted
  <2>4. /\ \A i \in DOMAIN waiting : waiting[i].call # patches + 1
        /\ \A i \in DOMAIN ready : ready[i].call # patches + 1
    <3>1. waiting \in Seq(CallOps) /\ ready \in Seq(CallOps) /\ Within(waiting, patches) /\ Within(ready, patches)
      BY <1>0 DEF FilesInv
    <3>0. /\ \A i \in DOMAIN waiting : waiting[i] \in CallOps
          /\ \A i \in DOMAIN ready : ready[i] \in CallOps
      BY <3>1
    <3>2. /\ \A i \in DOMAIN waiting : waiting[i].call \in Nat /\ waiting[i].call <= patches
          /\ \A i \in DOMAIN ready : ready[i].call \in Nat /\ ready[i].call <= patches
      BY <3>0, <3>1 DEF Within, CallOps
    <3>3. \A c \in Nat : c <= patches => c # patches + 1
      BY <1>0
    <3> QED BY <3>2, <3>3
  <2>5. patches + 1 \in Nat /\ patches <= patches' /\ patches + 1 <= patches' /\ patches' \in Nat
    BY <1>0, <2>3
  <2>6. NotesTyped' /\ PreviewsInv' /\ FilesInv(waiting', ready', notes, tokens', patches')
    BY <1>0, <2>1, <2>2, <2>3, <2>4, <2>5, NextFileJoins
  <2> QED BY <2>3, <2>6 DEF NotesInv
<1>2. CASE NoteQueued
  <2> DEFINE op == Head(ready)
             note == [call |-> op.call, token |-> op.token, sent |-> streamOn, native |-> botName = "known"]
             n == Append(notes, note)
  <2>1. /\ ready # <<>> /\ notes' = n
        /\ \/ op.left = 0 /\ ready' = Tail(ready) /\ UNCHANGED <<botName, previews, tokens, waiting>>
           \/ op.left # 0 /\ NextFile(op.call, op.left - 1, Tail(ready))
        /\ UNCHANGED <<patches, noteDay, streamOn, noteFaults>>
    BY <1>2 DEF NoteQueued
  <2>2. ready \in Seq(CallOps)
    BY <1>0 DEF FilesInv
  <2>3. op \in CallOps
    BY <2>1, <2>2, HeadTailProperties
  <2>4. note \in NoteRecords /\ note.call = op.call /\ note.token = op.token
    <3>1. (botName = "known") \in BOOLEAN /\ streamOn \in BOOLEAN
      BY <1>0 DEF NotesTyped
    <3> QED BY <2>3, <3>1 DEF NoteRecords, CallOps
  <2> HIDE DEF note
  <2>5. /\ FilesInv(waiting, Tail(ready), n, tokens, patches)
        /\ op.call <= patches
        /\ \A i \in DOMAIN waiting : waiting[i].call # op.call
        /\ \A i \in DOMAIN Tail(ready) : Tail(ready)[i].call # op.call
    BY <1>0, <2>1, <2>4, FileNoted
  <2> HIDE DEF n
  <2>6. CASE op.left = 0
    <3>1. FilesInv(waiting', ready', notes', tokens', patches')
      BY <2>1, <2>5, <2>6
    <3>2. NotesTyped' /\ PreviewsInv'
      BY <1>0, <2>1, <2>6 DEF NotesTyped, PreviewsInv
    <3> QED BY <3>1, <3>2 DEF NotesInv
  <2>7. CASE op.left # 0
    <3>1. op.call \in Nat /\ op.left - 1 \in Nat
      BY <2>3, <2>7 DEF CallOps
    <3>2. NextFile(op.call, op.left - 1, Tail(ready)) /\ patches' = patches
      BY <2>1, <2>7
    <3> HIDE DEF op
    <3>3. patches' \in Nat /\ patches <= patches' /\ op.call <= patches'
      BY <1>0, <2>5, <3>2
    <3>4. NotesTyped' /\ PreviewsInv' /\ FilesInv(waiting', ready', n, tokens', patches')
      BY <1>0, <2>1, <2>5, <3>1, <3>2, <3>3, NextFileJoins
    <3> QED BY <2>1, <3>4 DEF NotesInv
  <2> QED BY <2>6, <2>7
<1>3. CASE PreviewFails
  <2>1. FilesInv(waiting, ready, notes, tokens, patches + 1)
    <3>1. waiting \in Seq(CallOps) /\ ready \in Seq(CallOps) /\ Within(waiting, patches) /\ Within(ready, patches)
      BY <1>0 DEF FilesInv
    <3>0. /\ \A i \in DOMAIN waiting : waiting[i] \in CallOps
          /\ \A i \in DOMAIN ready : ready[i] \in CallOps
      BY <3>1
    <3>2. /\ \A i \in DOMAIN waiting : waiting[i].call \in Nat /\ waiting[i].call <= patches
          /\ \A i \in DOMAIN ready : ready[i].call \in Nat /\ ready[i].call <= patches
      BY <3>0, <3>1 DEF Within, CallOps
    <3>3. \A c \in Nat : c <= patches => c <= patches + 1
      BY <1>0
    <3>4. Within(waiting, patches + 1) /\ Within(ready, patches + 1)
      BY <3>2, <3>3 DEF Within
    <3> QED BY <1>0, <3>4 DEF FilesInv
  <2>2. patches + 1 \in Nat
    BY <1>0
  <2> QED BY <1>0, <1>3, <2>1, <2>2 DEF PreviewFails, NoteFault, NotesInv, NotesTyped, PreviewsInv
<1>4. ASSUME NEW found \in BOOLEAN, NameResolved(found) PROVE NotesInv'
  <2>1. FilesInv(ready, waiting, notes, tokens, patches)
    BY <1>0, FilesSwap
  <2>2. ready = <<>> /\ ready' = waiting /\ waiting' = <<>> /\ UNCHANGED <<previews, tokens, notes, patches, noteDay, streamOn>>
    BY <1>4 DEF NameResolved, Calm
  <2>3. FilesInv(waiting', ready', notes', tokens', patches')
    BY <2>1, <2>2
  <2>4. botName' \in {"unknown", "known"} /\ noteFaults' \in Nat
    BY <1>0, <1>4 DEF NameResolved, NoteFault
  <2> QED BY <1>0, <2>2, <2>3, <2>4 DEF NotesInv, NotesTyped, PreviewsInv
<1>5. CASE StreamToggled
  <2>1. streamOn' \in BOOLEAN
    BY <1>5 DEF StreamToggled
  <2> QED BY <1>0, <1>5, <2>1 DEF StreamToggled, NotesInv, NotesTyped, PreviewsInv
<1>6. CASE NoteDayPasses
  <2>1. noteDay + 1 \in Nat /\ (noteDay + 1 <= PreviewTtl => noteDay <= PreviewTtl)
    BY <1>0, NoteBounds
  <2> QED BY <1>0, <1>6, <2>1 DEF NoteDayPasses, NotesInv, NotesTyped, PreviewsInv
<1>7. CASE PreviewsPruned
  <2>1. previews \in Seq(Previews) /\ MaxPreviews \in Nat /\ Len(previews) \in Nat
    BY <1>0, NoteBounds, LenProperties DEF NotesTyped
  <2>2. previews' = Prune(previews)
    BY <1>7 DEF PreviewsPruned
  <2>3. previews' \in Seq(Previews)
    BY <1>0, <2>1, <2>2, PruneLeaves
  <2>4. ASSUME noteDay <= PreviewTtl
        PROVE  Len(previews') = Len(previews) /\ \A k \in DOMAIN previews' : k \in DOMAIN previews /\ previews'[k] = previews[k]
    <3>1. Len(previews) <= MaxPreviews
      BY <1>0, <2>1, <2>4 DEF PreviewsInv
    <3>2. Len(previews') = Len(previews)
      BY <1>0, <2>1, <2>2, <2>4, <3>1, PruneLeaves
    <3>3. ASSUME NEW k \in DOMAIN previews' PROVE k \in DOMAIN previews /\ previews'[k] = previews[k]
      <4>1. k \in Nat
        BY <2>3
      <4>2. Len(previews) - Len(previews') + k = k
        BY <2>1, <3>2, <4>1
      <4> QED BY <1>0, <2>1, <2>2, <2>4, <3>3, <4>2, PruneLeaves
    <3> QED BY <3>2, <3>3
  <2>5. PreviewsInv'
    BY <1>0, <1>7, <2>4 DEF PreviewsInv, PreviewsPruned
  <2> QED BY <1>0, <1>7, <2>3, <2>5 DEF PreviewsPruned, NotesInv, NotesTyped
<1>8. CASE UNCHANGED fileNotes
  BY <1>0, <1>8 DEF fileNotes, NotesInv, NotesTyped, PreviewsInv
<1> QED BY <1>1, <1>2, <1>3, <1>4, <1>5, <1>6, <1>7, <1>8 DEF NotesNext

LEMMA NotesAreThere == ASSUME NotesInv PROVE NotesFollowFiles
<1>0. /\ waiting \in Seq(CallOps) /\ ready \in Seq(CallOps) /\ notes \in Seq(NoteRecords) /\ previews \in Seq(Previews)
      /\ tokens \in Nat /\ noteDay \in Nat /\ MaxPreviews \in Nat /\ PreviewTtl \in Nat
  BY NoteBounds DEF NotesInv, FilesInv, NotesTyped
<1>1. {op.token : op \in ToSet(waiting \o ready)} = Tokens(waiting) \cup Tokens(ready)
  <2> DEFINE s == waiting \o ready
  <2>1. /\ DOMAIN s = 1 .. Len(waiting) + Len(ready)
        /\ \A i \in DOMAIN s : s[i] = IF i <= Len(waiting) THEN waiting[i] ELSE ready[i - Len(waiting)]
        /\ DOMAIN waiting = 1 .. Len(waiting) /\ DOMAIN ready = 1 .. Len(ready)
        /\ Len(waiting) \in Nat /\ Len(ready) \in Nat
    BY <1>0, ConcatProperties, LenProperties
  <2> HIDE DEF s
  <2>2. \A i \in DOMAIN waiting : i \in DOMAIN s /\ s[i] = waiting[i]
    BY <2>1
  <2>3. \A i \in DOMAIN ready : i + Len(waiting) \in DOMAIN s /\ s[i + Len(waiting)] = ready[i]
    <3> SUFFICES ASSUME NEW i \in DOMAIN ready PROVE i + Len(waiting) \in DOMAIN s /\ s[i + Len(waiting)] = ready[i]
      OBVIOUS
    <3>1. i \in 1 .. Len(ready) /\ i + Len(waiting) \in 1 .. Len(waiting) + Len(ready)
          /\ ~(i + Len(waiting) <= Len(waiting)) /\ (i + Len(waiting)) - Len(waiting) = i
      BY <2>1
    <3> QED BY <2>1, <3>1
  <2>4. \A i \in DOMAIN s : \/ i \in DOMAIN waiting /\ s[i] = waiting[i]
                            \/ i - Len(waiting) \in DOMAIN ready /\ s[i] = ready[i - Len(waiting)]
    BY <2>1
  <2>5. \A t : (\E i \in DOMAIN s : s[i].token = t) <=>
                 \/ \E i \in DOMAIN waiting : waiting[i].token = t
                 \/ \E i \in DOMAIN ready : ready[i].token = t
    <3> SUFFICES ASSUME NEW t PROVE (\E i \in DOMAIN s : s[i].token = t) <=>
                                      \/ \E i \in DOMAIN waiting : waiting[i].token = t
                                      \/ \E i \in DOMAIN ready : ready[i].token = t
      OBVIOUS
    <3>1. (\E i \in DOMAIN s : s[i].token = t) => \/ \E i \in DOMAIN waiting : waiting[i].token = t
                                                  \/ \E i \in DOMAIN ready : ready[i].token = t
      BY <2>4
    <3>2. (\E i \in DOMAIN waiting : waiting[i].token = t) => \E i \in DOMAIN s : s[i].token = t
      BY <2>2
    <3>3. (\E i \in DOMAIN ready : ready[i].token = t) => \E i \in DOMAIN s : s[i].token = t
      BY <2>3
    <3> QED BY <3>1, <3>2, <3>3
  <2>6. {op.token : op \in ToSet(s)} = {s[i].token : i \in DOMAIN s}
    BY DEF ToSet
  <2> QED BY <2>5, <2>6 DEF Tokens, s
<1>2. {m.token : m \in ToSet(notes)} = Tokens(notes)
  BY DEF ToSet, Tokens
<1>3. /\ Tokens(notes) \cup (Tokens(waiting) \cup Tokens(ready)) = 1 .. tokens
      /\ Tokens(notes) \cap (Tokens(waiting) \cup Tokens(ready)) = {}
      /\ Ascends(notes)
  BY DEF NotesInv, FilesInv
<1>4. ASSUME NEW t \in 1 .. tokens, t + MaxPreviews > tokens, ~(noteDay > PreviewTtl)
      PROVE  \E p \in ToSet(previews) : p.token = t
  <2>1. /\ Len(previews) = IF tokens <= MaxPreviews THEN tokens ELSE MaxPreviews
        /\ \A k \in DOMAIN previews : previews[k].token = tokens - Len(previews) + k
    BY <1>0, <1>4 DEF NotesInv, PreviewsInv
  <2>2. DOMAIN previews = 1 .. Len(previews) /\ Len(previews) \in Nat
    BY <1>0, LenProperties
  <2> DEFINE k == t - tokens + Len(previews)
  <2>3. k \in 1 .. Len(previews) /\ tokens - Len(previews) + k = t
    BY <1>0, <1>4, <2>1, <2>2
  <2> HIDE DEF k
  <2>4. previews[k] \in ToSet(previews) /\ previews[k].token = t
    BY <2>1, <2>2, <2>3 DEF ToSet
  <2> QED BY <2>4
<1>5. \A i, j \in DOMAIN notes : i < j /\ notes[i].call = notes[j].call => notes[i].token < notes[j].token
  BY <1>3 DEF Ascends
<1> QED BY <1>1, <1>2, <1>3, <1>4, <1>5 DEF NotesFollowFiles

-----------------------------------------------------------------------------
(* The catalog of skills *)

Entries == [name : Skills, installed : BOOLEAN]
Tabs == [query : Queries, filter : Filters, timer : BOOLEAN, catalog : SUBSET Entries,
         local : SUBSET Skills, busy : Skills \cup {NoSkill}]
SearchRecords == [query : Queries, filter : Filters, mutation : Skills \cup {NoSkill},
            catalog : {"none", "ok", "error"}, items : SUBSET Entries,
            installed : {"none", "ok", "shown"}, names : SUBSET Skills]
Mutations == [id : Nat, name : Skills, remove : BOOLEAN, query : Queries, filter : Filters,
              answer : {"none", "ok", "error"}]

Delays == {"other query", "overtaken", "failed"}
Ledgers == [acts : Nat, faults : Nat, stale : SUBSET Delays, crossed : BOOLEAN]

SkillsTyped ==
    /\ volume \in SUBSET Skills
    /\ cardTab \in Tabs
    /\ searches \in Seq(SearchRecords)
    /\ mutations \in SUBSET Mutations
    /\ ledger \in Ledgers

(* The positions of searches that end a change. *)
Ending == {n \in DOMAIN searches : searches[n].mutation # NoSkill}

(* Unless two skills have crossed one change at most is under way, the     *)
(* request or the search that ends it, and its skill is the busy one.      *)
BusyInv ==
    ~ledger.crossed =>
        /\ \A m, n \in mutations : m = n
        /\ \A i, j \in Ending : i = j
        /\ mutations = {} \/ Ending = {}
        /\ \A m \in mutations : cardTab.busy = m.name
        /\ \A i \in Ending : cardTab.busy = searches[i].mutation

SkillsInv == SkillsTyped /\ BusyInv

LEMMA SkillsStart == ASSUME SkillsInit PROVE SkillsInv
<1>1. searches \in Seq(SearchRecords) /\ DOMAIN searches = {}
  BY EmptySeq DEF SkillsInit
<1>2. cardTab \in Tabs /\ volume \in SUBSET Skills /\ mutations = {}
  BY DEF SkillsInit, Tabs, Queries, Everything, Filters
<1>3. ledger \in Ledgers
  BY DEF SkillsInit, Ledgers
<1> QED BY <1>1, <1>2, <1>3 DEF SkillsInv, SkillsTyped, BusyInv, Ending

(* What a sequence leaves when one element is taken out. *)
LEMMA TakenOut ==
    ASSUME NEW R, NEW s \in Seq(R), NEW n \in DOMAIN s
    PROVE  /\ RemoveAt(s, n) \in Seq(R)
           /\ \A i \in DOMAIN RemoveAt(s, n) :
                 \E j \in DOMAIN s : /\ j = (IF i < n THEN i ELSE i + 1) /\ j # n
                                     /\ RemoveAt(s, n)[i] = s[j]
           /\ DOMAIN RemoveAt(s, n) = 1 .. Len(s) - 1 /\ DOMAIN RemoveAt(s, n) \subseteq Nat
<1>1. /\ Len(s) \in Nat /\ DOMAIN s = 1 .. Len(s) /\ n \in 1 .. Len(s)
      /\ \A i \in 1 .. Len(s) : s[i] \in R
  BY LenProperties, ElementOfSeq
<1> DEFINE a == SubSeq(s, 1, n - 1)
           b == SubSeq(s, n + 1, Len(s))
<1>2. /\ a \in Seq(R) /\ Len(a) = n - 1 /\ \A i \in 1 .. n - 1 : a[i] = s[i]
  <2>1. \A i \in 1 .. n - 1 : s[i] \in R
    BY <1>1
  <2>2. /\ a \in Seq(R)
        /\ Len(a) = IF 1 <= n - 1 THEN n - 1 - 1 + 1 ELSE 0
        /\ \A i \in 1 .. n - 1 - 1 + 1 : a[i] = s[1 + i - 1]
    BY <1>1, <2>1, SubSeqProperties
  <2> HIDE DEF a
  <2> QED BY <1>1, <2>2
<1>3. /\ b \in Seq(R) /\ Len(b) = Len(s) - n /\ \A i \in 1 .. Len(s) - n : b[i] = s[n + i]
  <2>1. \A i \in n + 1 .. Len(s) : s[i] \in R
    BY <1>1
  <2>2. /\ b \in Seq(R)
        /\ Len(b) = IF n + 1 <= Len(s) THEN Len(s) - (n + 1) + 1 ELSE 0
        /\ \A i \in 1 .. Len(s) - (n + 1) + 1 : b[i] = s[n + 1 + i - 1]
    BY <1>1, <2>1, SubSeqProperties
  <2> HIDE DEF b
  <2>3. Len(s) - (n + 1) + 1 = Len(s) - n /\ (~(n + 1 <= Len(s)) => Len(s) - n = 0)
    BY <1>1
  <2>4. \A i \in 1 .. Len(s) - n : n + 1 + i - 1 = n + i
    BY <1>1
  <2> QED BY <2>2, <2>3, <2>4
<1>4. RemoveAt(s, n) = a \o b
  BY DEF RemoveAt
<1> HIDE DEF a, b
<1>5. /\ a \o b \in Seq(R)
      /\ Len(a \o b) = Len(a) + Len(b)
      /\ \A i \in 1 .. Len(a) + Len(b) : (a \o b)[i] = IF i <= Len(a) THEN a[i] ELSE b[i - Len(a)]
  BY <1>2, <1>3, ConcatProperties
<1> DEFINE c == a \o b
<1>6. DOMAIN c = 1 .. Len(s) - 1
  <2>1. c \in Seq(R) /\ Len(c) = Len(a) + Len(b)
    BY <1>5
  <2> HIDE DEF c
  <2>2. DOMAIN c = 1 .. Len(c)
    BY <2>1, LenProperties
  <2>3. Len(a) + Len(b) = Len(s) - 1
    BY <1>1, <1>2, <1>3
  <2> QED BY <2>1, <2>2, <2>3
<1>7. ASSUME NEW i \in 1 .. Len(s) - 1
      PROVE  \E j \in DOMAIN s : /\ j = (IF i < n THEN i ELSE i + 1) /\ j # n /\ c[i] = s[j]
  <2>1. CASE i < n
    BY <1>1, <1>2, <1>3, <1>5, <2>1
  <2>2. CASE ~(i < n)
    <3>1. i + 1 \in 1 .. Len(s) /\ i + 1 # n /\ i - (n - 1) \in 1 .. Len(s) - n /\ ~(i <= n - 1)
      BY <1>1, <2>2
    <3>2. (a \o b)[i] = b[i - (n - 1)]
      BY <1>1, <1>2, <1>3, <1>5, <3>1
    <3>3. b[i - (n - 1)] = s[n + (i - (n - 1))]
      BY <1>3, <3>1
    <3>4. n + (i - (n - 1)) = i + 1
      BY <1>1
    <3> QED BY <1>1, <2>2, <3>1, <3>2, <3>3, <3>4
  <2> QED BY <2>1, <2>2
<1>8. c \in Seq(R) /\ RemoveAt(s, n) = c
  BY <1>4, <1>5
<1> HIDE DEF c
<1>9. 1 .. Len(s) - 1 \subseteq Nat
  BY <1>1
<1> QED BY <1>6, <1>7, <1>8, <1>9

(* A search that begins moves the ledger. *)
LEMMA LedgerKept ==
    ASSUME SkillsTyped, NEW r, Searching(r, 0) \/ Searching(r, 1)
    PROVE  /\ ledger' \in Ledgers
           /\ ledger'.crossed = ledger.crossed
           /\ searches' = Append(searches, r)
<1> DEFINE stale == (IF searches = <<>> THEN {} ELSE ledger.stale)
                        \cup (IF r.query = cardTab.query /\ r.filter = cardTab.filter THEN {} ELSE {"other query"})
<1>1. ledger \in Ledgers /\ ledger.stale \in SUBSET Delays
  BY DEF SkillsTyped, Ledgers
<1>2. ledger.acts + 0 \in Nat /\ ledger.acts + 1 \in Nat
  BY <1>1 DEF Ledgers
<1>3. stale \in SUBSET Delays
  BY <1>1 DEF Delays
<1>4. \/ ledger' = [ledger EXCEPT !.acts = ledger.acts + 0, !.stale = stale]
      \/ ledger' = [ledger EXCEPT !.acts = ledger.acts + 1, !.stale = stale]
  BY DEF Searching
<1> HIDE DEF stale
<1>5. ASSUME NEW acts \in Nat, ledger' = [ledger EXCEPT !.acts = acts, !.stale = stale]
      PROVE  ledger' \in Ledgers /\ ledger'.crossed = ledger.crossed
  BY <1>1, <1>3, <1>5 DEF Ledgers
<1>6. searches' = Append(searches, r)
  BY DEF Searching
<1> QED BY <1>2, <1>4, <1>5, <1>6

LEMMA OvertakingMoves ==
    ASSUME ledger \in Ledgers, NEW older, Overtaking(older)
    PROVE  ledger' \in Ledgers /\ ledger'.crossed = ledger.crossed
<1> DEFINE stale == ledger.stale \cup IF older THEN {"overtaken"} ELSE {}
<1>1. stale \in SUBSET Delays
  BY DEF Ledgers, Delays
<1>2. ledger' = [ledger EXCEPT !.stale = stale]
  BY DEF Overtaking
<1> HIDE DEF stale
<1> QED BY <1>1, <1>2 DEF Ledgers

LEMMA FaultMoves ==
    ASSUME ledger \in Ledgers, ledger' = [ledger EXCEPT !.faults = @ + 1, !.stale = @ \cup {"failed"}]
    PROVE  ledger' \in Ledgers /\ ledger'.crossed = ledger.crossed
<1> DEFINE stale == ledger.stale \cup {"failed"}
           faults == ledger.faults + 1
<1>0. ledger.stale \in SUBSET Delays /\ ledger.faults \in Nat
  BY DEF Ledgers
<1>1. stale \in SUBSET Delays
  BY <1>0 DEF Delays
<1>3. faults \in Nat
  BY <1>0
<1>2. ledger' = [ledger EXCEPT !.faults = faults, !.stale = stale]
  OBVIOUS
<1> HIDE DEF stale, faults
<1> QED BY <1>1, <1>2, <1>3 DEF Ledgers

LEMMA SearchAdded ==
    ASSUME SkillsTyped, NEW q \in Queries, NEW f \in Filters, NEW m \in Skills \cup {NoSkill},
           searches' = Append(searches, Search(q, f, m))
    PROVE  /\ searches' \in Seq(SearchRecords)
           /\ \A i \in DOMAIN searches' :
                 \/ i \in DOMAIN searches /\ searches'[i] = searches[i]
                 \/ i = Len(searches) + 1 /\ searches'[i].mutation = m
<1>1. Search(q, f, m) \in SearchRecords /\ Search(q, f, m).mutation = m
  BY DEF Search, SearchRecords
<1> DEFINE x == Search(q, f, m)
<1> HIDE DEF x
<1> QED BY <1>1, AppendProperties, LenProperties DEF SkillsTyped, x

LEMMA SearchMoves ==
    ASSUME SkillsTyped, NEW n \in DOMAIN searches, NEW x \in SearchRecords,
           searches' = [searches EXCEPT ![n] = x]
    PROVE  /\ searches' \in Seq(SearchRecords)
           /\ DOMAIN searches' = DOMAIN searches
           /\ \A i \in DOMAIN searches : searches'[i] = IF i = n THEN x ELSE searches[i]
<1>1. searches' \in Seq(SearchRecords)
  BY ExceptSeq, LenProperties DEF SkillsTyped
<1> QED BY <1>1 DEF SkillsTyped

(* A search that goes on ends what it was to end. *)
LEMMA SameSearch ==
    ASSUME SkillsInv, NEW n \in DOMAIN searches, NEW x \in SearchRecords,
           searches' = [searches EXCEPT ![n] = x], x.mutation = searches[n].mutation,
           UNCHANGED <<volume, mutations>>, cardTab' \in Tabs, cardTab'.busy = cardTab.busy,
           ledger' \in Ledgers, ledger'.crossed = ledger.crossed
    PROVE  SkillsInv'
<1>1. /\ searches' \in Seq(SearchRecords) /\ DOMAIN searches' = DOMAIN searches
      /\ \A i \in DOMAIN searches : searches'[i].mutation = searches[i].mutation
  BY SearchMoves DEF SkillsInv
<1>2. Ending' = Ending
  BY <1>1 DEF Ending
<1>3. \A i \in Ending : searches'[i].mutation = searches[i].mutation
  BY <1>1 DEF Ending
<1> QED BY <1>1, <1>2, <1>3 DEF SkillsInv, SkillsTyped, BusyInv

(* Steps of searches. *)
LEMMA SearchesTurn ==
    ASSUME SkillsInv, NEW n \in DOMAIN searches,
           CatalogRead(n) \/ InstalledRead(n) \/ SearchFails(n) \/ InstalledShown(n) \/ SearchEnds(n)
    PROVE  SkillsInv'
<1> USE SkillBounds
<1> DEFINE r == searches[n]
<1>0. ledger \in Ledgers /\ cardTab \in Tabs
  BY DEF SkillsInv, SkillsTyped
<1>1. r \in SearchRecords
  BY ElementOfSeq, LenProperties DEF SkillsInv, SkillsTyped
<1>2. CASE CatalogRead(n)
  <2> DEFINE items == SearchCatalog(r.query, r.filter)
             x == [r EXCEPT !.catalog = "ok", !.items = items]
  <2>1. items \in SUBSET Entries
    <3>1. r.query \in Queries
      BY <1>1 DEF SearchRecords
    <3>2. \A s \in (IF r.query = Everything THEN Skills ELSE {r.query}) : s \in Skills
      BY <3>1 DEF Queries
    <3> DEFINE kept(found) == CASE r.filter = "all" -> found
                                [] r.filter = "installed" -> found \cap volume
                                [] r.filter = "available" -> found \ volume
    <3>3. r.filter \in Filters
      BY <1>1 DEF SearchRecords
    <3>4. \A found : kept(found) \subseteq found
      BY <3>3 DEF Filters
    <3>5. items = {[name |-> s, installed |-> s \in volume] :
                     s \in kept(IF r.query = Everything THEN Skills ELSE {r.query})}
      BY DEF SearchCatalog
    <3> HIDE DEF kept
    <3>6. \A s \in kept(IF r.query = Everything THEN Skills ELSE {r.query}) : s \in Skills
      BY <3>2, <3>4
    <3> SUFFICES ASSUME NEW y \in items PROVE y \in Entries
      OBVIOUS
    <3>7. PICK s \in kept(IF r.query = Everything THEN Skills ELSE {r.query}) :
             y = [name |-> s, installed |-> s \in volume]
      BY <3>5
    <3>8. s \in Skills /\ (s \in volume) \in BOOLEAN
      BY <3>6
    <3> QED BY <3>7, <3>8 DEF Entries
  <2>2. searches' = [searches EXCEPT ![n] = x]
    BY <1>2 DEF CatalogRead, SkillsInv, SkillsTyped
  <2> HIDE DEF items
  <2>3. x \in SearchRecords /\ x.mutation = r.mutation
    <3> HIDE DEF items
    <3> QED BY <1>1, <2>1 DEF SearchRecords
  <2> HIDE DEF x
  <2> QED BY <1>1, <1>2, <2>2, <2>3, SameSearch DEF CatalogRead, SkillsInv, SkillsTyped
<1>3. CASE InstalledRead(n)
  <2> DEFINE x == [r EXCEPT !.installed = "ok", !.names = volume]
  <2>2. searches' = [searches EXCEPT ![n] = x]
    BY <1>3 DEF InstalledRead, SkillsInv, SkillsTyped
  <2>3. x \in SearchRecords /\ x.mutation = r.mutation
    BY <1>1 DEF SearchRecords, SkillsInv, SkillsTyped
  <2> HIDE DEF x
  <2> QED BY <1>1, <1>3, <2>2, <2>3, SameSearch DEF InstalledRead, SkillsInv, SkillsTyped
<1>4. CASE InstalledShown(n)
  <2> DEFINE x == [r EXCEPT !.installed = "shown", !.names = {}]
  <2>2. searches' = [searches EXCEPT ![n] = x]
    BY <1>4 DEF InstalledShown, SkillsInv, SkillsTyped
  <2>3. x \in SearchRecords /\ x.mutation = r.mutation
    BY <1>1 DEF SearchRecords
  <2> HIDE DEF x
  <2>4. cardTab' \in Tabs /\ cardTab'.busy = cardTab.busy
    <3>1. r.names \in SUBSET Skills
      BY <1>1 DEF SearchRecords
    <3>2. cardTab' = [cardTab EXCEPT !.local = r.names]
      BY <1>4 DEF InstalledShown
    <3> HIDE DEF r
    <3> QED BY <1>0, <3>1, <3>2 DEF Tabs
  <2>5. ledger' \in Ledgers /\ ledger'.crossed = ledger.crossed
    BY <1>0, <1>4, OvertakingMoves DEF InstalledShown
  <2> QED BY <1>1, <1>4, <2>2, <2>3, <2>4, <2>5, SameSearch DEF InstalledShown
<1>5. CASE SearchFails(n)
  <2> DEFINE x == [r EXCEPT !.catalog = "error", !.mutation = NoSkill]
  <2>2. searches' = [searches EXCEPT ![n] = x]
    BY <1>5 DEF SearchFails, SkillsInv, SkillsTyped
  <2>3. x \in SearchRecords /\ x.mutation = NoSkill
    BY <1>1 DEF SearchRecords
  <2> HIDE DEF x
  <2>4. cardTab' \in Tabs /\ (r.mutation = NoSkill => cardTab'.busy = cardTab.busy)
    BY <1>1, <1>5 DEF SearchFails, MutationOver, SkillsInv, SkillsTyped, Tabs, SearchRecords
  <2>5. ledger' \in Ledgers /\ ledger'.crossed = ledger.crossed
    <3>1. ledger' = [ledger EXCEPT !.faults = @ + 1, !.stale = @ \cup {"failed"}] /\ ledger \in Ledgers
      BY <1>5 DEF SearchFails, SkillsInv, SkillsTyped
    <3> QED BY <3>1, FaultMoves
  <2>6. UNCHANGED <<volume, mutations>>
    BY <1>5 DEF SearchFails
  <2>7. SkillsTyped'
    BY <2>2, <2>3, <2>4, <2>5, <2>6, SearchMoves DEF SkillsInv, SkillsTyped
  <2>8. Ending' \subseteq Ending \ {n}
    BY <2>2, <2>3, SearchMoves DEF Ending, SkillsInv
  <2>9. \A i \in Ending' : searches'[i] = searches[i]
    BY <2>2, <2>3, <2>8, SearchMoves DEF Ending, SkillsInv
  <2>10. r.mutation # NoSkill => n \in Ending
    BY DEF Ending
  <2> QED BY <2>4, <2>5, <2>6, <2>7, <2>8, <2>9, <2>10 DEF SkillsInv, BusyInv
<1>6. CASE SearchEnds(n)
  <2>1. /\ searches' = RemoveAt(searches, n) /\ UNCHANGED <<volume, mutations>>
        /\ cardTab' = MutationOver(r.mutation, IF r.catalog = "ok" THEN [cardTab EXCEPT !.catalog = r.items] ELSE cardTab)
    BY <1>6 DEF SearchEnds
  <2>2. cardTab' \in Tabs /\ (r.mutation = NoSkill => cardTab'.busy = cardTab.busy)
    <3> DEFINE t == IF r.catalog = "ok" THEN [cardTab EXCEPT !.catalog = r.items] ELSE cardTab
    <3>1. r.items \in SUBSET Entries
      BY <1>1 DEF SearchRecords
    <3>2. t \in Tabs /\ t.busy = cardTab.busy
      <4> HIDE DEF r
      <4> QED BY <1>0, <3>1 DEF Tabs
    <3>3. cardTab' = MutationOver(r.mutation, t)
      BY <2>1
    <3> HIDE DEF t, r
    <3> QED BY <3>2, <3>3 DEF MutationOver, Tabs
  <2>3. ledger' \in Ledgers /\ ledger'.crossed = ledger.crossed
    BY <1>0, <1>6, OvertakingMoves DEF SearchEnds
  <2>4. /\ searches' \in Seq(SearchRecords) /\ DOMAIN searches' \subseteq Nat
        /\ \A i \in DOMAIN searches' : \E j \in DOMAIN searches :
              j = (IF i < n THEN i ELSE i + 1) /\ j # n /\ searches'[i] = searches[j]
    BY <2>1, TakenOut DEF SkillsInv, SkillsTyped
  <2>5. n \in Nat
    BY LenProperties DEF SkillsInv, SkillsTyped
  <2>6. \A i \in Ending' : \E j \in Ending : j = (IF i < n THEN i ELSE i + 1) /\ j # n /\ searches'[i] = searches[j]
    BY <2>4 DEF Ending
  <2>7. \A i, k \in Ending' : (\A j, l \in Ending : j = l) => i = k
    <3> SUFFICES ASSUME NEW i \in Ending', NEW k \in Ending', \A j, l \in Ending : j = l PROVE i = k
      OBVIOUS
    <3>1. i \in Nat /\ k \in Nat
      BY <2>4 DEF Ending
    <3>2. (IF i < n THEN i ELSE i + 1) = (IF k < n THEN k ELSE k + 1)
      BY <2>6
    <3>3. (IF i < n THEN i ELSE i + 1) # n
      BY <2>6
    <3> QED BY <2>5, <3>1, <3>2, <3>3
  <2>8. r.mutation # NoSkill => n \in Ending
    BY DEF Ending
  <2>9. SkillsTyped'
    BY <2>1, <2>2, <2>3, <2>4 DEF SkillsInv, SkillsTyped
  <2> QED BY <2>1, <2>2, <2>3, <2>6, <2>7, <2>8, <2>9 DEF SkillsInv, BusyInv
<1> QED BY <1>2, <1>3, <1>4, <1>5, <1>6

(* Steps of the tab. *)
LEMMA CardsAreSkills == ASSUME SkillsTyped, NEW card \in CardsOf(cardTab) PROVE card \in Entries
<1>1. CASE cardTab.filter = "installed"
  <2>1. PICK s \in cardTab.local : card = [name |-> s, installed |-> TRUE]
    BY <1>1 DEF CardsOf
  <2> QED BY <2>1 DEF SkillsTyped, Tabs, Entries
<1>2. CASE cardTab.filter # "installed"
  BY <1>2 DEF CardsOf, SkillsTyped, Tabs
<1> QED BY <1>1, <1>2

(* A search that is added ends no change that was not under way. *)
LEMMA AddedKeeps ==
    ASSUME SkillsInv, NEW q \in Queries, NEW f \in Filters, UNCHANGED <<volume, mutations>>,
           Searching(Search(q, f, NoSkill), 0) \/ Searching(Search(q, f, NoSkill), 1),
           cardTab' \in Tabs, cardTab'.busy = cardTab.busy
    PROVE  SkillsInv'
<1>1. /\ ledger' \in Ledgers
      /\ ledger'.crossed = ledger.crossed
      /\ searches' = Append(searches, Search(q, f, NoSkill))
  BY LedgerKept DEF SkillsInv
<1>2. /\ searches' \in Seq(SearchRecords)
      /\ \A i \in DOMAIN searches' :
            \/ i \in DOMAIN searches /\ searches'[i] = searches[i]
            \/ i = Len(searches) + 1 /\ searches'[i].mutation = NoSkill
  BY <1>1, SearchAdded DEF SkillsInv
<1>3. \A i \in Ending' : i \in Ending /\ searches'[i] = searches[i]
  BY <1>2 DEF Ending
<1> QED BY <1>1, <1>2, <1>3 DEF SkillsInv, SkillsTyped, BusyInv

LEMMA TabTurns ==
    ASSUME SkillsInv,
           \/ \E w \in Lookups : QueryChosen(w[1], w[2])
           \/ DebounceFires \/ PollFires
           \/ \E card \in CardsOf(cardTab) : MutationClicked(card)
    PROVE  SkillsInv'
<1>1. CASE \E w \in Lookups : QueryChosen(w[1], w[2])
  <2>1. PICK w \in Lookups : QueryChosen(w[1], w[2])
    BY <1>1
  <2>2. w[1] \in Queries /\ w[2] \in Filters
    BY LookupsAssumption
  <2>3. cardTab' \in Tabs /\ cardTab'.busy = cardTab.busy
    <3>1. cardTab' = [cardTab EXCEPT !.query = w[1], !.filter = w[2], !.timer = TRUE]
      BY <2>1 DEF QueryChosen
    <3> QED BY <2>2, <3>1 DEF SkillsInv, SkillsTyped, Tabs
  <2>4. ledger' \in Ledgers /\ ledger'.crossed = ledger.crossed
    <3>1. ledger' = [ledger EXCEPT !.acts = ledger.acts + 1] /\ ledger \in Ledgers
      BY <2>1 DEF QueryChosen, SkillsInv, SkillsTyped
    <3> QED BY <3>1 DEF Ledgers
  <2> QED BY <2>1, <2>3, <2>4 DEF QueryChosen, SkillsInv, SkillsTyped, BusyInv, Ending
<1>2. CASE DebounceFires
  <2>1. cardTab' \in Tabs /\ cardTab'.busy = cardTab.busy
    BY <1>2 DEF DebounceFires, SkillsInv, SkillsTyped, Tabs
  <2>2. cardTab.query \in Queries /\ cardTab.filter \in Filters
    BY DEF SkillsInv, SkillsTyped, Tabs
  <2> QED BY <1>2, <2>1, <2>2, AddedKeeps DEF DebounceFires
<1>3. CASE PollFires
  <2>1. "" \in Queries /\ "all" \in Filters /\ cardTab \in Tabs
    BY DEF Queries, Filters, Everything, SkillsInv, SkillsTyped
  <2> QED BY <1>3, <2>1, AddedKeeps DEF PollFires, Everything
<1>4. CASE \E card \in CardsOf(cardTab) : MutationClicked(card)
  <2>1. PICK card \in CardsOf(cardTab) : MutationClicked(card)
    BY <1>4
  <2>2. card \in Entries
    BY CardsAreSkills DEF SkillsInv
  <2> DEFINE m == [id |-> ledger.acts, name |-> card.name, remove |-> card.installed,
                   query |-> cardTab.query, filter |-> cardTab.filter, answer |-> "none"]
  <2>3. m \in Mutations /\ m.name = card.name /\ card.name \in Skills
    BY <2>2 DEF Entries, Mutations, SkillsInv, SkillsTyped, Tabs, Ledgers
  <2>4. /\ mutations' = mutations \cup {m} /\ card.name # cardTab.busy
        /\ cardTab' = [cardTab EXCEPT !.busy = card.name]
        /\ UNCHANGED <<volume, searches>>
    BY <2>1 DEF MutationClicked
  <2> HIDE DEF m
  <2> DEFINE crossed == \/ ledger.crossed
                        \/ \E k \in mutations : k.name # card.name
                        \/ \E n \in DOMAIN searches : searches[n].mutation \notin {NoSkill, card.name}
  <2>5. /\ ledger' \in Ledgers
        /\ ledger'.crossed = crossed
    <3>1. ledger' = [ledger EXCEPT !.acts = ledger.acts + 1, !.crossed = crossed]
      BY <2>1 DEF MutationClicked
    <3>2. ledger \in Ledgers
      BY DEF SkillsInv, SkillsTyped
    <3>3. ledger.acts + 1 \in Nat /\ crossed \in BOOLEAN
      BY <3>2 DEF Ledgers
    <3> HIDE DEF crossed
    <3> QED BY <3>1, <3>2, <3>3 DEF Ledgers
  <2>6. cardTab' \in Tabs /\ cardTab'.busy = card.name
    BY <2>3, <2>4 DEF SkillsInv, SkillsTyped, Tabs
  <2>7. SkillsTyped'
    BY <2>3, <2>4, <2>5, <2>6 DEF SkillsInv, SkillsTyped
  <2>8. ~crossed => mutations = {} /\ Ending = {}
    BY <2>3, <2>4 DEF SkillsInv, BusyInv, Ending
  <2> QED BY <2>3, <2>4, <2>5, <2>6, <2>7, <2>8 DEF SkillsInv, BusyInv, Ending
<1> QED BY <1>1, <1>2, <1>3, <1>4

(* Steps of the requests that change a skill. *)
LEMMA MutationsTurn ==
    ASSUME SkillsInv, NEW m \in mutations,
           MutationServed(m) \/ MutationFails(m) \/ MutationAnswered(m) \/ MutationRefused(m)
    PROVE  SkillsInv'
<1>1. m \in Mutations
  BY DEF SkillsInv, SkillsTyped
<1>2. ASSUME NEW x \in Mutations, x.name = m.name, mutations' = (mutations \ {m}) \cup {x},
             volume' \in SUBSET Skills, UNCHANGED <<cardTab, searches>>,
             ledger' \in Ledgers,
             ledger'.crossed = ledger.crossed
      PROVE  SkillsInv'
  BY <1>2 DEF SkillsInv, SkillsTyped, BusyInv, Ending
<1>3. CASE MutationServed(m)
  <2>1. [m EXCEPT !.answer = "ok"] \in Mutations /\ [m EXCEPT !.answer = "ok"].name = m.name
    BY <1>1 DEF Mutations
  <2>2. volume' \in SUBSET Skills
    BY <1>1, <1>3 DEF MutationServed, Mutations, SkillsInv, SkillsTyped
  <2> QED BY <1>2, <1>3, <2>1, <2>2 DEF MutationServed, SkillsInv, SkillsTyped
<1>4. CASE MutationFails(m)
  <2>1. [m EXCEPT !.answer = "error"] \in Mutations /\ [m EXCEPT !.answer = "error"].name = m.name
    BY <1>1 DEF Mutations
  <2>2. ledger' \in Ledgers /\ ledger'.crossed = ledger.crossed
    <3>1. ledger' = [ledger EXCEPT !.faults = @ + 1, !.stale = @ \cup {"failed"}] /\ ledger \in Ledgers
      BY <1>4 DEF MutationFails, SkillsInv, SkillsTyped
    <3> QED BY <3>1, FaultMoves
  <2> QED BY <1>2, <1>4, <2>1, <2>2 DEF MutationFails, SkillsInv, SkillsTyped
<1>5. CASE MutationAnswered(m)
  <2>1. /\ mutations' = mutations \ {m} /\ UNCHANGED <<volume, cardTab>>
        /\ Searching(Search(m.query, m.filter, m.name), 0)
    BY <1>5 DEF MutationAnswered
  <2>2. m.query \in Queries /\ m.filter \in Filters /\ m.name \in Skills /\ m.name # NoSkill
    BY <1>1, SkillBounds DEF Mutations, NoSkill
  <2>3. /\ ledger' \in Ledgers
        /\ ledger'.crossed = ledger.crossed
        /\ searches' = Append(searches, Search(m.query, m.filter, m.name))
    BY <2>1, LedgerKept DEF SkillsInv
  <2>4. /\ searches' \in Seq(SearchRecords)
        /\ \A i \in DOMAIN searches' :
              \/ i \in DOMAIN searches /\ searches'[i] = searches[i]
              \/ i = Len(searches) + 1 /\ searches'[i].mutation = m.name
    BY <2>2, <2>3, SearchAdded DEF SkillsInv
  <2>5. SkillsTyped'
    BY <2>1, <2>3, <2>4 DEF SkillsInv, SkillsTyped
  <2>6. ~ledger.crossed => mutations' = {} /\ Ending = {} /\ cardTab.busy = m.name
    BY <2>1 DEF SkillsInv, BusyInv
  <2>7. \A i \in Ending' : i \in Ending \/ (i = Len(searches) + 1 /\ searches'[i].mutation = m.name)
    BY <2>4 DEF Ending
  <2> QED BY <2>1, <2>3, <2>5, <2>6, <2>7 DEF SkillsInv, BusyInv
<1>6. CASE MutationRefused(m)
  <2>1. cardTab' \in Tabs /\ mutations' = mutations \ {m} /\ UNCHANGED <<volume, searches, ledger>>
    BY <1>6 DEF MutationRefused, MutationOver, SkillsInv, SkillsTyped, Tabs
  <2> QED BY <2>1 DEF SkillsInv, SkillsTyped, BusyInv, Ending
<1> QED BY <1>3, <1>4, <1>5, <1>6

LEMMA SkillsStep == ASSUME SkillsInv, [SkillsNext]_skillsTab PROVE SkillsInv'
<1>1. CASE UNCHANGED skillsTab
  BY <1>1 DEF skillsTab, SkillsInv, SkillsTyped, BusyInv, Ending
<1> QED BY <1>1, SearchesTurn, TabTurns, MutationsTurn DEF SkillsNext

LEMMA BusyIsOne == ASSUME SkillsInv PROVE OneChangePerSkill
BY DEF SkillsInv, BusyInv, OneChangePerSkill

-----------------------------------------------------------------------------
(* What the catalog of skills shows *)

NewestSearch == searches[Len(searches)]

(* What the last search has read is so. *)
ReadsTrue(r) ==
    /\ r.catalog = "ok" => r.items = SearchCatalog(r.query, r.filter)
    /\ r.installed = "ok" => r.names = volume
    /\ r.installed = "shown" => cardTab.local = volume

SearchesInOrder ==
    \A j, k \in DOMAIN searches : j < k /\ searches[k].installed = "shown" => searches[j].installed = "shown"

(* While nothing has put the tab out of date, searches are shown in their  *)
(* order, none has failed, the last one asks for what the tab asks for,    *)
(* and unless a change is still to be searched for, it is or shows what is.*)
CatalogComes ==
    /\ \A n \in DOMAIN searches : searches[n].catalog # "error"
    /\ SearchesInOrder
    /\ ~cardTab.timer /\ searches # <<>> =>
          NewestSearch.query = cardTab.query /\ NewestSearch.filter = cardTab.filter
    /\ (\A m \in mutations : m.answer # "ok") =>
          /\ searches # <<>> => ReadsTrue(NewestSearch)
          /\ searches = <<>> /\ ~cardTab.timer =>
                cardTab.local = volume /\ cardTab.catalog = SearchCatalog(cardTab.query, cardTab.filter)

CatalogInv == SkillsInv /\ (ledger.stale = {} => CatalogComes)

LEMMA CatalogStarts == ASSUME SkillsInit PROVE CatalogInv
<1>1. cardTab.timer = TRUE /\ searches = <<>> /\ DOMAIN searches = {}
  BY DEF SkillsInit
<1> QED BY <1>1, SkillsStart DEF CatalogInv, CatalogComes, SearchesInOrder

LEMMA SearchesHere ==
    ASSUME SkillsTyped
    PROVE  /\ Len(searches) \in Nat /\ DOMAIN searches = 1 .. Len(searches)
           /\ searches # <<>> <=> Len(searches) > 0
           /\ \A n \in DOMAIN searches : searches[n] \in SearchRecords
<1>1. Len(searches) \in Nat /\ DOMAIN searches = 1 .. Len(searches)
  BY LenProperties DEF SkillsTyped
<1>2. searches # <<>> <=> Len(searches) > 0
  BY <1>1, EmptySeq DEF SkillsTyped
<1>3. \A n \in DOMAIN searches : searches[n] \in SearchRecords
  BY <1>1, ElementOfSeq DEF SkillsTyped
<1> QED BY <1>1, <1>2, <1>3

(* The installed skills decide what is found and how it is marked. *)
LEMMA SameVolumeFinds ==
    ASSUME volume' = volume, NEW q, NEW f
    PROVE  SearchCatalog(q, f)' = SearchCatalog(q, f)
BY DEF SearchCatalog

(* A search that is added is the last one and has read nothing. *)
LEMMA SearchBegins ==
    ASSUME CatalogInv, SkillsInv', NEW q \in Queries, NEW f \in Filters, NEW m \in Skills \cup {NoSkill},
           Searching(Search(q, f, m), 0) \/ Searching(Search(q, f, m), 1),
           cardTab'.query = cardTab.query, cardTab'.filter = cardTab.filter
    PROVE  CatalogInv'
<1> DEFINE x == Search(q, f, m)
<1>1. x \in SearchRecords /\ x.query = q /\ x.filter = f /\ x.catalog = "none" /\ x.installed = "none"
  BY DEF Search, SearchRecords
<1>2. searches' = Append(searches, x)
  BY DEF Searching
<1>3. ledger'.stale = {} => /\ q = cardTab.query /\ f = cardTab.filter
                            /\ searches = <<>> \/ ledger.stale = {}
  <2> DEFINE stale == (IF searches = <<>> THEN {} ELSE ledger.stale)
                         \cup (IF x.query = cardTab.query /\ x.filter = cardTab.filter THEN {} ELSE {"other query"})
  <2>1. \E acts \in {0, 1} : ledger' = [ledger EXCEPT !.acts = @ + acts, !.stale = stale]
    BY DEF Searching
  <2>2. ledger \in Ledgers
    BY DEF CatalogInv, SkillsInv, SkillsTyped
  <2>3. ledger'.stale = stale
    <3> HIDE DEF stale
    <3> QED BY <2>1, <2>2 DEF Ledgers
  <2>4. stale = {} => /\ x.query = cardTab.query /\ x.filter = cardTab.filter
                      /\ searches = <<>> \/ ledger.stale = {}
    OBVIOUS
  <2> QED BY <1>1, <2>3, <2>4
<1> HIDE DEF x
<1>4. /\ searches' \in Seq(SearchRecords) /\ Len(searches') = Len(searches) + 1
      /\ \A n \in 1 .. Len(searches) : searches'[n] = searches[n]
      /\ searches'[Len(searches) + 1] = x
  BY <1>1, <1>2, AppendProperties DEF CatalogInv, SkillsInv, SkillsTyped
<1>5. /\ Len(searches) \in Nat /\ DOMAIN searches = 1 .. Len(searches)
      /\ searches # <<>> <=> Len(searches) > 0
  BY SearchesHere DEF CatalogInv, SkillsInv
<1>6. DOMAIN searches' = 1 .. Len(searches) + 1 /\ searches' # <<>> /\ NewestSearch' = x
  <2>1. DOMAIN searches' = 1 .. Len(searches')
    BY <1>4, LenProperties
  <2>2. searches' # <<>>
    BY <1>4, <1>5, EmptySeq
  <2> QED BY <1>4, <2>1, <2>2 DEF NewestSearch
<1>7. ASSUME ledger'.stale = {} PROVE CatalogComes'
  <2>1. ASSUME searches # <<>> PROVE CatalogComes
    BY <1>3, <1>7, <2>1 DEF CatalogInv
  <2>2. \A n \in DOMAIN searches' : n \in DOMAIN searches \/ (n = Len(searches) + 1 /\ searches'[n] = x)
    BY <1>4, <1>5, <1>6
  <2>3. \A n \in DOMAIN searches' : searches'[n].catalog # "error"
    BY <1>1, <1>4, <1>5, <2>1, <2>2 DEF CatalogComes
  <2>4. SearchesInOrder'
    <3> SUFFICES ASSUME NEW j \in DOMAIN searches', NEW k \in DOMAIN searches', j < k,
                        searches'[k].installed = "shown"
                 PROVE  searches'[j].installed = "shown"
      BY DEF SearchesInOrder
    <3>1. k \in DOMAIN searches /\ j \in DOMAIN searches
      BY <1>1, <1>5, <1>6, <2>2
    <3> QED BY <1>4, <1>5, <2>1, <3>1 DEF CatalogComes, SearchesInOrder
  <2>5. ReadsTrue(x)'
    BY <1>1 DEF ReadsTrue
  <2>6. NewestSearch'.query = cardTab'.query /\ NewestSearch'.filter = cardTab'.filter
    BY <1>1, <1>3, <1>6, <1>7
  <2> QED BY <1>6, <2>3, <2>4, <2>5, <2>6 DEF CatalogComes
<1> QED BY <1>7 DEF CatalogInv

(* A search goes on: what it has read is so, or it is not the last one. *)
LEMMA SearchGoesOn ==
    ASSUME CatalogInv, SkillsInv', NEW n \in DOMAIN searches, NEW x \in SearchRecords,
           searches' = [searches EXCEPT ![n] = x], UNCHANGED <<volume, mutations>>,
           x.query = searches[n].query, x.filter = searches[n].filter,
           cardTab'.timer = cardTab.timer, cardTab'.query = cardTab.query, cardTab'.filter = cardTab.filter,
           ledger'.stale = {} =>
              /\ ledger.stale = {} /\ x.catalog # "error"
              /\ x.installed = searches[n].installed \/ searches[n].installed # "shown"
              /\ x.installed = "shown" =>
                    \A j \in DOMAIN searches : j < n => searches[j].installed = "shown"
              /\ n = Len(searches) /\ ReadsTrue(searches[n]) => ReadsTrue(x)'
              /\ n # Len(searches) => cardTab'.local = cardTab.local \/ NewestSearch.installed # "shown"
    PROVE  CatalogInv'
<1>1. /\ Len(searches) \in Nat /\ DOMAIN searches = 1 .. Len(searches)
      /\ searches # <<>> <=> Len(searches) > 0
  BY SearchesHere DEF CatalogInv, SkillsInv
<1>2. /\ Len(searches') \in Nat /\ DOMAIN searches' = 1 .. Len(searches')
      /\ searches' # <<>> <=> Len(searches') > 0
  BY LenProperties, EmptySeq DEF SkillsInv, SkillsTyped
<1>3. /\ DOMAIN searches' = DOMAIN searches
      /\ \A i \in DOMAIN searches : searches'[i] = IF i = n THEN x ELSE searches[i]
  BY SearchMoves DEF CatalogInv, SkillsInv
<1>4. Len(searches') = Len(searches) /\ searches' # <<>> /\ searches # <<>>
  BY <1>1, <1>2, <1>3
<1>5. NewestSearch' = IF n = Len(searches) THEN x ELSE NewestSearch
  BY <1>1, <1>3, <1>4 DEF NewestSearch
<1>6. ASSUME ledger'.stale = {} PROVE CatalogComes'
  <2>1. CatalogComes /\ ledger.stale = {}
    BY <1>6 DEF CatalogInv
  <2>2. \A i \in DOMAIN searches' : searches'[i].catalog # "error"
    BY <1>3, <1>6, <2>1 DEF CatalogComes
  <2>3. SearchesInOrder'
    <3> SUFFICES ASSUME NEW j \in DOMAIN searches, NEW k \in DOMAIN searches, j < k,
                        searches'[k].installed = "shown"
                 PROVE  searches'[j].installed = "shown"
      BY <1>3 DEF SearchesInOrder
    <3>1. CASE k = n
      BY <1>3, <1>6, <3>1
    <3>2. CASE k # n
      <4>1. searches[j].installed = "shown"
        BY <1>3, <2>1, <3>2 DEF CatalogComes, SearchesInOrder
      <4> QED BY <1>3, <1>6, <4>1
    <3> QED BY <3>1, <3>2
  <2>4. ~cardTab'.timer => NewestSearch'.query = cardTab'.query /\ NewestSearch'.filter = cardTab'.filter
    <3>1. ~cardTab.timer => NewestSearch.query = cardTab.query /\ NewestSearch.filter = cardTab.filter
      BY <1>4, <2>1 DEF CatalogComes
    <3>2. n = Len(searches) => NewestSearch = searches[n]
      BY DEF NewestSearch
    <3> QED BY <1>5, <3>1, <3>2
  <2>5. ASSUME \A m \in mutations : m.answer # "ok" PROVE ReadsTrue(NewestSearch)'
    <3>1. ReadsTrue(NewestSearch)
      BY <1>4, <2>1, <2>5 DEF CatalogComes
    <3>2. CASE n = Len(searches)
      <4>1. ReadsTrue(x)'
        BY <1>6, <3>1, <3>2 DEF NewestSearch
      <4>2. NewestSearch' = x
        BY <1>5, <3>2
      <4> QED BY <4>1, <4>2 DEF ReadsTrue
    <3>3. CASE n # Len(searches)
      <4>1. NewestSearch' = NewestSearch
        BY <1>5, <3>3
      <4>2. SearchCatalog(NewestSearch.query, NewestSearch.filter)' = SearchCatalog(NewestSearch.query, NewestSearch.filter)
        BY <4>1 DEF SearchCatalog
      <4> QED BY <1>6, <3>1, <3>3, <4>1, <4>2 DEF ReadsTrue
    <3> QED BY <3>2, <3>3
  <2> QED BY <1>4, <2>2, <2>3, <2>4, <2>5 DEF CatalogComes
<1> QED BY <1>6 DEF CatalogInv

(* Once something failed the tab may be out of date. *)
LEMMA FailureIsKept ==
    ASSUME ledger \in Ledgers, ledger' = [ledger EXCEPT !.faults = @ + 1, !.stale = @ \cup {"failed"}]
    PROVE  ledger'.stale # {}
<1> DEFINE stale == ledger.stale \cup {"failed"}
           faults == ledger.faults + 1
<1>1. ledger' = [ledger EXCEPT !.faults = faults, !.stale = stale] /\ stale # {}
  OBVIOUS
<1> HIDE DEF stale, faults
<1> QED BY <1>1 DEF Ledgers

LEMMA OvertakingIsKept ==
    ASSUME ledger \in Ledgers, NEW older, Overtaking(older), ledger'.stale = {}
    PROVE  ledger.stale = {} /\ ~older
<1> DEFINE stale == ledger.stale \cup IF older THEN {"overtaken"} ELSE {}
<1>1. ledger' = [ledger EXCEPT !.stale = stale]
  BY DEF Overtaking
<1>2. stale = {} => ledger.stale = {} /\ ~older
  OBVIOUS
<1> HIDE DEF stale
<1>3. ledger'.stale = stale
  BY <1>1 DEF Ledgers
<1> QED BY <1>2, <1>3

LEMMA SearchesRead ==
    ASSUME CatalogInv, SkillsInv', NEW n \in DOMAIN searches,
           CatalogRead(n) \/ InstalledRead(n) \/ InstalledShown(n)
    PROVE  CatalogInv'
<1> DEFINE r == searches[n]
<1>1. r \in SearchRecords /\ Len(searches) \in Nat /\ DOMAIN searches = 1 .. Len(searches)
  BY SearchesHere DEF CatalogInv, SkillsInv
<1>2. ledger \in Ledgers /\ cardTab \in Tabs /\ volume \in SUBSET Skills
  BY DEF CatalogInv, SkillsInv, SkillsTyped
<1>3. ledger.stale = {} /\ r.installed = "shown" => \A j \in DOMAIN searches : j < n => searches[j].installed = "shown"
  BY DEF CatalogInv, CatalogComes, SearchesInOrder
<1>4. CASE CatalogRead(n)
  <2> DEFINE items == SearchCatalog(r.query, r.filter)
  <2>0. PICK x : x = [r EXCEPT !.catalog = "ok", !.items = items]
    OBVIOUS
  <2>1. searches' = [searches EXCEPT ![n] = x] /\ UNCHANGED <<volume, cardTab, mutations, ledger>>
    BY <1>4, <2>0 DEF CatalogRead, CatalogInv, SkillsInv, SkillsTyped
  <2>2. /\ x.query = r.query /\ x.filter = r.filter /\ x.catalog = "ok" /\ x.items = items
        /\ x.installed = r.installed /\ x.names = r.names
    <3> HIDE DEF items
    <3> QED BY <1>1, <2>0 DEF SearchRecords
  <2>3. x \in SearchRecords
    <3>1. /\ searches' \in Seq(SearchRecords) /\ DOMAIN searches' = 1 .. Len(searches') /\ n \in DOMAIN searches'
          /\ searches'[n] = x
      <4>1. DOMAIN searches' = DOMAIN searches /\ searches'[n] = x
        BY <2>1
      <4> QED BY <4>1, LenProperties DEF SkillsInv, SkillsTyped
    <3> QED BY <3>1, ElementOfSeq
  <2>4. ReadsTrue(r) => ReadsTrue(x)'
    <3>1. x.items = SearchCatalog(x.query, x.filter)'
      BY <2>1, <2>2 DEF SearchCatalog
    <3> QED BY <2>1, <2>2, <3>1 DEF ReadsTrue
  <2> QED BY <1>3, <2>1, <2>2, <2>3, <2>4, SearchGoesOn
<1>5. CASE InstalledRead(n)
  <2>0. PICK x : x = [r EXCEPT !.installed = "ok", !.names = volume]
    OBVIOUS
  <2>1. searches' = [searches EXCEPT ![n] = x] /\ r.installed = "none" /\ UNCHANGED <<volume, cardTab, mutations, ledger>>
    BY <1>5, <2>0 DEF InstalledRead, CatalogInv, SkillsInv, SkillsTyped
  <2>2. /\ x.query = r.query /\ x.filter = r.filter /\ x.catalog = r.catalog /\ x.items = r.items
        /\ x.installed = "ok" /\ x.names = volume /\ x \in SearchRecords
    BY <1>1, <1>2, <2>0 DEF SearchRecords
  <2>3. ReadsTrue(r) => ReadsTrue(x)'
    BY <2>1, <2>2, ZenonT(60) DEF ReadsTrue, SearchCatalog
  <2>4. ledger.stale = {} => x.catalog # "error"
    BY <2>2 DEF CatalogInv, CatalogComes
  <2> QED BY <2>1, <2>2, <2>3, <2>4, SearchGoesOn
<1>6. CASE InstalledShown(n)
  <2>0. PICK x : x = [r EXCEPT !.installed = "shown", !.names = {}]
    OBVIOUS
  <2>1. /\ searches' = [searches EXCEPT ![n] = x] /\ r.installed = "ok" /\ UNCHANGED <<volume, mutations>>
        /\ cardTab' = [cardTab EXCEPT !.local = r.names]
        /\ Overtaking(\E j \in 1 .. n - 1 : searches[j].installed # "shown")
    BY <1>6, <2>0 DEF InstalledShown, CatalogInv, SkillsInv, SkillsTyped
  <2>2. /\ x.query = r.query /\ x.filter = r.filter /\ x.catalog = r.catalog /\ x.items = r.items
        /\ x.installed = "shown" /\ x \in SearchRecords
    BY <1>1, <2>0 DEF SearchRecords
  <2>3. /\ cardTab'.local = r.names /\ cardTab'.timer = cardTab.timer /\ cardTab'.query = cardTab.query
        /\ cardTab'.filter = cardTab.filter
    <3> HIDE DEF r
    <3> QED BY <1>2, <2>1 DEF Tabs
  <2>4. ledger'.stale = {} => /\ ledger.stale = {}
                              /\ \A j \in DOMAIN searches : j < n => searches[j].installed = "shown"
    <3> SUFFICES ASSUME ledger'.stale = {}
                 PROVE  /\ ledger.stale = {}
                        /\ \A j \in DOMAIN searches : j < n => searches[j].installed = "shown"
      OBVIOUS
    <3> DEFINE older == \E j \in 1 .. n - 1 : searches[j].installed # "shown"
    <3>1. Overtaking(older)
      BY <2>1
    <3>2. ~older => \A j \in DOMAIN searches : j < n => searches[j].installed = "shown"
      BY <1>1
    <3> HIDE DEF older
    <3> QED BY <1>2, <3>1, <3>2, OvertakingIsKept
  <2>5. ReadsTrue(r) => ReadsTrue(x)'
    <3>1. SearchCatalog(x.query, x.filter)' = SearchCatalog(r.query, r.filter)
      BY <2>1, <2>2 DEF SearchCatalog
    <3> HIDE DEF r
    <3> QED BY <2>1, <2>2, <2>3, <3>1 DEF ReadsTrue
  <2>6. ledger.stale = {} => x.catalog # "error"
    BY <2>2 DEF CatalogInv, CatalogComes
  <2>7. ledger.stale = {} /\ n # Len(searches) => NewestSearch.installed # "shown"
    BY <1>1, <2>1 DEF CatalogInv, CatalogComes, SearchesInOrder, NewestSearch
  <2> QED BY <2>1, <2>2, <2>3, <2>4, <2>5, <2>6, <2>7, SearchGoesOn
<1> QED BY <1>4, <1>5, <1>6

LEMMA SameInterval ==
    ASSUME NEW a \in Nat, NEW b \in Nat, 1 .. a = 1 .. b
    PROVE  a = b
<1>1. CASE a < b
  BY <1>1
<1>2. CASE b < a
  BY <1>2
<1> QED BY <1>1, <1>2

LEMMA SearchIsOver ==
    ASSUME CatalogInv, SkillsInv', NEW n \in DOMAIN searches, SearchEnds(n)
    PROVE  CatalogInv'
<1> DEFINE r == searches[n]
<1>1. /\ r \in SearchRecords /\ Len(searches) \in Nat /\ DOMAIN searches = 1 .. Len(searches)
      /\ searches # <<>> <=> Len(searches) > 0
  BY SearchesHere DEF CatalogInv, SkillsInv
<1>2. ledger \in Ledgers /\ cardTab \in Tabs /\ searches \in Seq(SearchRecords)
  BY DEF CatalogInv, SkillsInv, SkillsTyped
<1>3. /\ r.catalog # "none" /\ r.installed = "shown" /\ searches' = RemoveAt(searches, n)
      /\ Overtaking(n > 1) /\ UNCHANGED <<volume, mutations>>
  BY DEF SearchEnds
<1>4. /\ cardTab'.timer = cardTab.timer /\ cardTab'.query = cardTab.query /\ cardTab'.filter = cardTab.filter
      /\ cardTab'.local = cardTab.local /\ cardTab'.catalog = IF r.catalog = "ok" THEN r.items ELSE cardTab.catalog
  <2> DEFINE t == IF r.catalog = "ok" THEN [cardTab EXCEPT !.catalog = r.items] ELSE cardTab
  <2>1. /\ t \in [query : Queries, filter : Filters, timer : BOOLEAN, catalog : SUBSET Entries,
                  local : SUBSET Skills, busy : Skills \cup {NoSkill}]
        /\ t.timer = cardTab.timer /\ t.query = cardTab.query /\ t.filter = cardTab.filter
        /\ t.local = cardTab.local /\ t.catalog = IF r.catalog = "ok" THEN r.items ELSE cardTab.catalog
    <3>1. r.items \in SUBSET Entries
      BY <1>1 DEF SearchRecords
    <3> HIDE DEF r
    <3> QED BY <1>2, <3>1 DEF Tabs
  <2>2. cardTab' = MutationOver(r.mutation, t)
    BY DEF SearchEnds
  <2> HIDE DEF t, r
  <2>3. cardTab' = t \/ cardTab' = [t EXCEPT !.busy = NoSkill]
    BY <2>2 DEF MutationOver
  <2> QED BY <2>1, <2>3
<1>5. ASSUME ledger'.stale = {} PROVE CatalogComes'
  <2>1. ledger.stale = {} /\ n = 1
    <3>1. ledger.stale = {} /\ ~(n > 1)
      BY <1>2, <1>3, <1>5, OvertakingIsKept
    <3> QED BY <1>1, <3>1
  <2>2. CatalogComes
    BY <2>1 DEF CatalogInv
  <2>3. /\ searches' \in Seq(SearchRecords) /\ DOMAIN searches' = 1 .. Len(searches) - 1
        /\ \A i \in DOMAIN searches' : i + 1 \in DOMAIN searches /\ searches'[i] = searches[i + 1]
    <3>1. /\ searches' \in Seq(SearchRecords)
          /\ DOMAIN searches' = 1 .. Len(searches) - 1
          /\ \A i \in DOMAIN searches' : \E j \in DOMAIN searches :
                j = (IF i < n THEN i ELSE i + 1) /\ j # n /\ searches'[i] = searches[j]
      BY <1>2, <1>3, TakenOut
    <3> QED BY <1>1, <2>1, <3>1
  <2>4. /\ Len(searches') = Len(searches) - 1 /\ (searches' # <<>> <=> Len(searches) > 1)
    <3>1. Len(searches') \in Nat /\ DOMAIN searches' = 1 .. Len(searches')
      BY <2>3, LenProperties
    <3>2. searches' # <<>> <=> Len(searches') > 0
      BY <2>3, <3>1, EmptySeq
    <3>3. 1 .. Len(searches') = 1 .. Len(searches) - 1
      BY <2>3, <3>1
    <3>5. Len(searches) - 1 \in Nat
      BY <1>1
    <3>4. Len(searches') = Len(searches) - 1
      BY <3>1, <3>3, <3>5, SameInterval
    <3> QED BY <1>1, <3>2, <3>4
  <2>5. \A i \in DOMAIN searches' : searches'[i].catalog # "error"
    BY <2>2, <2>3 DEF CatalogComes
  <2>6. SearchesInOrder'
    <3> SUFFICES ASSUME NEW j \in DOMAIN searches', NEW k \in DOMAIN searches', j < k,
                        searches'[k].installed = "shown"
                 PROVE  searches'[j].installed = "shown"
      BY DEF SearchesInOrder
    <3>1. j + 1 \in DOMAIN searches /\ k + 1 \in DOMAIN searches /\ j + 1 < k + 1
      BY <1>1, <2>3
    <3> QED BY <2>2, <2>3, <3>1 DEF CatalogComes, SearchesInOrder
  <2>7. searches' # <<>> => NewestSearch' = NewestSearch
    <3> SUFFICES ASSUME searches' # <<>> PROVE NewestSearch' = NewestSearch
      OBVIOUS
    <3>1. Len(searches) - 1 \in DOMAIN searches' /\ (Len(searches) - 1) + 1 = Len(searches)
      BY <1>1, <2>3, <2>4
    <3> QED BY <2>3, <2>4, <3>1 DEF NewestSearch
  <2>8. ~cardTab'.timer /\ searches' # <<>> =>
           NewestSearch'.query = cardTab'.query /\ NewestSearch'.filter = cardTab'.filter
    BY <1>1, <1>4, <2>2, <2>7 DEF CatalogComes
  <2>9. ASSUME \A m \in mutations : m.answer # "ok", searches' # <<>> PROVE ReadsTrue(NewestSearch)'
    <3>1. ReadsTrue(NewestSearch)
      BY <1>1, <2>2, <2>9 DEF CatalogComes
    <3>2. SearchCatalog(NewestSearch.query, NewestSearch.filter)' = SearchCatalog(NewestSearch.query, NewestSearch.filter)
      BY <1>3, <2>7, <2>9 DEF SearchCatalog
    <3> QED BY <1>3, <1>4, <2>7, <2>9, <3>1, <3>2 DEF ReadsTrue
  <2>10. ASSUME \A m \in mutations : m.answer # "ok", searches' = <<>>, ~cardTab'.timer
         PROVE  cardTab'.local = volume' /\ cardTab'.catalog = SearchCatalog(cardTab.query, cardTab.filter)'
    <3>1. searches # <<>> /\ NewestSearch = r
      BY <1>1, <2>1, <2>4, <2>10 DEF NewestSearch
    <3>2. ReadsTrue(r) /\ r.query = cardTab.query /\ r.filter = cardTab.filter
      BY <1>4, <2>2, <2>10, <3>1 DEF CatalogComes
    <3>3. r.catalog = "ok"
      BY <1>1, <1>3, <2>2 DEF CatalogComes, SearchRecords
    <3>4. SearchCatalog(cardTab.query, cardTab.filter)' = SearchCatalog(cardTab.query, cardTab.filter)
      BY <1>3, <1>4 DEF SearchCatalog
    <3> HIDE DEF r
    <3> QED BY <1>3, <1>4, <3>2, <3>3, <3>4 DEF ReadsTrue
  <2> QED BY <1>3, <2>5, <2>6, <2>8, <2>9, <2>10 DEF CatalogComes
<1> QED BY <1>5 DEF CatalogInv

(* The searches stay as they are. *)
LEMMA SearchesStay ==
    ASSUME CatalogInv, SkillsInv', searches' = searches, ledger'.stale = ledger.stale,
           cardTab'.timer \/ (cardTab'.query = cardTab.query /\ cardTab'.filter = cardTab.filter /\ cardTab'.timer = cardTab.timer),
           cardTab'.local = cardTab.local, cardTab'.catalog = cardTab.catalog,
           \/ \E m \in mutations' : m.answer = "ok"
           \/ volume' = volume /\ \A m \in mutations : m.answer = "ok" => m \in mutations'
    PROVE  CatalogInv'
<1>1. ASSUME ledger'.stale = {} PROVE CatalogComes'
  <2>1. CatalogComes
    BY <1>1 DEF CatalogInv
  <2>2. NewestSearch' = NewestSearch
    BY DEF NewestSearch
  <2>3. SearchesInOrder'
    BY <2>1 DEF CatalogComes, SearchesInOrder
  <2>4. ~cardTab'.timer /\ searches' # <<>> =>
           NewestSearch'.query = cardTab'.query /\ NewestSearch'.filter = cardTab'.filter
    BY <2>1, <2>2 DEF CatalogComes
  <2>5. ASSUME \A m \in mutations' : m.answer # "ok"
        PROVE  /\ searches' # <<>> => ReadsTrue(NewestSearch)'
               /\ searches' = <<>> /\ ~cardTab'.timer =>
                     cardTab'.local = volume' /\ cardTab'.catalog = SearchCatalog(cardTab.query, cardTab.filter)'
    <3>1. volume' = volume /\ \A m \in mutations : m.answer # "ok"
      BY <2>5
    <3>2. SearchCatalog(NewestSearch.query, NewestSearch.filter)' = SearchCatalog(NewestSearch.query, NewestSearch.filter)
      BY <2>2, <3>1 DEF SearchCatalog
    <3>3. searches' # <<>> => ReadsTrue(NewestSearch)'
      BY <2>1, <2>2, <3>1, <3>2 DEF CatalogComes, ReadsTrue
    <3>4. ~cardTab'.timer => SearchCatalog(cardTab.query, cardTab.filter)' = SearchCatalog(cardTab.query, cardTab.filter)
      BY <3>1 DEF SearchCatalog
    <3> QED BY <2>1, <3>1, <3>3, <3>4 DEF CatalogComes
  <2> QED BY <2>1, <2>3, <2>4, <2>5 DEF CatalogComes
<1> QED BY <1>1 DEF CatalogInv

LEMMA CatalogStep == ASSUME CatalogInv, [SkillsNext]_skillsTab PROVE CatalogInv'
<1>0. SkillsInv /\ SkillsInv' /\ ledger \in Ledgers /\ cardTab \in Tabs /\ mutations \in SUBSET Mutations
  BY SkillsStep DEF CatalogInv, SkillsInv, SkillsTyped
<1>1. ASSUME NEW w \in Lookups, QueryChosen(w[1], w[2]) PROVE CatalogInv'
  <2>1. /\ cardTab' = [cardTab EXCEPT !.query = w[1], !.filter = w[2], !.timer = TRUE]
        /\ ledger' = [ledger EXCEPT !.acts = @ + 1] /\ UNCHANGED <<volume, searches, mutations>>
    BY <1>1 DEF QueryChosen
  <2>2. cardTab'.timer = TRUE /\ cardTab'.local = cardTab.local /\ cardTab'.catalog = cardTab.catalog
    BY <1>0, <2>1 DEF Tabs
  <2>3. ledger'.stale = ledger.stale
    BY <1>0, <2>1 DEF Ledgers
  <2> QED BY <1>0, <2>1, <2>2, <2>3, SearchesStay
<1>2. CASE DebounceFires
  <2>1. cardTab.query \in Queries /\ cardTab.filter \in Filters /\ NoSkill \in Skills \cup {NoSkill}
    BY <1>0 DEF Tabs
  <2>2. cardTab'.query = cardTab.query /\ cardTab'.filter = cardTab.filter
    BY <1>0, <1>2 DEF DebounceFires, Tabs
  <2> QED BY <1>0, <1>2, <2>1, <2>2, SearchBegins DEF DebounceFires
<1>3. CASE PollFires
  <2>1. "" \in Queries /\ "all" \in Filters /\ NoSkill \in Skills \cup {NoSkill} /\ cardTab' = cardTab
    BY <1>3 DEF Queries, Filters, Everything, PollFires
  <2> QED BY <1>0, <1>3, <2>1, SearchBegins DEF PollFires, Everything
<1>4. ASSUME NEW card, MutationClicked(card) PROVE CatalogInv'
  <2> DEFINE crossed == \/ ledger.crossed
                        \/ \E m \in mutations : m.name # card.name
                        \/ \E n \in DOMAIN searches : searches[n].mutation \notin {NoSkill, card.name}
  <2>1. /\ cardTab' = [cardTab EXCEPT !.busy = card.name] /\ UNCHANGED <<volume, searches>>
        /\ ledger' = [ledger EXCEPT !.acts = @ + 1, !.crossed = crossed] /\ mutations \subseteq mutations'
    BY <1>4 DEF MutationClicked
  <2>2. /\ cardTab'.timer = cardTab.timer /\ cardTab'.query = cardTab.query /\ cardTab'.filter = cardTab.filter
        /\ cardTab'.local = cardTab.local /\ cardTab'.catalog = cardTab.catalog
    BY <1>0, <2>1 DEF Tabs
  <2> HIDE DEF crossed
  <2>3. ledger'.stale = ledger.stale
    BY <1>0, <2>1 DEF Ledgers
  <2> QED BY <1>0, <2>1, <2>2, <2>3, SearchesStay
<1>5. ASSUME NEW n \in DOMAIN searches, SearchFails(n) PROVE CatalogInv'
  <2>1. ledger' = [ledger EXCEPT !.faults = @ + 1, !.stale = @ \cup {"failed"}]
    BY <1>5 DEF SearchFails
  <2> QED BY <1>0, <2>1, FailureIsKept DEF CatalogInv
<1>6. ASSUME NEW m \in mutations, MutationServed(m) PROVE CatalogInv'
  <2>1. [m EXCEPT !.answer = "ok"] \in mutations' /\ [m EXCEPT !.answer = "ok"].answer = "ok"
        /\ UNCHANGED <<cardTab, searches, ledger>>
    BY <1>0, <1>6 DEF MutationServed, Mutations
  <2> QED BY <1>0, <2>1, SearchesStay
<1>7. ASSUME NEW m \in mutations, MutationFails(m) PROVE CatalogInv'
  <2>1. ledger' = [ledger EXCEPT !.faults = @ + 1, !.stale = @ \cup {"failed"}]
    BY <1>7 DEF MutationFails
  <2> QED BY <1>0, <2>1, FailureIsKept DEF CatalogInv
<1>8. ASSUME NEW m \in mutations, MutationAnswered(m) PROVE CatalogInv'
  <2>1. m.query \in Queries /\ m.filter \in Filters /\ m.name \in Skills \cup {NoSkill}
    BY <1>0 DEF Mutations
  <2>2. Searching(Search(m.query, m.filter, m.name), 0) /\ cardTab' = cardTab
    BY <1>8 DEF MutationAnswered
  <2> QED BY <1>0, <2>1, <2>2, SearchBegins
<1>9. ASSUME NEW m \in mutations, MutationRefused(m) PROVE CatalogInv'
  <2>1. /\ mutations' = mutations \ {m} /\ m.answer = "error" /\ UNCHANGED <<volume, searches, ledger>>
        /\ cardTab' = cardTab \/ cardTab' = [cardTab EXCEPT !.busy = NoSkill]
    BY <1>9 DEF MutationRefused, MutationOver
  <2>2. /\ cardTab'.timer = cardTab.timer /\ cardTab'.query = cardTab.query /\ cardTab'.filter = cardTab.filter
        /\ cardTab'.local = cardTab.local /\ cardTab'.catalog = cardTab.catalog
    BY <1>0, <2>1 DEF Tabs
  <2> QED BY <1>0, <2>1, <2>2, SearchesStay
<1>10. CASE UNCHANGED skillsTab
  <2>1. UNCHANGED <<volume, cardTab, searches, mutations, ledger>>
    BY <1>10 DEF skillsTab
  <2> QED BY <1>0, <2>1, SearchesStay
<1> QED BY <1>0, <1>1, <1>2, <1>3, <1>4, <1>5, <1>6, <1>7, <1>8, <1>9, <1>10, SearchesRead, SearchIsOver DEF SkillsNext

LEMMA CatalogIsTrue == CatalogInv => QuietCatalogIsCurrent
BY DEF CatalogInv, CatalogComes, QuietCatalogIsCurrent

-----------------------------------------------------------------------------
(* The open board *)

BoardEvents == [topic : {"kanban"}, project : Projects]
HubEvents == BoardEvents \cup [topic : {"terminal"}, project : {NoProject}]
ShownFor(filter) == IF filter = NoProject THEN Projects ELSE {filter}
BoardAnswers == {<<>>} \cup UNION {[ShownFor(f) -> Nat] : f \in Scopes}
BoardLoads == [filter : Scopes, answer : BoardAnswers]
Hubs == [tasks : [Projects -> Nat], ring : Seq(HubEvents)]
Sockets == [at : {"off", "asking", "open", "waiting"}, scope : Scopes, frames : Seq(BoardEvents)]
Boards == [open : BOOLEAN, filter : Scopes, shown : BoardAnswers, timer : BOOLEAN, loads : Seq(BoardLoads)]
Tallies == [moves : Nat, faults : Nat, missed : BOOLEAN]

(* An answer is of the past at most. *)
OfThePast(ns, l) ==
    \/ l.answer = <<>>
    \/ l.answer \in [ShownFor(l.filter) -> Nat] /\ \A p \in ShownFor(l.filter) : l.answer[p] <= ns[p]

(* Project p is loaded again, or will be when a frame or a replay of the   *)
(* ring arrives, or is shown as it is.                                     *)
Awaited(h, s, v, p) ==
    \/ v.timer
    \/ \E i \in DOMAIN v.loads : \/ v.loads[i].filter # v.filter \/ v.loads[i].answer = <<>>
                                 \/ v.loads[i].answer[p] = h.tasks[p]
    \/ \E i \in DOMAIN s.frames : s.frames[i].project = p
    \/ /\ ~(s.at = "open" /\ s.scope \in {NoProject, p})
       /\ \E i \in DOMAIN h.ring : h.ring[i].topic = "kanban" /\ h.ring[i].project = p
    \/ v.shown \in [ShownFor(v.filter) -> Nat] /\ v.shown[p] = h.tasks[p]

KeepsUp(h, s, v) ==
    /\ v.loads # <<>> \/ v.shown \in [ShownFor(v.filter) -> Nat]
    /\ \A p \in ShownFor(v.filter) : Awaited(h, s, v, p)
    /\ \A i \in DOMAIN s.frames : \E j \in DOMAIN h.ring : h.ring[j] = s.frames[i]

BoardInv ==
    /\ hub \in Hubs /\ Len(hub.ring) <= BufferSize
    /\ socket \in Sockets /\ (socket.at # "open" => socket.frames = <<>>)
    /\ screen \in Boards /\ (socket.at = "off" <=> ~screen.open) /\ (~screen.open => screen = NoScreen)
    /\ tally \in Tallies
    /\ \A i \in DOMAIN screen.loads : OfThePast(hub.tasks, screen.loads[i])
    /\ screen.open /\ ~tally.missed => KeepsUp(hub, socket, screen)

LEMMA BoardHere ==
    ASSUME BoardInv
    PROVE  /\ hub \in Hubs /\ hub.ring \in Seq(HubEvents) /\ hub.tasks \in [Projects -> Nat] /\ Len(hub.ring) <= BufferSize
           /\ socket \in Sockets /\ socket.frames \in Seq(BoardEvents) /\ socket.scope \in Scopes
           /\ screen \in Boards /\ screen.loads \in Seq(BoardLoads) /\ screen.filter \in Scopes
           /\ screen.shown \in BoardAnswers /\ screen.open \in BOOLEAN /\ screen.timer \in BOOLEAN
           /\ tally \in Tallies /\ tally.missed \in BOOLEAN /\ tally.moves \in Nat /\ tally.faults \in Nat
BY DEF BoardInv, Hubs, Sockets, Boards, Tallies

LEMMA NothingOpen ==
    /\ NoSocket \in Sockets /\ NoSocket.at = "off" /\ NoSocket.frames = <<>> /\ NoSocket.scope = NoProject
    /\ NoScreen \in Boards /\ NoScreen.open = FALSE /\ NoScreen.loads = <<>> /\ NoScreen.shown = <<>>
    /\ NoScreen.timer = FALSE /\ DOMAIN NoScreen.loads = {}
<1>1. NoProject \in Scopes /\ <<>> \in BoardAnswers /\ DOMAIN <<>> = {}
  BY EmptySeq DEF Scopes, BoardAnswers
<1>2. <<>> \in Seq(BoardEvents) /\ <<>> \in Seq(BoardLoads)
  BY EmptySeq
<1> QED BY <1>1, <1>2 DEF NoSocket, NoScreen, Sockets, Boards

LEMMA BoardStarts == ASSUME LiveInit PROVE BoardInv
<1>1. hub \in Hubs /\ Len(hub.ring) <= BufferSize
  <2>1. <<>> \in Seq(HubEvents) /\ Len(<<>>) = 0
    BY EmptySeq
  <2> QED BY <2>1, HubBounds DEF LiveInit, Hubs
<1>2. tally \in Tallies
  BY DEF LiveInit, Tallies
<1> QED BY <1>1, <1>2, NothingOpen DEF LiveInit, BoardInv

(* The ring after an event: it is there, and what was there is, except     *)
(* what a full ring drops.                                                 *)
LEMMA RingTurns ==
    ASSUME NEW r \in Seq(HubEvents), Len(r) <= BufferSize, NEW e \in HubEvents
    PROVE  /\ Pushed(r, e) \in Seq(HubEvents) /\ Len(Pushed(r, e)) <= BufferSize
           /\ \E k \in DOMAIN Pushed(r, e) : Pushed(r, e)[k] = e
           /\ \A j \in DOMAIN r : \/ Len(r) = BufferSize /\ r[j] = Head(r)
                                  \/ \E k \in DOMAIN Pushed(r, e) : Pushed(r, e)[k] = r[j]
<1>1. Len(r) \in Nat /\ DOMAIN r = 1 .. Len(r) /\ BufferSize \in Nat \ {0}
  BY LenProperties, HubBounds
<1>2. ASSUME NEW q \in Seq(HubEvents), NEW n \in {0, 1}, Len(q) = Len(r) - n, Len(q) + 1 <= BufferSize,
             Pushed(r, e) = Append(q, e), \A i \in 1 .. Len(q) : q[i] = r[i + n],
             n = 1 => Len(r) = BufferSize /\ r[1] = Head(r)
      PROVE  /\ Pushed(r, e) \in Seq(HubEvents) /\ Len(Pushed(r, e)) <= BufferSize
             /\ \E k \in DOMAIN Pushed(r, e) : Pushed(r, e)[k] = e
             /\ \A j \in DOMAIN r : \/ Len(r) = BufferSize /\ r[j] = Head(r)
                                    \/ \E k \in DOMAIN Pushed(r, e) : Pushed(r, e)[k] = r[j]
  <2>1. PICK t : t = Append(q, e)
    OBVIOUS
  <2>2. /\ t \in Seq(HubEvents) /\ Len(t) = Len(q) + 1 /\ t[Len(q) + 1] = e
        /\ \A i \in 1 .. Len(q) : t[i] = q[i]
    BY <2>1, AppendProperties
  <2>3. Len(q) \in Nat
    BY LenProperties
  <2>4. DOMAIN t = 1 .. Len(q) + 1
    BY <2>2, LenProperties
  <2>5. ASSUME NEW j \in DOMAIN r PROVE (Len(r) = BufferSize /\ r[j] = Head(r)) \/ \E k \in DOMAIN t : t[k] = r[j]
    <3>1. CASE j = 1 /\ n = 1
      BY <1>2, <3>1
    <3>2. CASE ~(j = 1 /\ n = 1)
      <4>0. /\ j \in Nat /\ 1 <= j /\ j <= Len(r) /\ n \in Nat /\ Len(q) = Len(r) - n /\ n < j
            /\ Len(r) \in Nat
        <5>1. j \in Nat /\ 1 <= j /\ j <= Len(r) /\ n \in Nat /\ Len(r) \in Nat
          BY <1>1
        <5>2. n = 0 \/ n = 1
          OBVIOUS
        <5>3. Len(q) = Len(r) - n
          BY <1>2
        <5> QED BY <3>2, <5>1, <5>2, <5>3
      <4>1. j - n \in 1 .. Len(q) /\ (j - n) + n = j
        BY <2>3, <4>0
      <4>2. t[j - n] = r[j] /\ j - n \in DOMAIN t
        BY <1>2, <2>2, <2>3, <2>4, <4>1
      <4> QED BY <4>2
    <3> QED BY <3>1, <3>2
  <2>6. Len(q) + 1 \in DOMAIN t
    BY <2>3, <2>4
  <2> QED BY <1>2, <2>1, <2>2, <2>5, <2>6
<1>3. CASE Len(r) < BufferSize
  <2>1. Pushed(r, e) = Append(r, e)
    BY <1>3 DEF Pushed
  <2>2. Len(r) = Len(r) - 0 /\ Len(r) + 1 <= BufferSize
    BY <1>1, <1>3
  <2>3. \A i \in 1 .. Len(r) : r[i] = r[i + 0]
    <3>1. \A i \in 1 .. Len(r) : i + 0 = i
      OBVIOUS
    <3> QED BY <3>1
  <2>4. 0 \in {0, 1} /\ (0 = 1 => Len(r) = BufferSize /\ r[1] = Head(r))
    OBVIOUS
  <2> QED BY <1>2, <2>1, <2>2, <2>3, <2>4, Zenon
<1>4. CASE ~(Len(r) < BufferSize)
  <2>0. Pushed(r, e) = Append(Tail(r), e)
    BY <1>4 DEF Pushed
  <2>1. Len(r) = BufferSize /\ Len(r) > 0
    <3>1. PICK n \in Nat : n = Len(r)
      BY <1>1
    <3>2. PICK b \in Nat : b = BufferSize /\ b # 0
      BY <1>1
    <3>3. n <= b /\ ~(n < b)
      BY <1>4, <3>1, <3>2
    <3>4. n = b /\ n > 0
      BY <3>2, <3>3
    <3> QED BY <3>1, <3>2, <3>4
  <2>2. r # <<>>
    BY <1>1, <2>1, EmptySeq
  <2>3. /\ Tail(r) \in Seq(HubEvents) /\ Len(Tail(r)) = Len(r) - 1
        /\ \A i \in 1 .. Len(Tail(r)) : Tail(r)[i] = r[i + 1]
    BY <2>2, HeadTailProperties
  <2>4. Head(r) = r[1]
    BY <1>1, <2>2, HeadTailProperties, EmptySeq
  <2>5. Len(Tail(r)) + 1 <= BufferSize
    BY <1>1, <2>1, <2>3
  <2> QED BY <1>2, <2>0, <2>1, <2>3, <2>4, <2>5
<1> QED BY <1>3, <1>4

(* A load that begins: every project waits for it. *)
LEMMA LoadBegins ==
    ASSUME NEW v \in Boards
    PROVE  /\ Loads(v) \in Boards /\ Loads(v).open = v.open /\ Loads(v).filter = v.filter
           /\ Loads(v).shown = v.shown /\ Loads(v).timer = v.timer /\ Loads(v).loads # <<>>
           /\ \A h, s, p : Awaited(h, s, Loads(v), p)
           /\ \A ns : (\A i \in DOMAIN v.loads : OfThePast(ns, v.loads[i]))
                            => \A i \in DOMAIN Loads(v).loads : OfThePast(ns, Loads(v).loads[i])
<1>1. PICK l : l = [filter |-> v.filter, answer |-> <<>>]
  OBVIOUS
<1>2. l \in BoardLoads /\ l.filter = v.filter /\ l.answer = <<>>
  BY <1>1 DEF BoardLoads, Boards, BoardAnswers
<1>3. PICK ls : ls = v.loads
  OBVIOUS
<1>4. ls \in Seq(BoardLoads)
  BY <1>3 DEF Boards
<1>5. PICK new : new = Append(ls, l)
  OBVIOUS
<1>6. /\ new \in Seq(BoardLoads) /\ Len(new) = Len(ls) + 1 /\ new[Len(ls) + 1] = l
      /\ \A i \in 1 .. Len(ls) : new[i] = ls[i]
  BY <1>2, <1>4, <1>5, AppendProperties
<1>7. Len(ls) \in Nat /\ DOMAIN ls = 1 .. Len(ls)
  BY <1>4, LenProperties
<1>8. DOMAIN new = 1 .. Len(ls) + 1
  BY <1>6, LenProperties
<1>9. PICK w : w = Loads(v)
  OBVIOUS
<1>10. w = [v EXCEPT !.loads = new]
  BY <1>1, <1>3, <1>5, <1>9 DEF Loads
<1>11. /\ w \in Boards /\ w.open = v.open /\ w.filter = v.filter /\ w.shown = v.shown /\ w.timer = v.timer
       /\ w.loads = new
  BY <1>6, <1>10 DEF Boards
<1>12. Len(ls) + 1 \in DOMAIN new /\ new # <<>>
  <2>1. Len(ls) + 1 \in DOMAIN new
    BY <1>7, <1>8
  <2>2. Len(new) # 0
    BY <1>6, <1>7
  <2> QED BY <2>1, <2>2, EmptySeq
<1>13. ASSUME NEW h, NEW s, NEW p PROVE Awaited(h, s, w, p)
  BY <1>2, <1>6, <1>11, <1>12 DEF Awaited
<1>14. ASSUME NEW ns, \A i \in DOMAIN ls : OfThePast(ns, ls[i]), NEW i \in DOMAIN new
       PROVE  OfThePast(ns, new[i])
  <2>1. CASE i = Len(ls) + 1
    BY <1>2, <1>6, <2>1 DEF OfThePast
  <2>2. CASE i # Len(ls) + 1
    <3>1. i \in 1 .. Len(ls)
      BY <1>7, <1>8, <2>2
    <3>2. new[i] = ls[i] /\ i \in DOMAIN ls
      BY <1>6, <1>7, <3>1
    <3> QED BY <1>14, <3>2
  <2> QED BY <2>1, <2>2
<1> QED BY <1>3, <1>9, <1>11, <1>12, <1>13, <1>14

-----------------------------------------------------------------------------
(* The backend *)

LEMMA ChangesReach ==
    ASSUME BoardInv, NEW p \in Projects, TaskChanges(p)
    PROVE  BoardInv'
<1>1. PICK e \in BoardEvents : e = [topic |-> "kanban", project |-> p]
  BY DEF BoardEvents
<1>2. e.topic = "kanban" /\ e.project = p /\ e \in HubEvents /\ e.project # NoProject
  BY <1>1, HubBounds DEF HubEvents
<1>3. PICK r : r = hub.ring
  OBVIOUS
<1>4. PICK t : t = hub.tasks
  OBVIOUS
<1>5. r \in Seq(HubEvents) /\ Len(r) <= BufferSize /\ t \in [Projects -> Nat]
  BY <1>3, <1>4, BoardHere
<1>6. PICK u : u = [t EXCEPT ![p] = @ + 1]
  OBVIOUS
<1>7. u \in [Projects -> Nat] /\ (\A q \in Projects : t[q] <= u[q]) /\ \A q \in Projects : q # p => u[q] = t[q]
  <2>1. t[p] \in Nat /\ t[p] + 1 \in Nat /\ t[p] <= t[p] + 1
    BY <1>5
  <2>2. u \in [Projects -> Nat] /\ u[p] = t[p] + 1 /\ \A q \in Projects : q # p => u[q] = t[q]
    BY <1>5, <1>6, <2>1
  <2>3. \A q \in Projects : t[q] <= t[q]
    BY <1>5
  <2> QED BY <2>1, <2>2, <2>3
<1>8. PICK n : n = Pushed(r, e)
  OBVIOUS
<1>9. /\ n \in Seq(HubEvents) /\ Len(n) <= BufferSize
      /\ \E k \in DOMAIN n : n[k] = e
      /\ \A j \in DOMAIN r : (Len(r) = BufferSize /\ r[j] = Head(r)) \/ \E k \in DOMAIN n : n[k] = r[j]
  BY <1>2, <1>5, <1>8, RingTurns
<1>10. /\ hub' = [ring |-> n, tasks |-> u]
       /\ socket' = IF socket.at = "open" /\ Matches("kanban", socket.scope, e, FALSE)
                    THEN [socket EXCEPT !.frames = Append(@, e)] ELSE socket
       /\ tally' = [tally EXCEPT !.missed = @ \/ Overwrites] /\ UNCHANGED screen
  BY <1>1, <1>2, <1>3, <1>4, <1>6, <1>8 DEF TaskChanges, Published
<1>11. Matches("kanban", socket.scope, e, FALSE) <=> socket.scope \in {NoProject, p}
  BY <1>2 DEF Matches
<1>12. hub' \in Hubs /\ hub'.ring = n /\ hub'.tasks = u
  BY <1>7, <1>9, <1>10 DEF Hubs
<1>13. /\ socket' \in Sockets /\ socket'.at = socket.at /\ socket'.scope = socket.scope
       /\ socket'.at # "open" => socket'.frames = <<>>
       /\ \A i \in DOMAIN socket.frames : i \in DOMAIN socket'.frames /\ socket'.frames[i] = socket.frames[i]
       /\ \A i \in DOMAIN socket'.frames : \/ socket'.frames[i] = e
                                           \/ i \in DOMAIN socket.frames /\ socket'.frames[i] = socket.frames[i]
       /\ socket.at = "open" /\ socket.scope \in {NoProject, p} => \E i \in DOMAIN socket'.frames : socket'.frames[i] = e
  <2>1. CASE ~(socket.at = "open" /\ socket.scope \in {NoProject, p})
    <3>1. socket' = socket
      BY <1>10, <1>11, <2>1
    <3> QED BY <2>1, <3>1 DEF BoardInv
  <2>2. CASE socket.at = "open" /\ socket.scope \in {NoProject, p}
    <3>1. PICK fs : fs = socket.frames
      OBVIOUS
    <3>2. PICK gs : gs = Append(fs, e)
      OBVIOUS
    <3>3. socket' = [socket EXCEPT !.frames = gs]
      BY <1>10, <1>11, <2>2, <3>1, <3>2
    <3>4. fs \in Seq(BoardEvents)
      BY <3>1, BoardHere
    <3>5. /\ gs \in Seq(BoardEvents) /\ Len(gs) = Len(fs) + 1 /\ gs[Len(fs) + 1] = e
          /\ \A i \in 1 .. Len(fs) : gs[i] = fs[i]
      BY <3>2, <3>4, AppendProperties
    <3>6. Len(fs) \in Nat /\ DOMAIN fs = 1 .. Len(fs) /\ DOMAIN gs = 1 .. Len(gs)
      BY <3>4, <3>5, LenProperties
    <3>7. /\ socket' \in Sockets /\ socket'.at = socket.at /\ socket'.scope = socket.scope
          /\ socket'.frames = gs
      BY <3>3, <3>5, BoardHere DEF Sockets
    <3>8. Len(fs) + 1 \in DOMAIN gs /\ \A i \in DOMAIN fs : i \in DOMAIN gs /\ gs[i] = fs[i]
      BY <3>5, <3>6
    <3>9. ASSUME NEW i \in DOMAIN gs PROVE gs[i] = e \/ (i \in DOMAIN fs /\ gs[i] = fs[i])
      BY <3>5, <3>6
    <3> QED BY <2>2, <3>1, <3>5, <3>7, <3>8, <3>9
  <2> QED BY <2>1, <2>2
<1>14. tally' \in Tallies /\ (~tally'.missed => ~tally.missed /\ ~Overwrites)
  <2>1. PICK m : m = (tally.missed \/ Overwrites)
    OBVIOUS
  <2>2. tally' = [tally EXCEPT !.missed = m]
    BY <1>10, <2>1
  <2>3. m \in BOOLEAN
    BY <2>1, BoardHere DEF Overwrites
  <2>4. tally' \in Tallies /\ tally'.missed = m
    BY <2>2, <2>3, BoardHere DEF Tallies
  <2>5. ~m => ~tally.missed /\ ~Overwrites
    BY <2>1, Zenon
  <2> QED BY <2>4, <2>5
<1>15. \A i \in DOMAIN screen.loads : OfThePast(u, screen.loads[i])
  <2> SUFFICES ASSUME NEW i \in DOMAIN screen.loads PROVE OfThePast(u, screen.loads[i])
    OBVIOUS
  <2>1. OfThePast(t, screen.loads[i])
    BY <1>4 DEF BoardInv
  <2>2. PICK l : l = screen.loads[i]
    OBVIOUS
  <2>3. l \in BoardLoads
    BY <2>2, BoardHere, ElementOfSeq, LenProperties
  <2>4. \A q \in ShownFor(l.filter) : q \in Projects
    BY <2>3 DEF ShownFor, BoardLoads, Scopes
  <2>5. ASSUME l.answer \in [ShownFor(l.filter) -> Nat], NEW q \in ShownFor(l.filter), l.answer[q] <= t[q]
        PROVE  l.answer[q] <= u[q]
    <3>1. l.answer[q] \in Nat /\ t[q] \in Nat /\ u[q] \in Nat /\ t[q] <= u[q]
      BY <1>5, <1>7, <2>4, <2>5
    <3> QED BY <2>5, <3>1
  <2> QED BY <2>1, <2>2, <2>5 DEF OfThePast
<1>16. ASSUME screen.open, ~tally'.missed PROVE KeepsUp(hub', socket', screen)
  <2>1. ~Overwrites /\ KeepsUp(hub, socket, screen)
    BY <1>14, <1>16 DEF BoardInv
  <2>2. Len(r) = BufferSize /\ Head(r).topic = "kanban"
          => socket.at = "open" /\ socket.frames = <<>> /\ socket.scope \in {NoProject, Head(r).project}
    BY <1>3, <2>1, Zenon DEF Overwrites
  <2>3. ASSUME NEW i \in DOMAIN socket'.frames PROVE \E j \in DOMAIN n : n[j] = socket'.frames[i]
    <3>1. CASE socket'.frames[i] = e
      BY <1>9, <3>1
    <3>2. CASE i \in DOMAIN socket.frames /\ socket'.frames[i] = socket.frames[i]
      <4>1. PICK j \in DOMAIN r : r[j] = socket.frames[i]
        BY <1>3, <2>1, <3>2 DEF KeepsUp
      <4>2. socket.frames[i] \in BoardEvents /\ socket.frames # <<>>
        BY <3>2, BoardHere, ElementOfSeq, LenProperties, EmptySeq
      <4>3. r[j].topic = "kanban"
        BY <4>1, <4>2 DEF BoardEvents
      <4>4. \E k \in DOMAIN n : n[k] = r[j]
        BY <1>9, <2>2, <4>2, <4>3
      <4> QED BY <3>2, <4>1, <4>4
    <3> QED BY <1>13, <3>1, <3>2
  <2>4. ASSUME NEW q \in ShownFor(screen.filter) PROVE Awaited(hub', socket', screen, q)
    <3>0. Awaited(hub, socket, screen, q) /\ q \in Projects
      BY <2>1, BoardHere DEF KeepsUp, ShownFor, Scopes
    <3>1. CASE q = p
      <4>1. CASE socket.at = "open" /\ socket.scope \in {NoProject, p}
        <5>1. \E i \in DOMAIN socket'.frames : socket'.frames[i].project = p
          BY <1>2, <1>13, <4>1
        <5> QED BY <3>1, <5>1 DEF Awaited
      <4>2. CASE ~(socket.at = "open" /\ socket.scope \in {NoProject, p})
        <5>1. \E i \in DOMAIN hub'.ring : hub'.ring[i].topic = "kanban" /\ hub'.ring[i].project = p
          BY <1>2, <1>9, <1>12
        <5> QED BY <1>13, <3>1, <4>2, <5>1 DEF Awaited
      <4> QED BY <4>1, <4>2
    <3>2. CASE q # p
      <4>1. hub'.tasks[q] = hub.tasks[q]
        BY <1>4, <1>7, <1>12, <3>0, <3>2
      <4>2. (\E i \in DOMAIN socket.frames : socket.frames[i].project = q)
               => \E i \in DOMAIN socket'.frames : socket'.frames[i].project = q
        BY <1>13
      <4>3. ASSUME ~(socket.at = "open" /\ socket.scope \in {NoProject, q}),
                   NEW i \in DOMAIN r, r[i].topic = "kanban", r[i].project = q
            PROVE  \E k \in DOMAIN hub'.ring : hub'.ring[k].topic = "kanban" /\ hub'.ring[k].project = q
        <5>1. ~(Len(r) = BufferSize /\ r[i] = Head(r))
          BY <2>2, <4>3
        <5> QED BY <1>9, <1>12, <4>3, <5>1
      <4> QED BY <1>3, <1>13, <3>0, <4>1, <4>2, <4>3 DEF Awaited
    <3> QED BY <3>1, <3>2
  <2> QED BY <1>12, <2>1, <2>3, <2>4 DEF KeepsUp
<1> QED BY <1>9, <1>10, <1>12, <1>13, <1>14, <1>15, <1>16 DEF BoardInv

(* A fault that the board does not make up for. *)
LEMMA OthersTurn ==
    ASSUME BoardInv, OtherEvent
    PROVE  BoardInv'
<1>1. PICK e \in HubEvents : e = [topic |-> "terminal", project |-> NoProject]
  BY DEF HubEvents
<1>2. e.topic = "terminal"
  BY <1>1
<1>3. PICK n : n = Pushed(hub.ring, e)
  OBVIOUS
<1>4. n \in Seq(HubEvents) /\ Len(n) <= BufferSize
  BY <1>3, BoardHere, RingTurns
<1>5. /\ hub' = [ring |-> n, tasks |-> hub.tasks] /\ socket' = socket
      /\ tally' = [tally EXCEPT !.missed = TRUE] /\ UNCHANGED screen
  <2>1. ~Matches("kanban", socket.scope, e, FALSE)
    BY <1>2 DEF Matches
  <2> QED BY <1>1, <1>2, <1>3, <2>1 DEF OtherEvent, Published
<1>6. hub' \in Hubs /\ hub'.ring = n /\ hub'.tasks = hub.tasks
  BY <1>4, <1>5, BoardHere DEF Hubs
<1>7. tally' \in Tallies /\ tally'.missed = TRUE
  BY <1>5, BoardHere DEF Tallies
<1> QED BY <1>4, <1>5, <1>6, <1>7 DEF BoardInv

LEMMA FaultsTurn ==
    ASSUME BoardInv, NEW missed \in BOOLEAN, Fault(missed)
    PROVE  tally' \in Tallies /\ tally'.missed = (tally.missed \/ missed)
<1>1. PICK m \in BOOLEAN : m = (tally.missed \/ missed)
  OBVIOUS
<1>2. tally' = [tally EXCEPT !.faults = @ + 1, !.missed = m]
  BY <1>1 DEF Fault
<1>3. tally.faults + 1 \in Nat
  BY BoardHere
<1> QED BY <1>1, <1>2, <1>3, BoardHere DEF Tallies

LEMMA RestartTurns ==
    ASSUME BoardInv, HubRestarts
    PROVE  BoardInv'
<1>1. /\ hub' = [hub EXCEPT !.ring = <<>>]
      /\ socket' = [socket EXCEPT !.at = IF @ = "off" THEN "off" ELSE "waiting", !.frames = <<>>]
      /\ screen' = [screen EXCEPT !.loads = <<>>] /\ Fault(TRUE)
  BY DEF HubRestarts
<1>2. <<>> \in Seq(HubEvents) /\ <<>> \in Seq(BoardEvents) /\ <<>> \in Seq(BoardLoads) /\ Len(<<>>) = 0
      /\ DOMAIN <<>> = {}
  BY EmptySeq
<1>3. hub' \in Hubs /\ hub'.ring = <<>> /\ hub'.tasks = hub.tasks
  BY <1>1, <1>2, BoardHere DEF Hubs
<1>4. socket' \in Sockets /\ socket'.frames = <<>> /\ (socket'.at = "off" <=> socket.at = "off")
  <2>1. PICK a \in {"off", "waiting"} : a = IF socket.at = "off" THEN "off" ELSE "waiting"
    OBVIOUS
  <2>2. socket' = [socket EXCEPT !.at = a, !.frames = <<>>]
    BY <1>1, <2>1
  <2> QED BY <1>2, <2>1, <2>2, BoardHere DEF Sockets
<1>5. /\ screen' \in Boards /\ screen'.open = screen.open /\ screen'.loads = <<>>
      /\ screen = NoScreen => screen' = NoScreen
  <2>1. screen' \in Boards /\ screen'.open = screen.open /\ screen'.loads = <<>>
    BY <1>1, <1>2, BoardHere DEF Boards
  <2>2. ASSUME screen = NoScreen PROVE screen' = NoScreen
    BY <1>1, <2>2 DEF NoScreen
  <2> QED BY <2>1, <2>2
<1>6. tally' \in Tallies /\ tally'.missed
  BY <1>1, FaultsTurn
<1>7. Len(hub'.ring) <= BufferSize
  BY <1>2, <1>3, HubBounds
<1>8. (socket'.at = "off" <=> ~screen'.open) /\ (~screen'.open => screen' = NoScreen)
  BY <1>4, <1>5 DEF BoardInv
<1> QED BY <1>2, <1>3, <1>4, <1>5, <1>6, <1>7, <1>8 DEF BoardInv

-----------------------------------------------------------------------------
(* The connection *)

(* What is kept has every item at the places kept. *)
LEMMA KeptHas ==
    ASSUME NEW S, NEW s \in Seq(S), NEW I
    PROVE  \A k \in DOMAIN s : k \in I => \E j \in DOMAIN Kept(s, I) : Kept(s, I)[j] = s[k]
<1> DEFINE L == Len(s)
<1>0. PICK f : Sifts(f, S, s, I)
  BY KeptUnfolds
<1>1. /\ f \in [0 .. L -> Seq(S)] /\ f[0] = <<>>
      /\ \A n \in 1 .. L : f[n] = IF n \in I THEN Append(f[n - 1], s[n]) ELSE f[n - 1]
      /\ Kept(s, I) = f[L]
  BY <1>0 DEF Sifts
<1>2. L \in Nat /\ DOMAIN s = 1 .. L /\ \A n \in 1 .. L : s[n] \in S
  BY LenProperties
<1> DEFINE P == {n \in 0 .. L : \A k \in 1 .. n : k \in I => \E j \in DOMAIN f[n] : f[n][j] = s[k]}
<1>3. 0 \in P
  BY <1>2
<1>4. \A n \in 1 .. L : n - 1 \in P => n \in P
  <2> SUFFICES ASSUME NEW n \in 1 .. L, n - 1 \in P PROVE n \in P
    OBVIOUS
  <2>1. f[n - 1] \in Seq(S) /\ s[n] \in S
    <3>1. n - 1 \in 0 .. L
      BY <1>2
    <3> HIDE DEF P, L
    <3> QED BY <1>1, <1>2, <3>1
  <2> SUFFICES ASSUME NEW k \in 1 .. n, k \in I PROVE \E j \in DOMAIN f[n] : f[n][j] = s[k]
    OBVIOUS
  <2>2. ASSUME k # n PROVE \E j \in DOMAIN f[n - 1] : f[n - 1][j] = s[k]
    <3>1. k \in 1 .. n - 1
      BY <2>2
    <3> QED BY <3>1
  <2>3. CASE n \notin I
    BY <1>1, <2>2, <2>3
  <2>4. CASE n \in I
    <3>1. f[n] = Append(f[n - 1], s[n])
      BY <1>1, <2>4
    <3>2. PICK q \in Seq(S) : q = f[n - 1]
      BY <2>1
    <3>3. PICK t : t = Append(q, s[n])
      OBVIOUS
    <3>4. /\ t \in Seq(S) /\ Len(t) = Len(q) + 1 /\ t[Len(q) + 1] = s[n]
          /\ \A i \in 1 .. Len(q) : t[i] = q[i]
      BY <2>1, <3>2, <3>3, AppendProperties
    <3>5. Len(q) \in Nat /\ DOMAIN q = 1 .. Len(q) /\ DOMAIN t = 1 .. Len(t)
      BY <3>2, <3>4, LenProperties
    <3>6. Len(q) + 1 \in DOMAIN t /\ \A i \in DOMAIN q : i \in DOMAIN t /\ t[i] = q[i]
      BY <3>4, <3>5
    <3> HIDE DEF P, L
    <3>7. CASE k = n
      BY <3>1, <3>2, <3>3, <3>4, <3>6, <3>7
    <3>8. CASE k # n
      BY <2>2, <3>1, <3>2, <3>3, <3>6, <3>8
    <3> QED BY <3>7, <3>8
  <2> QED BY <2>3, <2>4
<1>5. L \in P
  <2> HIDE DEF P
  <2>1. 0 .. L \subseteq P
    BY <1>2, <1>3, <1>4, Upwards
  <2> QED BY <1>2, <2>1
<1> QED BY <1>1, <1>2, <1>5

LEMMA RingIsReplayed ==
    ASSUME NEW r \in Seq(HubEvents), NEW within \in Scopes
    PROVE  LET fs == Replay(r, "kanban", within)
           IN /\ fs \in Seq(BoardEvents)
              /\ \A i \in DOMAIN fs : \E j \in DOMAIN r : r[j] = fs[i]
              /\ \A j \in DOMAIN r : r[j].topic = "kanban" /\ within \in {NoProject, r[j].project}
                                        => \E i \in DOMAIN fs : fs[i] = r[j]
<1> DEFINE I == {k \in DOMAIN r : Matches("kanban", within, r[k], TRUE)}
<1>1. PICK fs : fs = Kept(r, I)
  OBVIOUS
<1>2. Replay(r, "kanban", within) = fs
  BY <1>1 DEF Replay, Kept
<1>3. \A k \in DOMAIN r : r[k] \in HubEvents
  BY ElementOfSeq, LenProperties
<1>4. \A k \in I : r[k] \in BoardEvents
  BY <1>3 DEF HubEvents, Matches
<1>5. \A k \in DOMAIN r : r[k].topic = "kanban" /\ within \in {NoProject, r[k].project} => k \in I
  BY DEF Matches
<1>6. fs \in Seq(HubEvents) /\ \A i \in DOMAIN fs : \E k \in DOMAIN r : k \in I /\ fs[i] = r[k]
  <2> HIDE DEF I
  <2> QED BY <1>1, KeptFromItems
<1>7. \A k \in DOMAIN r : k \in I => \E j \in DOMAIN fs : fs[j] = r[k]
  <2> HIDE DEF I
  <2> QED BY <1>1, KeptHas
<1> HIDE DEF I
<1>8. fs \in Seq(BoardEvents)
  <2>1. \A i \in DOMAIN fs : fs[i] \in BoardEvents
    BY <1>4, <1>6
  <2>2. DOMAIN fs = 1 .. Len(fs) /\ Len(fs) \in Nat /\ fs = [i \in 1 .. Len(fs) |-> fs[i]]
    BY <1>6, LenProperties
  <2> QED BY <2>1, <2>2, IsASeq
<1> QED BY <1>2, <1>5, <1>6, <1>7, <1>8

LEMMA SocketTurns ==
    ASSUME BoardInv, Connected \/ ConnectionLost \/ Reconnects
    PROVE  BoardInv'
<1>1. socket.at # "off" /\ screen.open
  BY DEF BoardInv, Connected, ConnectionLost, Reconnects
<1>2. UNCHANGED <<hub, screen>>
  BY DEF Connected, ConnectionLost, Reconnects
<1>3. tally' \in Tallies /\ tally'.missed = tally.missed
  <2>1. CASE ConnectionLost
    BY <2>1, FaultsTurn, BoardHere DEF ConnectionLost
  <2>2. CASE ~ConnectionLost
    BY <2>2, BoardHere DEF Connected, Reconnects
  <2> QED BY <2>1, <2>2
<1>4. CASE Connected
  <2>1. PICK fs : fs = Replay(hub.ring, "kanban", socket.scope)
    OBVIOUS
  <2>2. /\ fs \in Seq(BoardEvents)
        /\ \A i \in DOMAIN fs : \E j \in DOMAIN hub.ring : hub.ring[j] = fs[i]
        /\ \A j \in DOMAIN hub.ring :
              hub.ring[j].topic = "kanban" /\ socket.scope \in {NoProject, hub.ring[j].project}
                 => \E i \in DOMAIN fs : fs[i] = hub.ring[j]
    BY <2>1, BoardHere, RingIsReplayed
  <2>3. socket' = [socket EXCEPT !.at = "open", !.frames = fs] /\ socket.at = "asking"
    BY <1>4, <2>1 DEF Connected
  <2>4. /\ socket' \in Sockets /\ socket'.at = "open" /\ socket'.scope = socket.scope
        /\ socket'.frames = fs
    BY <2>2, <2>3, BoardHere DEF Sockets
  <2>5. ASSUME ~tally.missed PROVE KeepsUp(hub, socket', screen)
    <3>1. KeepsUp(hub, socket, screen)
      BY <1>1, <2>5 DEF BoardInv
    <3>2. socket.frames = <<>> /\ DOMAIN socket.frames = {}
      BY <2>3, EmptySeq DEF BoardInv
    <3>3. ASSUME NEW p \in ShownFor(screen.filter) PROVE Awaited(hub, socket', screen, p)
      <4>1. Awaited(hub, socket, screen, p)
        BY <3>1 DEF KeepsUp
      <4>2. ASSUME NEW i \in DOMAIN hub.ring, hub.ring[i].topic = "kanban", hub.ring[i].project = p
            PROVE  Awaited(hub, socket', screen, p)
        <5>1. CASE socket.scope \in {NoProject, p}
          <6>1. \E k \in DOMAIN fs : fs[k] = hub.ring[i]
            BY <2>2, <4>2, <5>1
          <6> QED BY <2>4, <4>2, <6>1 DEF Awaited
        <5>2. CASE socket.scope \notin {NoProject, p}
          BY <2>4, <4>2, <5>2 DEF Awaited
        <5> QED BY <5>1, <5>2
      <4> QED BY <3>2, <4>1, <4>2 DEF Awaited
    <3> QED BY <2>2, <2>4, <3>1, <3>3 DEF KeepsUp
  <2> QED BY <1>1, <1>2, <1>3, <2>3, <2>4, <2>5 DEF BoardInv
<1>5. CASE ConnectionLost \/ Reconnects
  <2>1. /\ socket' \in Sockets /\ socket'.at \in {"waiting", "asking"} /\ socket'.frames = <<>>
    <3>1. CASE ConnectionLost
      <4>1. <<>> \in Seq(BoardEvents)
        BY EmptySeq
      <4>2. socket' = [socket EXCEPT !.at = "waiting", !.frames = <<>>]
        BY <3>1 DEF ConnectionLost
      <4> QED BY <4>1, <4>2, BoardHere DEF Sockets
    <3>2. CASE Reconnects
      <4>1. socket' = [socket EXCEPT !.at = "asking", !.scope = screen.filter] /\ socket.at = "waiting"
        BY <3>2 DEF Reconnects
      <4>2. socket.frames = <<>>
        BY <4>1 DEF BoardInv
      <4> QED BY <4>1, <4>2, BoardHere DEF Sockets
    <3> QED BY <1>5, <3>1, <3>2
  <2>2. DOMAIN socket'.frames = {}
    BY <2>1, EmptySeq
  <2>3. ASSUME ~tally.missed PROVE KeepsUp(hub, socket', screen)
    <3>1. KeepsUp(hub, socket, screen)
      BY <1>1, <2>3 DEF BoardInv
    <3>2. ASSUME NEW p \in ShownFor(screen.filter) PROVE Awaited(hub, socket', screen, p)
      <4>1. Awaited(hub, socket, screen, p)
        BY <3>1 DEF KeepsUp
      <4>2. ASSUME NEW i \in DOMAIN socket.frames, socket.frames[i].project = p
            PROVE  \E j \in DOMAIN hub.ring : hub.ring[j].topic = "kanban" /\ hub.ring[j].project = p
        <5>1. PICK j \in DOMAIN hub.ring : hub.ring[j] = socket.frames[i]
          BY <3>1, <4>2 DEF KeepsUp
        <5>2. socket.frames[i] \in BoardEvents
          BY <4>2, BoardHere, ElementOfSeq, LenProperties
        <5> QED BY <4>2, <5>1, <5>2 DEF BoardEvents
      <4> QED BY <2>1, <4>1, <4>2 DEF Awaited
    <3> QED BY <2>2, <3>1, <3>2 DEF KeepsUp
  <2> QED BY <1>1, <1>2, <1>3, <2>1, <2>3 DEF BoardInv
<1> QED BY <1>4, <1>5

-----------------------------------------------------------------------------
(* The hook *)

LEMMA BoardOpensFresh ==
    ASSUME BoardInv, NEW filter \in Scopes, BoardOpens(filter)
    PROVE  BoardInv'
<1>1. PICK v : v = [NoScreen EXCEPT !.open = TRUE, !.filter = filter]
  OBVIOUS
<1>2. v \in Boards /\ v.open = TRUE /\ v.filter = filter /\ v.loads = <<>>
  BY <1>1, NothingOpen DEF Boards
<1>3. /\ socket' = [NoSocket EXCEPT !.at = "asking"] /\ screen' = Loads(v)
      /\ tally' = [tally EXCEPT !.moves = @ + 1, !.missed = FALSE] /\ UNCHANGED hub
  BY <1>1 DEF BoardOpens
<1>4. /\ socket' \in Sockets /\ socket'.at = "asking" /\ socket'.frames = <<>> /\ DOMAIN socket'.frames = {}
  BY <1>3, NothingOpen, EmptySeq DEF Sockets
<1>5. tally' \in Tallies
  <2>1. tally.moves + 1 \in Nat
    BY BoardHere
  <2> QED BY <1>3, <2>1, BoardHere DEF Tallies
<1>6. /\ screen' \in Boards /\ screen'.open = TRUE /\ screen'.loads # <<>>
      /\ \A h, s, p : Awaited(h, s, screen', p)
      /\ \A ns : (\A i \in DOMAIN v.loads : OfThePast(ns, v.loads[i]))
                       => \A i \in DOMAIN screen'.loads : OfThePast(ns, screen'.loads[i])
  BY <1>2, <1>3, LoadBegins
<1>7. \A i \in DOMAIN screen'.loads : OfThePast(hub.tasks, screen'.loads[i])
  <2>1. DOMAIN v.loads = {}
    BY <1>2, EmptySeq
  <2> QED BY <1>6, <2>1
<1>8. KeepsUp(hub', socket', screen')
  BY <1>4, <1>6 DEF KeepsUp
<1>9. /\ hub' \in Hubs /\ Len(hub'.ring) <= BufferSize /\ hub'.tasks = hub.tasks
  BY <1>3, BoardHere
<1> QED BY <1>4, <1>5, <1>6, <1>7, <1>8, <1>9 DEF BoardInv

LEMMA BoardClosesWhole ==
    ASSUME BoardInv, BoardCloses
    PROVE  BoardInv'
<1>1. socket' = NoSocket /\ screen' = NoScreen /\ UNCHANGED <<hub, tally>>
  BY DEF BoardCloses
<1> QED BY <1>1, NothingOpen, BoardHere DEF BoardInv

(* A load that an open board begins. *)
LEMMA LoadsTurn ==
    ASSUME BoardInv, (\E p \in Projects : ProjectSwitches(p)) \/ TimerFires \/ Mutated
    PROVE  BoardInv'
<1>1. PICK v \in Boards : /\ v.open /\ v.loads = screen.loads /\ screen' = Loads(v)
                          /\ UNCHANGED <<hub, socket>> /\ screen.open
                          /\ tally' \in Tallies /\ tally'.missed = tally.missed
  <2>1. CASE Mutated
    BY <2>1, BoardHere DEF Mutated
  <2>2. CASE TimerFires
    <3>1. PICK v : v = [screen EXCEPT !.timer = FALSE]
      OBVIOUS
    <3>2. screen.timer /\ screen' = Loads(v) /\ UNCHANGED <<hub, socket, tally>>
      BY <2>2, <3>1 DEF TimerFires
    <3>3. screen.open
      BY <3>2, NothingOpen DEF BoardInv
    <3>4. v \in Boards /\ v.open /\ v.loads = screen.loads
      BY <3>1, <3>3, BoardHere DEF Boards
    <3> QED BY <3>2, <3>3, <3>4, BoardHere
  <2>3. ASSUME NEW p \in Projects, ProjectSwitches(p)
        PROVE  \E v \in Boards : /\ v.open /\ v.loads = screen.loads /\ screen' = Loads(v)
                                 /\ UNCHANGED <<hub, socket>> /\ screen.open
                                 /\ tally' \in Tallies /\ tally'.missed = tally.missed
    <3>1. PICK v : v = [screen EXCEPT !.filter = p]
      OBVIOUS
    <3>2. /\ screen.open /\ screen' = Loads(v) /\ UNCHANGED <<hub, socket>>
          /\ tally' = [tally EXCEPT !.moves = @ + 1]
      BY <2>3, <3>1 DEF ProjectSwitches
    <3>3. v \in Boards /\ v.open /\ v.loads = screen.loads
      BY <3>1, <3>2, BoardHere DEF Boards, Scopes
    <3>4. tally' \in Tallies /\ tally'.missed = tally.missed
      <4>1. tally.moves + 1 \in Nat
        BY BoardHere
      <4> QED BY <3>2, <4>1, BoardHere DEF Tallies
    <3> QED BY <3>2, <3>3, <3>4
  <2> QED BY <2>1, <2>2, <2>3
<1>2. /\ screen' \in Boards /\ screen'.open /\ screen'.loads # <<>>
      /\ \A h, s, p : Awaited(h, s, screen', p)
      /\ \A ns : (\A i \in DOMAIN v.loads : OfThePast(ns, v.loads[i]))
                       => \A i \in DOMAIN screen'.loads : OfThePast(ns, screen'.loads[i])
  BY <1>1, LoadBegins
<1>3. \A i \in DOMAIN screen'.loads : OfThePast(hub.tasks, screen'.loads[i])
  BY <1>1, <1>2 DEF BoardInv
<1>4. ~tally'.missed => KeepsUp(hub, socket, screen')
  BY <1>1, <1>2 DEF BoardInv, KeepsUp
<1>5. /\ hub' = hub /\ socket' = socket /\ hub \in Hubs /\ Len(hub.ring) <= BufferSize
      /\ socket \in Sockets /\ (socket.at # "open" => socket.frames = <<>>) /\ socket.at # "off"
  BY <1>1 DEF BoardInv
<1> QED BY <1>1, <1>2, <1>3, <1>4, <1>5 DEF BoardInv

LEMMA FrameTurns ==
    ASSUME BoardInv, FrameArrives
    PROVE  BoardInv'
<1>1. PICK fs : fs = socket.frames
  OBVIOUS
<1>2. fs \in Seq(BoardEvents) /\ fs # <<>>
  BY <1>1, BoardHere DEF FrameArrives
<1>3. /\ Head(fs) \in BoardEvents /\ Tail(fs) \in Seq(BoardEvents) /\ Len(Tail(fs)) = Len(fs) - 1
      /\ \A i \in 1 .. Len(Tail(fs)) : Tail(fs)[i] = fs[i + 1]
  BY <1>2, HeadTailProperties
<1>4. Len(fs) \in Nat /\ DOMAIN fs = 1 .. Len(fs)
  BY <1>2, LenProperties
<1>5. PICK gs : gs = Tail(fs)
  OBVIOUS
<1>6. DOMAIN gs = 1 .. Len(gs) /\ Len(gs) = Len(fs) - 1
  BY <1>3, <1>5, LenProperties
<1>7. fs[1] = Head(fs)
  BY <1>2, <1>4, HeadTailProperties, EmptySeq
<1>8. /\ \A i \in DOMAIN gs : i + 1 \in DOMAIN fs /\ gs[i] = fs[i + 1]
      /\ \A i \in DOMAIN fs : fs[i] = Head(fs) \/ (i - 1 \in DOMAIN gs /\ gs[i - 1] = fs[i])
  <2>1. ASSUME NEW i \in DOMAIN gs PROVE i + 1 \in DOMAIN fs /\ gs[i] = fs[i + 1]
    BY <1>3, <1>4, <1>5, <1>6
  <2>2. ASSUME NEW i \in DOMAIN fs, i # 1 PROVE i - 1 \in DOMAIN gs /\ gs[i - 1] = fs[i]
    <3>1. i - 1 \in 1 .. Len(gs) /\ (i - 1) + 1 = i
      BY <1>4, <1>6, <2>2
    <3> QED BY <1>3, <1>5, <1>6, <3>1
  <2> QED BY <1>7, <2>1, <2>2
<1>9. PICK t \in BOOLEAN : t = (screen.timer \/ screen.filter \in {NoProject, Head(fs).project})
  OBVIOUS
<1>10. /\ socket' = [socket EXCEPT !.frames = gs] /\ screen' = [screen EXCEPT !.timer = t]
       /\ UNCHANGED <<hub, tally>>
  BY <1>1, <1>5, <1>9 DEF FrameArrives
<1>11. /\ socket' \in Sockets /\ socket'.at = socket.at /\ socket'.scope = socket.scope /\ socket'.frames = gs
  BY <1>3, <1>5, <1>10, BoardHere DEF Sockets
<1>12. /\ screen' \in Boards /\ screen'.open = screen.open /\ screen'.filter = screen.filter
       /\ screen'.shown = screen.shown /\ screen'.loads = screen.loads /\ screen'.timer = t
  BY <1>9, <1>10, BoardHere DEF Boards
<1>13. socket.at = "open" /\ screen.open
  BY <1>1, <1>2 DEF BoardInv
<1>14. ASSUME ~tally.missed PROVE KeepsUp(hub, socket', screen')
  <2>1. KeepsUp(hub, socket, screen)
    BY <1>13, <1>14 DEF BoardInv
  <2>2. ASSUME NEW p \in ShownFor(screen.filter) PROVE Awaited(hub, socket', screen', p)
    <3>1. Awaited(hub, socket, screen, p)
      BY <2>1, <2>2 DEF KeepsUp
    <3>2. ASSUME NEW i \in DOMAIN fs, fs[i].project = p PROVE t \/ \E j \in DOMAIN gs : gs[j].project = p
      <4>1. CASE fs[i] = Head(fs)
        <5>1. screen.filter \in {NoProject, p}
          BY <2>2 DEF ShownFor
        <5> QED BY <1>9, <3>2, <4>1, <5>1
      <4>2. CASE i - 1 \in DOMAIN gs /\ gs[i - 1] = fs[i]
        BY <3>2, <4>2
      <4> QED BY <1>8, <4>1, <4>2
    <3>3. screen.timer => t
      BY <1>9
    <3> QED BY <1>1, <1>11, <1>12, <3>1, <3>2, <3>3 DEF Awaited
  <2> QED BY <1>1, <1>8, <1>11, <1>12, <2>1, <2>2 DEF KeepsUp
<1>15. ~screen'.open => screen' = NoScreen
  BY <1>12, <1>13
<1> QED BY <1>10, <1>11, <1>12, <1>13, <1>14, <1>15 DEF BoardInv

LEMMA AnswerTaken ==
    ASSUME BoardInv, NEW i \in DOMAIN screen.loads, LoadAnswered(i)
    PROVE  BoardInv'
<1>1. PICK ls : ls = screen.loads
  OBVIOUS
<1>2. ls \in Seq(BoardLoads) /\ DOMAIN ls = 1 .. Len(ls) /\ Len(ls) \in Nat /\ ls # <<>>
  <2>1. ls \in Seq(BoardLoads) /\ DOMAIN ls = 1 .. Len(ls) /\ Len(ls) \in Nat
    BY <1>1, BoardHere, LenProperties
  <2>2. ls # <<>>
    BY <1>1, EmptySeq
  <2> QED BY <2>1, <2>2
<1>3. PICK l \in BoardLoads : l = ls[i]
  BY <1>1, <1>2, ElementOfSeq
<1>4. PICK a : a = Tasks(l.filter)
  OBVIOUS
<1>5. ShownFor(l.filter) \subseteq Projects
  BY <1>3 DEF ShownFor, BoardLoads, Scopes
<1>6. a = [p \in ShownFor(l.filter) |-> hub.tasks[p]]
  BY <1>4 DEF Tasks, ShownFor
<1>7. a \in [ShownFor(l.filter) -> Nat] /\ \A p \in ShownFor(l.filter) : a[p] = hub.tasks[p] /\ hub.tasks[p] \in Nat
  BY <1>5, <1>6, BoardHere
<1>8. PICK m : m = [l EXCEPT !.answer = a]
  OBVIOUS
<1>9. m \in BoardLoads /\ m.filter = l.filter /\ m.answer = a
  <2>1. a \in BoardAnswers
    BY <1>7 DEF BoardAnswers, BoardLoads
  <2> QED BY <1>8, <2>1 DEF BoardLoads
<1>10. PICK new : new = [ls EXCEPT ![i] = m]
  OBVIOUS
<1>11. /\ new \in Seq(BoardLoads) /\ DOMAIN new = DOMAIN ls
       /\ \A j \in DOMAIN ls : new[j] = IF j = i THEN m ELSE ls[j]
  BY <1>1, <1>2, <1>9, <1>10, ExceptSeq
<1>12. new # <<>>
  BY <1>1, <1>11, EmptySeq
<1>13. screen' = [screen EXCEPT !.loads = new] /\ UNCHANGED <<hub, socket, tally>> /\ l.answer = <<>>
  <2>1. screen' = [screen EXCEPT !.loads[i].answer = a]
    BY <1>1, <1>3, <1>4 DEF LoadAnswered
  <2> QED BY <1>1, <1>3, <1>8, <1>10, <2>1 DEF LoadAnswered
<1>14. /\ screen' \in Boards /\ screen'.open = screen.open /\ screen'.filter = screen.filter
       /\ screen'.shown = screen.shown /\ screen'.loads = new /\ screen'.timer = screen.timer
  BY <1>11, <1>13, BoardHere DEF Boards
<1>15. \A j \in DOMAIN new : OfThePast(hub.tasks, new[j])
  <2>1. OfThePast(hub.tasks, m)
    <3>1. \A p \in ShownFor(l.filter) : a[p] <= hub.tasks[p]
      BY <1>7
    <3> QED BY <1>7, <1>9, <3>1 DEF OfThePast
  <2> QED BY <1>1, <1>11, <2>1 DEF BoardInv
<1>16. screen.open
  BY <1>1, <1>2, NothingOpen DEF BoardInv
<1>17. ASSUME ~tally.missed PROVE KeepsUp(hub, socket, screen')
  <2>1. KeepsUp(hub, socket, screen)
    BY <1>16, <1>17 DEF BoardInv
  <2>2. ASSUME NEW p \in ShownFor(screen.filter) PROVE Awaited(hub, socket, screen', p)
    <3>1. Awaited(hub, socket, screen, p)
      BY <2>1 DEF KeepsUp
    <3>2. ASSUME NEW j \in DOMAIN ls,
                 ls[j].filter # screen.filter \/ ls[j].answer = <<>> \/ ls[j].answer[p] = hub.tasks[p]
          PROVE  new[j].filter # screen.filter \/ new[j].answer = <<>> \/ new[j].answer[p] = hub.tasks[p]
      <4>1. CASE j = i
        <5>1. l.filter = screen.filter => a[p] = hub.tasks[p]
          BY <1>7, <2>2
        <5> QED BY <1>9, <1>11, <4>1, <5>1
      <4>2. CASE j # i
        BY <1>11, <3>2, <4>2
      <4> QED BY <4>1, <4>2
    <3> QED BY <1>1, <1>11, <1>14, <3>1, <3>2 DEF Awaited
  <2> QED BY <1>12, <1>14, <2>1, <2>2 DEF KeepsUp
<1> QED BY <1>13, <1>14, <1>15, <1>16, <1>17 DEF BoardInv

LEMMA LoadOver ==
    ASSUME BoardInv, NEW i \in DOMAIN screen.loads, Shown(i) \/ LoadFails(i)
    PROVE  BoardInv'
<1>1. PICK ls : ls = screen.loads
  OBVIOUS
<1>2. ls \in Seq(BoardLoads) /\ i \in DOMAIN ls /\ DOMAIN ls = 1 .. Len(ls) /\ Len(ls) \in Nat
  BY <1>1, BoardHere, LenProperties
<1>3. PICK l \in BoardLoads : l = ls[i]
  BY <1>2, ElementOfSeq
<1>4. PICK rest : rest = RemoveAt(ls, i)
  OBVIOUS
<1>5. /\ rest \in Seq(BoardLoads)
      /\ \A k \in DOMAIN rest : \E j \in DOMAIN ls : j # i /\ rest[k] = ls[j]
      /\ \A j \in DOMAIN ls : j # i => \E k \in DOMAIN rest : rest[k] = ls[j]
  <2>1. /\ rest \in Seq(BoardLoads)
        /\ \A k \in DOMAIN rest : \E j \in DOMAIN ls : j = (IF k < i THEN k ELSE k + 1) /\ j # i /\ rest[k] = ls[j]
        /\ DOMAIN rest = 1 .. Len(ls) - 1
    BY <1>2, <1>4, TakenOut
  <2>2. ASSUME NEW j \in DOMAIN ls, j # i PROVE \E k \in DOMAIN rest : rest[k] = ls[j]
    <3>1. CASE j < i
      <4>1. j \in 1 .. Len(ls) - 1
        BY <1>2, <3>1
      <4> QED BY <2>1, <3>1, <4>1
    <3>2. CASE ~(j < i)
      <4>1. j - 1 \in 1 .. Len(ls) - 1 /\ ~(j - 1 < i) /\ (j - 1) + 1 = j
        BY <1>2, <2>2, <3>2
      <4> QED BY <2>1, <4>1
    <3> QED BY <3>1, <3>2
  <2> QED BY <2>1, <2>2
<1>6. UNCHANGED <<hub, socket>>
  BY DEF Shown, LoadFails
<1>7. screen.open
  BY <1>1, <1>2, NothingOpen DEF BoardInv
<1>8. \A k \in DOMAIN rest : OfThePast(hub.tasks, rest[k])
  BY <1>1, <1>5 DEF BoardInv
<1>9. CASE LoadFails(i)
  <2>1. screen' = [screen EXCEPT !.loads = rest]
    BY <1>1, <1>4, <1>9 DEF LoadFails
  <2>2. screen' \in Boards /\ screen'.open = screen.open /\ screen'.loads = rest
    BY <1>5, <2>1, BoardHere DEF Boards
  <2>3. tally' \in Tallies /\ tally'.missed
    BY <1>9, FaultsTurn DEF LoadFails
  <2> QED BY <1>6, <1>7, <1>8, <2>2, <2>3 DEF BoardInv
<1>10. CASE Shown(i)
  <2>1. PICK o \in BOOLEAN : o = Outdated(l)
    BY DEF Outdated
  <2>2. PICK m \in BOOLEAN : m = (tally.missed \/ o)
    OBVIOUS
  <2>3. /\ l.answer # <<>> /\ screen' = [screen EXCEPT !.shown = l.answer, !.loads = rest]
        /\ tally' = [tally EXCEPT !.missed = m]
    BY <1>1, <1>3, <1>4, <1>10, <2>1, <2>2 DEF Shown
  <2>4. l.answer \in BoardAnswers
    BY <1>3 DEF BoardLoads
  <2>5. /\ screen' \in Boards /\ screen'.open = screen.open /\ screen'.filter = screen.filter
        /\ screen'.shown = l.answer /\ screen'.loads = rest /\ screen'.timer = screen.timer
    BY <1>5, <2>3, <2>4, BoardHere DEF Boards
  <2>6. tally' \in Tallies /\ tally'.missed = m
    BY <2>2, <2>3, BoardHere DEF Tallies
  <2>7. OfThePast(hub.tasks, l)
    BY <1>1, <1>2, <1>3 DEF BoardInv
  <2>8. l.answer \in [ShownFor(l.filter) -> Nat] /\ \A p \in ShownFor(l.filter) : l.answer[p] <= hub.tasks[p]
    BY <2>3, <2>7 DEF OfThePast
  <2>9. ASSUME ~m PROVE KeepsUp(hub, socket, screen')
    <3>1. ~Outdated(l) /\ ~tally.missed
      BY <2>1, <2>2, <2>9
    <3>2. KeepsUp(hub, socket, screen)
      BY <1>7, <3>1 DEF BoardInv
    <3>3. /\ l.filter = screen.filter
          /\ DOMAIN screen.shown = DOMAIN l.answer => \A p \in DOMAIN l.answer : ~(l.answer[p] < screen.shown[p])
      BY <3>1 DEF Outdated
    <3>4. ASSUME NEW p \in ShownFor(screen.filter) PROVE Awaited(hub, socket, screen', p)
      <4>1. Awaited(hub, socket, screen, p)
        BY <3>2 DEF KeepsUp
      <4>2. l.answer[p] \in Nat /\ hub.tasks[p] \in Nat /\ l.answer[p] <= hub.tasks[p]
        <5>1. p \in Projects
          BY <3>4, BoardHere DEF ShownFor, Scopes
        <5> QED BY <2>8, <3>3, <5>1, BoardHere
      <4>3. ASSUME NEW j \in DOMAIN ls,
                   ls[j].filter # screen.filter \/ ls[j].answer = <<>> \/ ls[j].answer[p] = hub.tasks[p]
            PROVE  Awaited(hub, socket, screen', p)
        <5>1. CASE j = i
          <6>1. l.answer[p] = hub.tasks[p]
            BY <1>3, <2>3, <3>3, <4>3, <5>1
          <6> QED BY <2>5, <2>8, <3>3, <6>1 DEF Awaited
        <5>2. CASE j # i
          <6>1. PICK k \in DOMAIN rest : rest[k] = ls[j]
            BY <1>5, <5>2
          <6> QED BY <2>5, <4>3, <6>1 DEF Awaited
        <5> QED BY <5>1, <5>2
      <4>4. ASSUME screen.shown \in [ShownFor(screen.filter) -> Nat], screen.shown[p] = hub.tasks[p]
            PROVE  Awaited(hub, socket, screen', p)
        <5>1. ~(l.answer[p] < screen.shown[p])
          BY <2>8, <3>3, <3>4, <4>4
        <5>2. l.answer[p] = hub.tasks[p]
          BY <4>2, <4>4, <5>1
        <5> QED BY <2>5, <2>8, <3>3, <5>2 DEF Awaited
      <4> QED BY <1>1, <2>5, <4>1, <4>3, <4>4 DEF Awaited
    <3> QED BY <2>5, <2>8, <3>2, <3>3, <3>4 DEF KeepsUp
  <2> QED BY <1>6, <1>7, <1>8, <2>5, <2>6, <2>9 DEF BoardInv
<1> QED BY <1>9, <1>10

LEMMA BoardStep == ASSUME BoardInv, [LiveNext]_board PROVE BoardInv'
<1>1. ASSUME NEW p \in Projects, TaskChanges(p) \/ ProjectSwitches(p) PROVE BoardInv'
  BY <1>1, ChangesReach, LoadsTurn
<1>2. ASSUME NEW filter \in Scopes, BoardOpens(filter) PROVE BoardInv'
  BY <1>2, BoardOpensFresh
<1>3. ASSUME NEW i \in DOMAIN screen.loads, LoadAnswered(i) \/ Shown(i) \/ LoadFails(i) PROVE BoardInv'
  BY <1>3, AnswerTaken, LoadOver
<1>4. CASE UNCHANGED board
  BY <1>4 DEF board, BoardInv
<1> QED BY <1>1, <1>2, <1>3, <1>4, OthersTurn, RestartTurns, BoardClosesWhole, SocketTurns, LoadsTurn, FrameTurns
        DEF LiveNext

LEMMA BoardIsTrue == BoardInv => QuietBoardIsCurrent
<1> SUFFICES ASSUME BoardInv, socket.at = "open", socket.frames = <<>>, ~screen.timer, screen.loads = <<>>,
                    socket.scope \in {NoProject, screen.filter}, ~tally.missed
             PROVE  screen.shown = Tasks(screen.filter)
  BY DEF QuietBoardIsCurrent
<1>1. KeepsUp(hub, socket, screen)
  BY DEF BoardInv
<1>2. DOMAIN socket.frames = {} /\ DOMAIN screen.loads = {}
  BY EmptySeq
<1>3. screen.shown \in [ShownFor(screen.filter) -> Nat]
  BY <1>1 DEF KeepsUp
<1>4. ASSUME NEW p \in ShownFor(screen.filter) PROVE screen.shown[p] = hub.tasks[p]
  <2>1. Awaited(hub, socket, screen, p)
    BY <1>1, <1>4 DEF KeepsUp
  <2>2. screen.filter \in {NoProject, p}
    BY <1>4 DEF ShownFor
  <2>3. socket.scope \in {NoProject, p}
    BY <2>2
  <2> QED BY <1>2, <2>1, <2>3 DEF Awaited
<1>5. Tasks(screen.filter) = [p \in ShownFor(screen.filter) |-> hub.tasks[p]]
  BY DEF Tasks, ShownFor
<1> QED BY <1>3, <1>4, <1>5

-----------------------------------------------------------------------------
(* The listing tab *)

Folders == {Root} \cup UNION {Tree[q] : q \in Projects}
FileLoads == [project : Projects, folder : Folders, kind : {"plain", "refresh"},
              seen : {"no", "yes", "failed"}, version : Nat]
FolderViews == [project : Scopes, folder : Folders, version : Nat]
Screens == [files : BOOLEAN, active : Scopes, shown : FolderViews, timer : BOOLEAN,
            refreshing : {"none", "own", "other"}]
Excuses == {"unheard", "failed", "overtaken", "skipped", "foreign"}
Doings == [edits : Nat, clicks : Nat, lapses : Nat, stale : SUBSET Excuses]

FileTabTyped ==
    /\ versions \in [Projects -> Nat]
    /\ tube \in [up : BOOLEAN, slugs : Seq(Projects)]
    /\ view \in Screens /\ (view.timer => view.active # NoProject)
    /\ pending \in [loads : Seq(FileLoads), uploads : SUBSET (Projects \X Folders)]
    /\ doings \in Doings

(* The folder is loaded again, or the last load saw what is on disk, or it *)
(* is shown.                                                               *)
Comes(vs, slugs, v, ls) ==
    \/ v.timer
    \/ \E i \in DOMAIN slugs : slugs[i] = v.active
    \/ ls # <<>> /\ ls[Len(ls)].project = v.active
                 /\ (ls[Len(ls)].seen = "yes" => ls[Len(ls)].version = vs[v.active])
    \/ ls = <<>> /\ v.shown.project = v.active /\ v.shown.version = vs[v.active]

FileTabInv ==
    /\ FileTabTyped
    /\ view.files /\ view.active # NoProject /\ doings.stale = {} =>
          Comes(versions, tube.slugs, view, pending.loads)

LEMMA FilesStart == ASSUME ScreenInit PROVE FileTabInv
<1>1. Blank \in FolderViews
  <2>1. PICK S : S = UNION {Tree[q] : q \in Projects}
    OBVIOUS
  <2>3. Root \in Folders
    BY <2>1 DEF Folders
  <2>2. NoProject \in Scopes
    BY DEF Scopes
  <2> QED BY <2>2, <2>3 DEF Blank, FolderViews
<1>2. tube \in [up : BOOLEAN, slugs : Seq(Projects)]
  BY EmptySeq DEF ScreenInit
<1>3. view \in Screens /\ view.files = FALSE /\ view.timer = FALSE
  BY <1>1 DEF ScreenInit, Screens, Scopes
<1>4. pending \in [loads : Seq(FileLoads), uploads : SUBSET (Projects \X Folders)]
  <2>1. <<>> \in Seq(FileLoads)
    BY EmptySeq
  <2> QED BY <2>1 DEF ScreenInit
<1>5. doings \in Doings
  BY DEF ScreenInit, Doings
<1>6. versions \in [Projects -> Nat]
  BY DEF ScreenInit
<1> QED BY <1>2, <1>3, <1>4, <1>5, <1>6 DEF FileTabInv, FileTabTyped

(* Sequences of loads. *)
LEMMA LoadsOf ==
    ASSUME NEW ls \in Seq(FileLoads)
    PROVE  /\ Len(ls) \in Nat /\ DOMAIN ls = 1 .. Len(ls) /\ (ls # <<>> <=> Len(ls) > 0)
           /\ \A n \in DOMAIN ls : ls[n] \in FileLoads
<1>1. Len(ls) \in Nat /\ DOMAIN ls = 1 .. Len(ls)
  BY LenProperties
<1>2. ls # <<>> <=> Len(ls) > 0
  BY <1>1, EmptySeq
<1>3. \A n \in DOMAIN ls : ls[n] \in FileLoads
  BY <1>1, ElementOfSeq
<1> QED BY <1>1, <1>2, <1>3

LEMMA LoadAppended ==
    ASSUME NEW ls \in Seq(FileLoads), NEW l \in FileLoads
    PROVE  /\ Append(ls, l) \in Seq(FileLoads) /\ Append(ls, l) # <<>>
           /\ Append(ls, l)[Len(Append(ls, l))] = l
<1>1. /\ Append(ls, l) \in Seq(FileLoads) /\ Len(Append(ls, l)) = Len(ls) + 1
      /\ Append(ls, l)[Len(ls) + 1] = l
  BY AppendProperties
<1>2. Len(Append(ls, l)) > 0
  BY <1>1, LenProperties
<1> QED BY <1>1, <1>2, LoadsOf

LEMMA LoadRequested ==
    ASSUME NEW p \in Projects, NEW f \in Folders, NEW kind \in {"plain", "refresh"}
    PROVE  /\ Request(p, f, kind) \in FileLoads /\ Request(p, f, kind).project = p
           /\ Request(p, f, kind).seen = "no"
BY DEF Request, FileLoads

(* A load of the active project that comes last. *)
LEMMA LastOneComes ==
    ASSUME NEW v \in Screens, NEW ls \in Seq(FileLoads), v.active # NoProject,
           NEW f \in Folders, NEW kind \in {"plain", "refresh"}
    PROVE  /\ Append(ls, Request(v.active, f, kind)) \in Seq(FileLoads)
           /\ \A vs, slugs : Comes(vs, slugs, v, Append(ls, Request(v.active, f, kind)))
<1>1. v.active \in Projects
  BY DEF Screens, Scopes
<1>2. PICK l \in FileLoads : l = Request(v.active, f, kind)
  BY <1>1, LoadRequested
<1>3. l.project = v.active /\ l.seen = "no"
  BY <1>1, <1>2, LoadRequested
<1>4. Append(ls, l) \in Seq(FileLoads) /\ Append(ls, l) # <<>> /\ Append(ls, l)[Len(Append(ls, l))] = l
  BY LoadAppended
<1>5. ASSUME NEW vs, NEW slugs PROVE Comes(vs, slugs, v, Append(ls, l))
  BY <1>3, <1>4 DEF Comes
<1> QED BY <1>2, <1>4, <1>5

(* A refresh of the tab. *)
LEMMA ScreenRefreshes ==
    ASSUME NEW v \in Screens, NEW ls \in Seq(FileLoads)
    PROVE  /\ Refreshing(v) \in Screens /\ Refreshing(v).files = v.files /\ Refreshing(v).active = v.active
           /\ Refreshing(v).shown = v.shown /\ Refreshing(v).timer = v.timer
           /\ RefreshStarts(v, ls) \in Seq(FileLoads)
           /\ RefreshStarts(v, ls) = ls \/ \A vs, slugs : Comes(vs, slugs, v, RefreshStarts(v, ls))
           /\ v.files /\ v.refreshing = "none" /\ v.active # NoProject =>
                 \A vs, slugs : Comes(vs, slugs, v, RefreshStarts(v, ls))
<1>1. /\ [v EXCEPT !.refreshing = "own"] \in Screens /\ [v EXCEPT !.refreshing = "own"].files = v.files
      /\ [v EXCEPT !.refreshing = "own"].active = v.active
      /\ [v EXCEPT !.refreshing = "own"].shown = v.shown /\ [v EXCEPT !.refreshing = "own"].timer = v.timer
  BY DEF Screens
<1>2. /\ Refreshing(v) \in Screens /\ Refreshing(v).files = v.files /\ Refreshing(v).active = v.active
      /\ Refreshing(v).shown = v.shown /\ Refreshing(v).timer = v.timer
  BY <1>1 DEF Refreshing
<1>3. v.shown.folder \in Folders
  BY DEF Screens, FolderViews
<1>4. CASE v.files /\ v.refreshing = "none" /\ v.active # NoProject
  <2>1. RefreshStarts(v, ls) = Append(ls, Request(v.active, v.shown.folder, "refresh"))
    BY <1>4 DEF RefreshStarts
  <2>2. RefreshStarts(v, ls) \in Seq(FileLoads)
    BY <1>3, <1>4, <2>1, LastOneComes
  <2>3. ASSUME NEW vs, NEW slugs PROVE Comes(vs, slugs, v, RefreshStarts(v, ls))
    BY <1>3, <1>4, <2>1, LastOneComes
  <2> QED BY <1>2, <2>2, <2>3
<1>5. CASE ~(v.files /\ v.refreshing = "none" /\ v.active # NoProject)
  BY <1>2, <1>5 DEF RefreshStarts
<1> QED BY <1>4, <1>5

(* Only what the tab looks at decides what comes. *)
LEMMA SameComes ==
    ASSUME NEW vs, NEW slugs, NEW v, NEW w, NEW ls, w.active = v.active, w.shown = v.shown, w.timer = v.timer,
           Comes(vs, slugs, v, ls)
    PROVE  Comes(vs, slugs, w, ls)
BY DEF Comes

(* What is counted, and why the folder may be out of date. *)
LEMMA DoingsTurn ==
    ASSUME doings \in Doings, NEW why \in SUBSET Excuses, NEW all \in SUBSET Excuses
    PROVE  /\ Clicked(why) \in Doings /\ Clicked(why).stale = doings.stale \cup why
           /\ Lapsed(why) \in Doings /\ Lapsed(why).stale = doings.stale \cup why
           /\ [doings EXCEPT !.stale = all] \in Doings /\ [doings EXCEPT !.stale = all].stale = all
           /\ [Clicked({}) EXCEPT !.stale = all] \in Doings /\ [Clicked({}) EXCEPT !.stale = all].stale = all
           /\ [doings EXCEPT !.edits = @ + 1, !.stale = @ \cup why] \in Doings
           /\ [doings EXCEPT !.edits = @ + 1, !.stale = @ \cup why].stale = doings.stale \cup why
           /\ doings.stale \in SUBSET Excuses
<1> DEFINE s == doings.stale \cup why
           c == doings.clicks + 1
           e == doings.edits + 1
           m == doings.lapses + 1
<1>1. s \in SUBSET Excuses /\ c \in Nat /\ e \in Nat /\ m \in Nat /\ doings.stale \in SUBSET Excuses
  BY DEF Doings
<1>2. /\ Clicked(why) = [doings EXCEPT !.clicks = c, !.stale = s]
      /\ Lapsed(why) = [doings EXCEPT !.lapses = m, !.stale = s]
      /\ [doings EXCEPT !.edits = @ + 1, !.stale = @ \cup why] = [doings EXCEPT !.edits = e, !.stale = s]
      /\ Clicked({}) = [doings EXCEPT !.clicks = c, !.stale = doings.stale \cup {}]
  BY DEF Clicked, Lapsed
<1>3. doings.stale \cup {} = doings.stale
  OBVIOUS
<1> HIDE DEF s, c, e, m
<1>4. ASSUME NEW x \in SUBSET Excuses
      PROVE  /\ [doings EXCEPT !.clicks = c, !.stale = x] \in Doings /\ [doings EXCEPT !.clicks = c, !.stale = x].stale = x
             /\ [doings EXCEPT !.lapses = m, !.stale = x] \in Doings /\ [doings EXCEPT !.lapses = m, !.stale = x].stale = x
             /\ [doings EXCEPT !.edits = e, !.stale = x] \in Doings /\ [doings EXCEPT !.edits = e, !.stale = x].stale = x
             /\ [doings EXCEPT !.stale = x] \in Doings /\ [doings EXCEPT !.stale = x].stale = x
  BY <1>1, <1>4 DEF Doings
<1>5. PICK d \in Doings : d = Clicked({})
  BY <1>1, <1>2, <1>3, <1>4
<1>6. [d EXCEPT !.stale = all] \in Doings /\ [d EXCEPT !.stale = all].stale = all
  BY DEF Doings
<1>7. s = doings.stale \cup why
  BY DEF s
<1>8. [Clicked({}) EXCEPT !.stale = all] \in Doings /\ [Clicked({}) EXCEPT !.stale = all].stale = all
  BY <1>5, <1>6
<1>9. /\ Clicked(why) \in Doings /\ Clicked(why).stale = s
      /\ Lapsed(why) \in Doings /\ Lapsed(why).stale = s
  BY <1>1, <1>2, <1>4, ZenonT(60)
<1>10. /\ [doings EXCEPT !.edits = @ + 1, !.stale = @ \cup why] \in Doings
       /\ [doings EXCEPT !.edits = @ + 1, !.stale = @ \cup why].stale = s
  BY <1>1, <1>2, <1>4
<1> QED BY <1>1, <1>4, <1>7, <1>8, <1>9, <1>10

LEMMA StaleBegins ==
    ASSUME NEW ls, NEW reasons \in SUBSET Excuses
    PROVE  StillStale(ls, reasons) \in SUBSET Excuses
BY DEF StillStale

-----------------------------------------------------------------------------
(* Answers of loads *)

LEMMA DirectoryTurns ==
    ASSUME FileTabInv, NEW n \in DOMAIN pending.loads, DirectoryRead(n) \/ ListingFails(n)
    PROVE  FileTabInv'
<1> DEFINE ls == pending.loads
           l == ls[n]
<1>1. /\ pending \in [loads : Seq(FileLoads), uploads : SUBSET (Projects \X Folders)] /\ ls \in Seq(FileLoads)
      /\ versions \in [Projects -> Nat] /\ doings \in Doings
  BY DEF FileTabInv, FileTabTyped
<1>2. /\ Len(ls) \in Nat /\ DOMAIN ls = 1 .. Len(ls) /\ (ls # <<>> <=> Len(ls) > 0) /\ l \in FileLoads
  BY <1>1, LoadsOf
<1>3. PICK x \in FileLoads : /\ pending' = [pending EXCEPT !.loads = [ls EXCEPT ![n] = x]]
                             /\ x.project = l.project
                             /\ x.seen = "yes" => x.version = versions[x.project]
  <2>1. CASE DirectoryRead(n)
    <3> DEFINE a == [l EXCEPT !.seen = "yes", !.version = versions[l.project]]
               b == [l EXCEPT !.seen = "failed"]
    <3>1. versions[l.project] \in Nat
      BY <1>1, <1>2 DEF FileLoads
    <3>2. a \in FileLoads /\ a.project = l.project /\ a.version = versions[l.project]
      BY <1>2, <3>1 DEF FileLoads
    <3>3. b \in FileLoads /\ b.project = l.project /\ b.seen = "failed"
      BY <1>2 DEF FileLoads
    <3>4. \/ pending' = [pending EXCEPT !.loads = [ls EXCEPT ![n] = a]]
          \/ pending' = [pending EXCEPT !.loads = [ls EXCEPT ![n] = b]]
      BY <2>1 DEF DirectoryRead
    <3> HIDE DEF a, b, ls, l
    <3> QED BY <3>2, <3>3, <3>4
  <2>2. CASE ListingFails(n)
    <3> DEFINE b == [l EXCEPT !.seen = "failed"]
    <3>1. b \in FileLoads /\ b.project = l.project /\ b.seen = "failed"
      BY <1>2 DEF FileLoads
    <3>2. pending' = [pending EXCEPT !.loads = [ls EXCEPT ![n] = b]]
      BY <2>2 DEF ListingFails
    <3> HIDE DEF b, ls, l
    <3> QED BY <3>1, <3>2
  <2> QED BY <2>1, <2>2
<1>4. /\ UNCHANGED <<versions, tube, view>> /\ doings' \in Doings /\ doings'.stale = doings.stale
  <2>1. CASE DirectoryRead(n)
    BY <1>1, <2>1 DEF DirectoryRead
  <2>2. CASE ListingFails(n)
    <3>1. doings' = Lapsed({}) /\ UNCHANGED <<versions, tube, view>>
      BY <2>2 DEF ListingFails
    <3> QED BY <1>1, <3>1, DoingsTurn, ZenonT(60)
  <2> QED BY <2>1, <2>2
<1>5. /\ [ls EXCEPT ![n] = x] \in Seq(FileLoads)
      /\ DOMAIN [ls EXCEPT ![n] = x] = DOMAIN ls
      /\ \A i \in DOMAIN ls : [ls EXCEPT ![n] = x][i] = IF i = n THEN x ELSE ls[i]
  BY <1>1, <1>2, ExceptSeq
<1>6. PICK new : new = [ls EXCEPT ![n] = x]
  OBVIOUS
<1>7. Len(new) = Len(ls) /\ new # <<>> /\ ls # <<>>
  <2>1. Len(new) \in Nat /\ DOMAIN new = 1 .. Len(new) /\ (new # <<>> <=> Len(new) > 0)
    BY <1>5, <1>6, LoadsOf
  <2>2. Len(new) = Len(ls)
    BY <1>2, <1>5, <1>6, <2>1, SameInterval
  <2> QED BY <1>2, <2>1, <2>2
<1>8. pending' \in [loads : Seq(FileLoads), uploads : SUBSET (Projects \X Folders)] /\ pending'.loads = new
  <2> HIDE DEF ls
  <2> QED BY <1>1, <1>3, <1>5, <1>6
<1>9. FileTabTyped'
  BY <1>4, <1>8 DEF FileTabInv, FileTabTyped
<1>10. Comes(versions, tube.slugs, view, ls) => Comes(versions, tube.slugs, view, new)
  <2>1. Len(ls) \in DOMAIN ls
    BY <1>2, <1>7
  <2>2. new[Len(new)] = IF Len(ls) = n THEN x ELSE ls[Len(ls)]
    BY <1>5, <1>6, <1>7, <2>1
  <2> HIDE DEF ls
  <2> QED BY <1>3, <1>7, <2>2 DEF Comes
<1> QED BY <1>4, <1>8, <1>9, <1>10 DEF FileTabInv

(* What is left when load n is over. *)
LEMMA LoadTakenOut ==
    ASSUME NEW ls \in Seq(FileLoads), NEW n \in DOMAIN ls
    PROVE  /\ RemoveAt(ls, n) \in Seq(FileLoads)
           /\ n = 1 /\ RemoveAt(ls, n) = <<>> => Len(ls) = 1
           /\ n = 1 /\ RemoveAt(ls, n) # <<>> => RemoveAt(ls, n)[Len(RemoveAt(ls, n))] = ls[Len(ls)]
<1>1. /\ Len(ls) \in Nat /\ DOMAIN ls = 1 .. Len(ls) /\ Len(ls) - 1 \in Nat
  BY LoadsOf
<1>2. PICK r : r = RemoveAt(ls, n)
  OBVIOUS
<1>3. /\ r \in Seq(FileLoads) /\ DOMAIN r = 1 .. Len(ls) - 1
      /\ \A i \in DOMAIN r : \E j \in DOMAIN ls : j = (IF i < n THEN i ELSE i + 1) /\ j # n /\ r[i] = ls[j]
  BY <1>2, TakenOut
<1>4. Len(r) \in Nat /\ DOMAIN r = 1 .. Len(r) /\ (r # <<>> <=> Len(r) > 0)
  BY <1>3, LoadsOf
<1>5. Len(r) = Len(ls) - 1
  BY <1>1, <1>3, <1>4, SameInterval
<1>6. ASSUME n = 1, r # <<>> PROVE r[Len(r)] = ls[Len(ls)]
  <2>1. Len(r) \in DOMAIN r /\ ~(Len(r) < 1) /\ Len(r) + 1 = Len(ls)
    BY <1>1, <1>4, <1>5, <1>6
  <2> QED BY <1>3, <1>6, <2>1
<1> QED BY <1>1, <1>2, <1>3, <1>4, <1>5, <1>6

LEMMA LoadEnds ==
    ASSUME FileTabInv, NEW n \in DOMAIN pending.loads, FolderShown(n) \/ FolderFails(n)
    PROVE  FileTabInv'
<1> DEFINE ls == pending.loads
           l == ls[n]
           rest == RemoveAt(ls, n)
<1>1. /\ pending \in [loads : Seq(FileLoads), uploads : SUBSET (Projects \X Folders)] /\ ls \in Seq(FileLoads)
      /\ versions \in [Projects -> Nat] /\ doings \in Doings /\ view \in Screens
      /\ view.timer => view.active # NoProject
  BY DEF FileTabInv, FileTabTyped
<1>2. l \in FileLoads /\ Len(ls) \in Nat /\ DOMAIN ls = 1 .. Len(ls) /\ ls # <<>>
  <2>1. /\ Len(ls) \in Nat /\ DOMAIN ls = 1 .. Len(ls) /\ (ls # <<>> <=> Len(ls) > 0) /\ l \in FileLoads
    BY <1>1, LoadsOf
  <2> QED BY <2>1
<1>3. /\ rest \in Seq(FileLoads)
      /\ n = 1 /\ rest = <<>> => Len(ls) = 1
      /\ n = 1 /\ rest # <<>> => rest[Len(rest)] = ls[Len(ls)]
  BY <1>1, LoadTakenOut
<1>4. /\ Unlocked(view, l) \in Screens /\ Unlocked(view, l).files = view.files
      /\ Unlocked(view, l).active = view.active /\ Unlocked(view, l).timer = view.timer
  <2>1. /\ [view EXCEPT !.refreshing = "none"] \in Screens /\ [view EXCEPT !.refreshing = "none"].files = view.files
        /\ [view EXCEPT !.refreshing = "none"].active = view.active
        /\ [view EXCEPT !.refreshing = "none"].timer = view.timer
    BY <1>1 DEF Screens
  <2> QED BY <1>1, <2>1 DEF Unlocked
<1>5. CASE FolderFails(n)
  <2>1. /\ pending' = [pending EXCEPT !.loads = rest] /\ view' = Unlocked(view, l)
        /\ doings' = [doings EXCEPT !.stale = @ \cup {"failed"}] /\ UNCHANGED <<versions, tube>>
    BY <1>5 DEF FolderFails
  <2>2. doings' \in Doings /\ doings'.stale # {}
    <3> DEFINE s == doings.stale \cup {"failed"}
    <3>1. s \in SUBSET Excuses /\ s # {} /\ doings' = [doings EXCEPT !.stale = s]
      BY <1>1, <2>1 DEF Doings, Excuses
    <3> HIDE DEF s
    <3> QED BY <1>1, <3>1 DEF Doings
  <2>3. pending' \in [loads : Seq(FileLoads), uploads : SUBSET (Projects \X Folders)]
    <3> HIDE DEF rest
    <3> QED BY <1>1, <1>3, <2>1
  <2>4. FileTabTyped'
    BY <1>1, <1>4, <2>1, <2>2, <2>3 DEF FileTabInv, FileTabTyped
  <2> QED BY <2>2, <2>4 DEF FileTabInv
<1>6. CASE FolderShown(n)
  <2> DEFINE s == [project |-> l.project, folder |-> l.folder, version |-> l.version]
             v == [Unlocked(view, l) EXCEPT !.shown = s]
             new == l.folder # view.shown.folder
  <2>1. /\ l.seen = "yes" /\ UNCHANGED <<versions, tube>>
        /\ pending' = [pending EXCEPT !.loads = IF new THEN RefreshStarts(v, rest) ELSE rest]
        /\ view' = IF new THEN Refreshing(v) ELSE v
        /\ doings' = [doings EXCEPT !.stale = @ \cup IF n > 1 THEN {"overtaken"} ELSE {}]
    BY <1>6 DEF FolderShown
  <2>2. s \in FolderViews /\ s.project = l.project /\ s.version = l.version
    BY <1>2 DEF FolderViews, FileLoads, Scopes
  <2>3. /\ v \in Screens /\ v.files = view.files /\ v.active = view.active /\ v.timer = view.timer
        /\ v.shown = s
    <3> DEFINE u == Unlocked(view, l)
    <3>1. u \in Screens /\ u.files = view.files /\ u.active = view.active /\ u.timer = view.timer
      BY <1>4
    <3> HIDE DEF s, u
    <3>2. [u EXCEPT !.shown = s] \in Screens /\ [u EXCEPT !.shown = s].files = u.files /\ [u EXCEPT !.shown = s].active = u.active
          /\ [u EXCEPT !.shown = s].timer = u.timer /\ [u EXCEPT !.shown = s].shown = s
      BY <2>2, <3>1 DEF Screens
    <3> QED BY <3>1, <3>2 DEF u
  <2> HIDE DEF s, v, new
  <2>4. /\ view' \in Screens /\ view'.files = view.files /\ view'.active = view.active /\ view'.timer = view.timer
        /\ view'.shown = s
    BY <1>3, <2>1, <2>3, ScreenRefreshes
  <2>5. /\ pending' \in [loads : Seq(FileLoads), uploads : SUBSET (Projects \X Folders)]
        /\ pending'.loads = rest \/ \A vs, slugs : Comes(vs, slugs, v, pending'.loads)
    <3> DEFINE k == IF new THEN RefreshStarts(v, rest) ELSE rest
    <3>1. k \in Seq(FileLoads) /\ (k = rest \/ \A vs, slugs : Comes(vs, slugs, v, k))
      BY <1>3, <2>3, ScreenRefreshes
    <3>2. pending' = [pending EXCEPT !.loads = k]
      BY <2>1
    <3> HIDE DEF k, rest
    <3>3. pending' \in [loads : Seq(FileLoads), uploads : SUBSET (Projects \X Folders)] /\ pending'.loads = k
      BY <1>1, <3>1, <3>2
    <3> QED BY <3>1, <3>3
  <2>6. doings' \in Doings /\ (doings'.stale = {} => doings.stale = {} /\ ~(n > 1))
    <3> DEFINE e == doings.stale \cup IF n > 1 THEN {"overtaken"} ELSE {}
    <3>1. e \in SUBSET Excuses /\ doings' = [doings EXCEPT !.stale = e] /\ (e = {} => doings.stale = {} /\ ~(n > 1))
      BY <1>1, <2>1 DEF Doings, Excuses
    <3> HIDE DEF e
    <3> QED BY <1>1, <3>1 DEF Doings
  <2>7. FileTabTyped'
    BY <1>1, <2>1, <2>4, <2>5, <2>6 DEF FileTabInv, FileTabTyped
  <2>8. ASSUME view'.files, view'.active # NoProject, doings'.stale = {}
        PROVE  Comes(versions', tube'.slugs, view', pending'.loads)
    <3>1. n = 1 /\ doings.stale = {}
      BY <1>2, <2>6, <2>8
    <3>2. Comes(versions, tube.slugs, view, ls)
      BY <2>4, <2>8, <3>1 DEF FileTabInv
    <3>3. CASE pending'.loads = rest
      <4>1. CASE rest = <<>>
        <5>1. ls[Len(ls)] = l
          BY <1>3, <3>1, <4>1
        <5>2. view'.shown.project = l.project /\ view'.shown.version = l.version
          BY <2>2, <2>4
        <5> HIDE DEF l, ls, rest
        <5> QED BY <1>2, <2>1, <2>4, <3>2, <3>3, <4>1, <5>1, <5>2 DEF Comes
      <4>2. CASE rest # <<>>
        <5>1. rest[Len(rest)] = ls[Len(ls)]
          BY <1>3, <3>1, <4>2
        <5> HIDE DEF l, ls, rest
        <5> QED BY <1>2, <2>1, <2>4, <3>2, <3>3, <4>2, <5>1 DEF Comes
      <4> QED BY <4>1, <4>2
    <3>4. CASE \A vs, slugs : Comes(vs, slugs, v, pending'.loads)
      <4>1. Comes(versions', tube'.slugs, v, pending'.loads)
        BY <3>4
      <4> QED BY <2>3, <2>4, <4>1, SameComes
    <3> QED BY <2>5, <3>3, <3>4
  <2> QED BY <2>7, <2>8 DEF FileTabInv
<1> QED BY <1>5, <1>6

-----------------------------------------------------------------------------
(* What the user does *)

LEMMA FilesHere ==
    ASSUME FileTabInv
    PROVE  /\ versions \in [Projects -> Nat] /\ doings \in Doings /\ doings.stale \in SUBSET Excuses
           /\ tube \in [up : BOOLEAN, slugs : Seq(Projects)] /\ tube.slugs \in Seq(Projects)
           /\ view \in Screens /\ (view.timer => view.active # NoProject)
           /\ pending \in [loads : Seq(FileLoads), uploads : SUBSET (Projects \X Folders)]
           /\ pending.loads \in Seq(FileLoads)
           /\ view.files \in BOOLEAN /\ view.timer \in BOOLEAN /\ view.active \in Scopes
           /\ view.shown.folder \in Folders
           /\ view.active # NoProject => view.active \in Projects
BY DEF FileTabInv, FileTabTyped, Doings, Screens, FolderViews, Scopes

LEMMA LoadsPut ==
    ASSUME pending \in [loads : Seq(FileLoads), uploads : SUBSET (Projects \X Folders)],
           NEW k \in Seq(FileLoads)
    PROVE  /\ [pending EXCEPT !.loads = k] \in [loads : Seq(FileLoads), uploads : SUBSET (Projects \X Folders)]
           /\ [pending EXCEPT !.loads = k].loads = k
OBVIOUS

LEMMA FoldersOf == ASSUME NEW p \in Projects PROVE Tree[p] \subseteq Folders /\ Root \in Folders
<1>1. PICK S : S = UNION {Tree[q] : q \in Projects}
  OBVIOUS
<1>2. Folders = S \cup {Root}
  BY <1>1 DEF Folders
<1>3. Tree[p] \subseteq S
  BY <1>1
<1> QED BY <1>2, <1>3

LEMMA ProjectTurns ==
    ASSUME FileTabInv, NEW p \in Projects, ProjectChosen(p)
    PROVE  FileTabInv'
<1>1. PICK listing \in {view.files, TRUE} :
         LET v == [view EXCEPT !.active = p, !.files = listing]
             first == [pending EXCEPT !.loads = IF listing THEN Append(@, Request(p, Root, "plain")) ELSE @]
             entered == p # view.active \/ listing # view.files
         IN /\ pending' = IF entered
                          THEN [first EXCEPT !.loads = RefreshStarts(v, first.loads)] ELSE first
            /\ view' = IF entered THEN Refreshing(v) ELSE v
            /\ doings' = [Clicked({}) EXCEPT !.stale = IF listing THEN StillStale(pending.loads, @) ELSE @]
            /\ UNCHANGED <<versions, tube>>
  BY DEF ProjectChosen
<1>2. PICK v : v = [view EXCEPT !.active = p, !.files = listing]
  OBVIOUS
<1>3. p # NoProject /\ p \in Scopes /\ listing \in BOOLEAN
  BY FilesHere, HubBounds DEF Scopes
<1>4. v \in Screens /\ v.active = p /\ v.files = listing /\ v.timer = view.timer
  BY <1>2, <1>3, FilesHere DEF Screens
<1>5. PICK k : k = IF listing THEN Append(pending.loads, Request(p, Root, "plain")) ELSE pending.loads
  OBVIOUS
<1>6. Append(pending.loads, Request(p, Root, "plain")) \in Seq(FileLoads)
      /\ \A vs, slugs : Comes(vs, slugs, v, Append(pending.loads, Request(p, Root, "plain")))
  BY <1>3, <1>4, FilesHere, FoldersOf, LastOneComes
<1>7. k \in Seq(FileLoads) /\ (listing => \A vs, slugs : Comes(vs, slugs, v, k))
  BY <1>5, <1>6, FilesHere
<1>8. PICK first : first = [pending EXCEPT !.loads = k]
  OBVIOUS
<1>9. first = [pending EXCEPT !.loads = IF listing THEN Append(@, Request(p, Root, "plain")) ELSE @]
  BY <1>5, <1>8
<1>10. /\ first \in [loads : Seq(FileLoads), uploads : SUBSET (Projects \X Folders)] /\ first.loads = k
  BY <1>7, <1>8, FilesHere, LoadsPut
<1>11. /\ \/ pending' = [first EXCEPT !.loads = RefreshStarts(v, first.loads)]
          \/ pending' = first
       /\ view' = Refreshing(v) \/ view' = v
       /\ UNCHANGED <<versions, tube>>
  BY <1>1, <1>2, <1>9
<1>12. PICK r : r = RefreshStarts(v, k)
  OBVIOUS
<1>13. r \in Seq(FileLoads) /\ (listing => \A vs, slugs : Comes(vs, slugs, v, r))
  BY <1>4, <1>7, <1>12, ScreenRefreshes
<1>14. [first EXCEPT !.loads = r] \in [loads : Seq(FileLoads), uploads : SUBSET (Projects \X Folders)]
       /\ [first EXCEPT !.loads = r].loads = r
  BY <1>10, <1>13
<1>15. /\ pending' \in [loads : Seq(FileLoads), uploads : SUBSET (Projects \X Folders)]
       /\ pending'.loads = r \/ pending'.loads = k
  BY <1>10, <1>11, <1>12, <1>14
<1>16. /\ view' \in Screens /\ view'.files = listing /\ view'.active = v.active /\ view'.timer = v.timer
       /\ view'.shown = v.shown
  BY <1>4, <1>7, <1>11, ScreenRefreshes
<1>17. doings' \in Doings
  <2>1. PICK all : all = IF listing THEN StillStale(pending.loads, Clicked({}).stale) ELSE Clicked({}).stale
    OBVIOUS
  <2>2. {} \in SUBSET Excuses
    OBVIOUS
  <2>3. Clicked({}).stale \in SUBSET Excuses
    BY <2>2, FilesHere, DoingsTurn
  <2>4. all \in SUBSET Excuses
    BY <2>1, <2>3, StaleBegins
  <2>5. doings' = [Clicked({}) EXCEPT !.stale = all]
    BY <1>1, <2>1
  <2> QED BY <2>2, <2>4, <2>5, FilesHere, DoingsTurn
<1>18. FileTabTyped'
  BY <1>3, <1>4, <1>11, <1>15, <1>16, <1>17, FilesHere DEF FileTabTyped
<1>19. ASSUME view'.files PROVE Comes(versions', tube'.slugs, view', pending'.loads)
  <2>1. Comes(versions', tube'.slugs, v, pending'.loads)
    BY <1>7, <1>13, <1>15, <1>16, <1>19
  <2> QED BY <1>16, <2>1, SameComes
<1> QED BY <1>18, <1>19 DEF FileTabInv

LEMMA FolderTurns ==
    ASSUME FileTabInv, NEW p \in Projects, NEW f \in Tree[p], FolderChosen(f)
    PROVE  FileTabInv'
<1>1. /\ view.files /\ view.active # NoProject /\ f \in Tree[view.active]
      /\ pending' = [pending EXCEPT !.loads = Append(pending.loads, Request(view.active, f, "plain"))]
      /\ doings' = [Clicked({}) EXCEPT !.stale = StillStale(pending.loads, Clicked({}).stale)]
      /\ UNCHANGED <<versions, tube, view>>
  BY DEF FolderChosen, Loading
<1>2. PICK k : k = Append(pending.loads, Request(view.active, f, "plain"))
  OBVIOUS
<1>3. k \in Seq(FileLoads) /\ \A vs, slugs : Comes(vs, slugs, view, k)
  <2>1. f \in Folders
    BY FoldersOf
  <2> QED BY <1>1, <1>2, <2>1, FilesHere, LastOneComes
<1>4. pending' \in [loads : Seq(FileLoads), uploads : SUBSET (Projects \X Folders)] /\ pending'.loads = k
  BY <1>1, <1>2, <1>3, FilesHere, LoadsPut
<1>5. doings' \in Doings
  <2>1. {} \in SUBSET Excuses
    OBVIOUS
  <2>2. Clicked({}).stale \in SUBSET Excuses
    BY <2>1, FilesHere, DoingsTurn
  <2>3. PICK all \in SUBSET Excuses : all = StillStale(pending.loads, Clicked({}).stale)
    BY <2>2, StaleBegins
  <2> QED BY <1>1, <2>1, <2>3, FilesHere, DoingsTurn
<1>6. FileTabTyped'
  BY <1>1, <1>4, <1>5, FilesHere DEF FileTabTyped
<1> QED BY <1>1, <1>3, <1>4, <1>6 DEF FileTabInv

LEMMA TabTurnsToFiles ==
    ASSUME FileTabInv, TabEntered \/ WindowFocused
    PROVE  FileTabInv'
<1>1. PICK v : /\ v \in Screens /\ v.files /\ v.active = view.active /\ v.timer = view.timer
               /\ v.active # NoProject
               /\ view' = Refreshing(v) /\ pending' = [pending EXCEPT !.loads = RefreshStarts(v, pending.loads)]
               /\ UNCHANGED <<versions, tube>>
               /\ \/ /\ v.refreshing = "none"
                     /\ doings' = [Clicked({}) EXCEPT !.stale = StillStale(pending.loads, Clicked({}).stale)]
                  \/ doings' = Clicked({"skipped"})
  <2>1. CASE TabEntered
    <3>1. PICK v : v = [view EXCEPT !.files = TRUE]
      OBVIOUS
    <3>2. /\ v \in Screens /\ v.files /\ v.active = view.active /\ v.timer = view.timer
          /\ v.refreshing = view.refreshing
      BY <3>1, FilesHere DEF Screens
    <3>3. /\ view.active # NoProject
          /\ view' = Refreshing(v) /\ pending' = [pending EXCEPT !.loads = RefreshStarts(v, pending.loads)]
          /\ UNCHANGED <<versions, tube>>
          /\ \/ /\ view.refreshing = "none"
                /\ doings' = [Clicked({}) EXCEPT !.stale = StillStale(pending.loads, Clicked({}).stale)]
             \/ doings' = Clicked({"skipped"})
      BY <2>1, <3>1 DEF TabEntered
    <3> QED BY <3>2, <3>3
  <2>2. CASE WindowFocused
    BY <2>2, FilesHere DEF WindowFocused
  <2> QED BY <2>1, <2>2
<1>2. PICK r : r = RefreshStarts(v, pending.loads)
  OBVIOUS
<1>3. /\ r \in Seq(FileLoads)
      /\ v.refreshing = "none" => \A vs, slugs : Comes(vs, slugs, v, r)
  BY <1>1, <1>2, FilesHere, ScreenRefreshes
<1>4. /\ view' \in Screens /\ view'.files /\ view'.active = v.active /\ view'.timer = v.timer
      /\ view'.shown = v.shown
  BY <1>1, FilesHere, ScreenRefreshes
<1>5. pending' \in [loads : Seq(FileLoads), uploads : SUBSET (Projects \X Folders)] /\ pending'.loads = r
  BY <1>1, <1>2, <1>3, FilesHere, LoadsPut
<1>6. doings' \in Doings /\ (v.refreshing = "none" \/ doings'.stale # {})
  <2>1. {} \in SUBSET Excuses /\ {"skipped"} \in SUBSET Excuses
    BY DEF Excuses
  <2>2. Clicked({}).stale \in SUBSET Excuses
    BY <2>1, FilesHere, DoingsTurn
  <2>3. PICK all \in SUBSET Excuses : all = StillStale(pending.loads, Clicked({}).stale)
    BY <2>2, StaleBegins
  <2>4. [Clicked({}) EXCEPT !.stale = all] \in Doings
    BY <2>1, FilesHere, DoingsTurn
  <2>5. Clicked({"skipped"}) \in Doings /\ Clicked({"skipped"}).stale = doings.stale \cup {"skipped"}
    BY <2>1, FilesHere, DoingsTurn
  <2> QED BY <1>1, <2>3, <2>4, <2>5
<1>7. FileTabTyped'
  BY <1>1, <1>4, <1>5, <1>6, FilesHere DEF FileTabTyped
<1>8. ASSUME doings'.stale = {} PROVE Comes(versions', tube'.slugs, view', pending'.loads)
  <2>1. Comes(versions', tube'.slugs, v, pending'.loads)
    BY <1>3, <1>5, <1>6, <1>8
  <2> QED BY <1>4, <2>1, SameComes
<1> QED BY <1>7, <1>8 DEF FileTabInv

(* The folder is as much awaited as before. *)
LEMMA AsBefore ==
    ASSUME FileTabInv, UNCHANGED <<versions, tube>>, pending'.loads = pending.loads,
           pending' \in [loads : Seq(FileLoads), uploads : SUBSET (Projects \X Folders)],
           view' \in Screens, view'.active = view.active, view'.timer = view.timer, view'.shown = view.shown,
           view'.files => view.files, doings' \in Doings, doings'.stale = doings.stale
    PROVE  FileTabInv'
<1>1. FileTabTyped'
  BY FilesHere DEF FileTabTyped
<1>2. ASSUME view'.files, view'.active # NoProject, doings'.stale = {}
      PROVE  Comes(versions', tube'.slugs, view', pending'.loads)
  <2>1. Comes(versions, tube.slugs, view, pending.loads)
    BY <1>2 DEF FileTabInv
  <2> QED BY <2>1, SameComes
<1> QED BY <1>1, <1>2 DEF FileTabInv

LEMMA OtherwiseTurns ==
    ASSUME FileTabInv, TabLeft \/ OtherTabRefreshes \/ OtherTabRefreshed \/ Upload
    PROVE  FileTabInv'
<1>1. Clicked({}) \in Doings /\ Clicked({}).stale = doings.stale
  <2>1. {} \in SUBSET Excuses /\ doings.stale \cup {} = doings.stale
    OBVIOUS
  <2> QED BY <2>1, FilesHere, DoingsTurn
<1>2. /\ UNCHANGED <<versions, tube>> /\ pending'.loads = pending.loads
      /\ pending' \in [loads : Seq(FileLoads), uploads : SUBSET (Projects \X Folders)]
      /\ doings' = doings \/ doings' = Clicked({})
  <2>1. CASE Upload
    <3>1. <<view.active, view.shown.folder>> \in Projects \X Folders
      BY <2>1, FilesHere DEF Upload
    <3>2. PICK u : u = {<<view.active, view.shown.folder>>}
      OBVIOUS
    <3>3. pending' = [pending EXCEPT !.uploads = u] /\ u \in SUBSET (Projects \X Folders)
      BY <2>1, <3>1, <3>2 DEF Upload
    <3>4. UNCHANGED <<versions, tube>> /\ doings' = Clicked({})
      BY <2>1 DEF Upload
    <3> QED BY <3>3, <3>4, FilesHere
  <2>2. CASE TabLeft \/ OtherTabRefreshes \/ OtherTabRefreshed
    BY <2>2, FilesHere DEF TabLeft, OtherTabRefreshes, OtherTabRefreshed
  <2> QED BY <2>1, <2>2
<1>3. /\ view' \in Screens /\ view'.active = view.active /\ view'.timer = view.timer
      /\ view'.shown = view.shown /\ (view'.files => view.files)
  <2>1. CASE TabLeft
    BY <2>1, FilesHere DEF TabLeft, Screens
  <2>2. CASE OtherTabRefreshes
    BY <2>2, FilesHere DEF OtherTabRefreshes, Screens
  <2>3. CASE OtherTabRefreshed
    BY <2>3, FilesHere DEF OtherTabRefreshed, Screens
  <2>4. CASE Upload
    BY <2>4, FilesHere DEF Upload
  <2> QED BY <2>1, <2>2, <2>3, <2>4
<1> QED BY <1>1, <1>2, <1>3, FilesHere, AsBefore

-----------------------------------------------------------------------------
(* Changes of listing, and their announcement *)

LEMMA EditsAnnounced ==
    ASSUME FileTabInv, NEW p \in Projects, FilesAnnounced(p)
    PROVE  /\ tube' \in [up : BOOLEAN, slugs : Seq(Projects)]
           /\ \A q : (\E i \in DOMAIN tube.slugs : tube.slugs[i] = q)
                        => \E i \in DOMAIN tube'.slugs : tube'.slugs[i] = q
           /\ tube.up => \E i \in DOMAIN tube'.slugs : tube'.slugs[i] = p
<1>1. PICK s : s = tube.slugs
  OBVIOUS
<1>2. s \in Seq(Projects) /\ tube \in [up : BOOLEAN, slugs : Seq(Projects)]
  BY <1>1, FilesHere
<1>3. CASE tube.up
  <2>1. Matches("workspace", NoProject, [topic |-> "workspace", project |-> p], FALSE)
    BY DEF Matches
  <2>2. PICK t : t = Append(s, p)
    OBVIOUS
  <2>3. tube' = [tube EXCEPT !.slugs = t]
    BY <1>1, <1>3, <2>1, <2>2 DEF FilesAnnounced
  <2>4. /\ t \in Seq(Projects) /\ Len(t) = Len(s) + 1 /\ t[Len(s) + 1] = p
        /\ \A i \in 1 .. Len(s) : t[i] = s[i]
    BY <1>2, <2>2, AppendProperties
  <2>5. Len(s) \in Nat /\ DOMAIN s = 1 .. Len(s)
    BY <1>2, LenProperties
  <2>6. DOMAIN t = 1 .. Len(s) + 1
    BY <2>4, LenProperties
  <2>7. tube'.slugs = t /\ tube' \in [up : BOOLEAN, slugs : Seq(Projects)]
    BY <1>2, <2>3, <2>4
  <2>8. Len(s) + 1 \in DOMAIN t /\ DOMAIN s \subseteq DOMAIN t
    BY <2>5, <2>6
  <2> QED BY <1>1, <2>4, <2>5, <2>7, <2>8
<1>4. CASE ~tube.up
  BY <1>2, <1>4 DEF FilesAnnounced
<1> QED BY <1>3, <1>4

LEMMA FilesAreEdited ==
    ASSUME FileTabInv, NEW p \in Projects, NEW why \in SUBSET Excuses, Edited(p, why)
    PROVE  /\ versions' \in [Projects -> Nat] /\ doings' \in Doings
           /\ doings'.stale = doings.stale \cup why
           /\ \A q \in Projects : q # p => versions'[q] = versions[q]
<1>1. /\ versions' = [versions EXCEPT ![p] = @ + 1]
      /\ doings' = [doings EXCEPT !.edits = @ + 1, !.stale = @ \cup why]
  BY DEF Edited
<1>2. doings' \in Doings /\ doings'.stale = doings.stale \cup why
  BY <1>1, FilesHere, DoingsTurn
<1> QED BY <1>1, <1>2, FilesHere

LEMMA ChangesTurn ==
    ASSUME FileTabInv, NEW p \in Projects, FilesChange(p) \/ AgentWrites(p)
    PROVE  FileTabInv'
<1>1. CASE AgentWrites(p)
  <2>1. {"unheard"} \in SUBSET Excuses
    BY DEF Excuses
  <2>2. Edited(p, {"unheard"}) /\ UNCHANGED <<tube, view, pending>>
    BY <1>1 DEF AgentWrites
  <2>3. versions' \in [Projects -> Nat] /\ doings' \in Doings /\ doings'.stale # {}
    BY <2>1, <2>2, FilesAreEdited
  <2> QED BY <2>2, <2>3, FilesHere DEF FileTabInv, FileTabTyped
<1>2. CASE FilesChange(p)
  <2>1. PICK why : why = IF tube.up THEN {} ELSE {"unheard"}
    OBVIOUS
  <2>2. why \in SUBSET Excuses /\ (why = {} => tube.up)
    BY <2>1 DEF Excuses
  <2>3. Edited(p, why) /\ FilesAnnounced(p) /\ UNCHANGED <<view, pending>>
    BY <1>2, <2>1 DEF FilesChange
  <2>4. /\ versions' \in [Projects -> Nat] /\ doings' \in Doings
        /\ doings'.stale = doings.stale \cup why
        /\ \A q \in Projects : q # p => versions'[q] = versions[q]
    BY <2>2, <2>3, FilesAreEdited
  <2>5. tube' \in [up : BOOLEAN, slugs : Seq(Projects)]
    BY <2>3, EditsAnnounced
  <2>6. FileTabTyped'
    BY <2>3, <2>4, <2>5, FilesHere DEF FileTabTyped
  <2>7. ASSUME view'.files, view'.active # NoProject, doings'.stale = {}
        PROVE  Comes(versions', tube'.slugs, view', pending'.loads)
    <3>1. tube.up /\ doings.stale = {} /\ view.files /\ view.active # NoProject
      BY <2>2, <2>3, <2>4, <2>7
    <3>2. Comes(versions, tube.slugs, view, pending.loads)
      BY <3>1 DEF FileTabInv
    <3>3. CASE view.active = p
      <4>1. \E i \in DOMAIN tube'.slugs : tube'.slugs[i] = p
        BY <2>3, <3>1, EditsAnnounced
      <4> QED BY <2>3, <3>3, <4>1 DEF Comes
    <3>4. CASE view.active # p
      <4>1. versions'[view.active] = versions[view.active]
        BY <2>4, <3>1, <3>4, FilesHere
      <4>2. (\E i \in DOMAIN tube.slugs : tube.slugs[i] = view.active)
               => \E i \in DOMAIN tube'.slugs : tube'.slugs[i] = view.active
        BY <2>3, EditsAnnounced
      <4> QED BY <2>3, <3>2, <4>1, <4>2 DEF Comes
    <3> QED BY <3>3, <3>4
  <2> QED BY <2>6, <2>7 DEF FileTabInv
<1> QED BY <1>1, <1>2

LEMMA UploadTurns ==
    ASSUME FileTabInv, NEW p \in Projects, NEW f \in Tree[p], Uploaded(p, f)
    PROVE  FileTabInv'
<1>1. PICK why : why = (IF tube.up THEN {} ELSE {"unheard"}) \cup IF p # view.active THEN {"foreign"} ELSE {}
  OBVIOUS
<1>2. why \in SUBSET Excuses /\ (why = {} => p = view.active)
  BY <1>1 DEF Excuses
<1>3. /\ Edited(p, why) /\ FilesAnnounced(p) /\ UNCHANGED view
      /\ pending' = [uploads |-> {}, loads |-> Append(pending.loads, Request(p, f, "plain"))]
  BY <1>1 DEF Uploaded
<1>4. PICK l \in FileLoads : l = Request(p, f, "plain")
  BY FoldersOf, LoadRequested
<1>5. Append(pending.loads, l) \in Seq(FileLoads)
  BY FilesHere, LoadAppended
<1>6. PICK k : k = Append(pending.loads, l)
  OBVIOUS
<1>7. pending' \in [loads : Seq(FileLoads), uploads : SUBSET (Projects \X Folders)] /\ pending'.loads = k
  BY <1>3, <1>4, <1>5, <1>6
<1>8. versions' \in [Projects -> Nat] /\ doings' \in Doings /\ doings'.stale = doings.stale \cup why
  BY <1>2, <1>3, FilesAreEdited
<1>9. tube' \in [up : BOOLEAN, slugs : Seq(Projects)]
  BY <1>3, EditsAnnounced
<1>10. FileTabTyped'
  BY <1>3, <1>7, <1>8, <1>9, FilesHere DEF FileTabTyped
<1>11. ASSUME doings'.stale = {} PROVE Comes(versions', tube'.slugs, view', pending'.loads)
  <2>1. p = view.active /\ view.active # NoProject
    BY <1>2, <1>8, <1>11, HubBounds
  <2>2. \A vs, slugs : Comes(vs, slugs, view, Append(pending.loads, Request(view.active, f, "plain")))
    BY <2>1, FilesHere, FoldersOf, LastOneComes
  <2> QED BY <1>3, <1>4, <1>6, <1>7, <2>1, <2>2
<1> QED BY <1>10, <1>11 DEF FileTabInv

LEMMA SlugTurns ==
    ASSUME FileTabInv, SlugArrives
    PROVE  FileTabInv'
<1>1. PICK s : s = tube.slugs
  OBVIOUS
<1>2. s \in Seq(Projects) /\ s # <<>>
  BY <1>1, FilesHere DEF SlugArrives
<1>3. PICK t : t = (view.timer \/ Head(s) = view.active)
  OBVIOUS
<1>4. /\ view' = [view EXCEPT !.timer = t] /\ tube' = [tube EXCEPT !.slugs = Tail(s)]
      /\ UNCHANGED <<versions, pending, doings>>
  BY <1>1, <1>3 DEF SlugArrives, FrameMatters
<1>5. /\ Head(s) \in Projects /\ Tail(s) \in Seq(Projects) /\ Len(Tail(s)) = Len(s) - 1
      /\ \A i \in 1 .. Len(Tail(s)) : Tail(s)[i] = s[i + 1]
  BY <1>2, HeadTailProperties
<1>6. t \in BOOLEAN /\ (t => view.active # NoProject) /\ (view.timer => t)
  <2>1. t \in BOOLEAN /\ (t = (view.timer \/ Head(s) = view.active))
    BY <1>3
  <2> QED BY <1>5, <2>1, FilesHere, HubBounds
<1>7. /\ view' \in Screens /\ view'.timer = t /\ view'.files = view.files /\ view'.active = view.active
      /\ view'.shown = view.shown
  BY <1>4, <1>6, FilesHere DEF Screens
<1>8. tube' \in [up : BOOLEAN, slugs : Seq(Projects)] /\ tube'.slugs = Tail(s)
  BY <1>4, <1>5, FilesHere
<1>9. FileTabTyped'
  BY <1>4, <1>6, <1>7, <1>8, FilesHere DEF FileTabTyped
<1>10. ASSUME view'.files, view'.active # NoProject, doings'.stale = {}
       PROVE  Comes(versions', tube'.slugs, view', pending'.loads)
  <2>1. Comes(versions, s, view, pending.loads)
    BY <1>1, <1>4, <1>7, <1>10 DEF FileTabInv
  <2>2. ASSUME NEW i \in DOMAIN s, s[i] = view.active PROVE t \/ \E j \in DOMAIN Tail(s) : Tail(s)[j] = view.active
    <3>1. Len(s) \in Nat /\ DOMAIN s = 1 .. Len(s)
      BY <1>2, LenProperties
    <3>2. DOMAIN Tail(s) = 1 .. Len(Tail(s))
      BY <1>5, LenProperties
    <3>3. CASE i = 1
      <4>1. Head(s) = s[1]
        BY <1>2, HeadTailProperties, EmptySeq, <3>1
      <4>2. Head(s) = view.active
        BY <2>2, <3>3, <4>1
      <4> QED BY <1>3, <4>2
    <3>4. CASE i # 1
      <4>1. i - 1 \in 1 .. Len(Tail(s)) /\ (i - 1) + 1 = i
        BY <1>5, <3>1, <3>4
      <4> QED BY <1>5, <2>2, <3>2, <4>1
    <3> QED BY <3>3, <3>4
  <2> QED BY <1>4, <1>6, <1>7, <1>8, <2>1, <2>2 DEF Comes
<1> QED BY <1>9, <1>10 DEF FileTabInv

LEMMA DebounceTurns ==
    ASSUME FileTabInv, DebounceEnds
    PROVE  FileTabInv'
<1>1. /\ view.timer /\ view' = [view EXCEPT !.timer = FALSE] /\ UNCHANGED <<versions, tube>>
      /\ pending' = IF view.files THEN Loading(view.shown.folder, "plain") ELSE pending
      /\ doings' = IF view.files THEN [doings EXCEPT !.stale = StillStale(pending.loads, @)] ELSE doings
  BY DEF DebounceEnds
<1>2. /\ view' \in Screens /\ view'.timer = FALSE /\ view'.files = view.files /\ view'.active = view.active
  BY <1>1, FilesHere DEF Screens
<1>3. doings' \in Doings
  <2>1. PICK all \in SUBSET Excuses : all = StillStale(pending.loads, doings.stale)
    BY FilesHere, StaleBegins
  <2>2. [doings EXCEPT !.stale = all] \in Doings
    BY FilesHere, DoingsTurn
  <2> QED BY <1>1, <2>1, <2>2, FilesHere
<1>4. CASE view.files
  <2>1. PICK k : k = Append(pending.loads, Request(view.active, view.shown.folder, "plain"))
    OBVIOUS
  <2>2. pending' = [pending EXCEPT !.loads = k]
    BY <1>1, <1>4, <2>1 DEF Loading
  <2>3. Append(pending.loads, Request(view'.active, view.shown.folder, "plain")) \in Seq(FileLoads)
        /\ \A vs, slugs : Comes(vs, slugs, view', Append(pending.loads, Request(view'.active, view.shown.folder, "plain")))
    <3>1. PICK w \in Screens : w = view'
      BY <1>2
    <3>2. w.active # NoProject
      BY <1>1, <1>2, <3>1, FilesHere
    <3>3. Append(pending.loads, Request(w.active, view.shown.folder, "plain")) \in Seq(FileLoads)
          /\ \A vs, slugs : Comes(vs, slugs, w, Append(pending.loads, Request(w.active, view.shown.folder, "plain")))
      BY <3>2, FilesHere, LastOneComes
    <3> QED BY <3>1, <3>3
  <2>4. k \in Seq(FileLoads) /\ \A vs, slugs : Comes(vs, slugs, view', k)
    BY <1>2, <2>1, <2>3
  <2>5. pending' \in [loads : Seq(FileLoads), uploads : SUBSET (Projects \X Folders)] /\ pending'.loads = k
    BY <2>2, <2>4, FilesHere, LoadsPut
  <2> QED BY <1>1, <1>2, <1>3, <2>4, <2>5, FilesHere DEF FileTabInv, FileTabTyped
<1>5. CASE ~view.files
  BY <1>1, <1>2, <1>3, <1>5, FilesHere DEF FileTabInv, FileTabTyped
<1> QED BY <1>4, <1>5

LEMMA TubeTurns ==
    ASSUME FileTabInv, TubeBreaks \/ TubeReopens
    PROVE  FileTabInv'
<1>1. CASE TubeBreaks
  <2>1. PICK why : why = IF tube.slugs # <<>> THEN {"unheard"} ELSE {}
    OBVIOUS
  <2>2. why \in SUBSET Excuses /\ (why = {} => tube.slugs = <<>>)
    BY <2>1 DEF Excuses
  <2>3. tube' = [up |-> FALSE, slugs |-> <<>>] /\ doings' = Lapsed(why) /\ UNCHANGED <<versions, view, pending>>
    BY <1>1, <2>1 DEF TubeBreaks
  <2>4. doings' \in Doings /\ doings'.stale = doings.stale \cup why
    BY <2>2, <2>3, FilesHere, DoingsTurn
  <2>5. tube' \in [up : BOOLEAN, slugs : Seq(Projects)]
    BY <2>3, EmptySeq
  <2>6. FileTabTyped'
    BY <2>3, <2>4, <2>5, FilesHere DEF FileTabTyped
  <2>7. doings'.stale = {} => doings.stale = {} /\ tube'.slugs = tube.slugs
    BY <2>2, <2>3, <2>4
  <2> QED BY <2>3, <2>6, <2>7 DEF FileTabInv
<1>2. CASE TubeReopens
  <2>1. /\ tube' = [tube EXCEPT !.up = TRUE] /\ UNCHANGED <<versions, view, pending, doings>>
    BY <1>2 DEF TubeReopens
  <2>2. tube' \in [up : BOOLEAN, slugs : Seq(Projects)] /\ tube'.slugs = tube.slugs
    BY <2>1, FilesHere
  <2> QED BY <2>1, <2>2 DEF FileTabInv, FileTabTyped
<1> QED BY <1>1, <1>2

LEMMA FilesStep == ASSUME FileTabInv, [ScreenNext]_filesTab PROVE FileTabInv'
<1>1. ASSUME NEW n \in DOMAIN pending.loads, DirectoryRead(n) \/ ListingFails(n) PROVE FileTabInv'
  BY <1>1, DirectoryTurns
<1>2. ASSUME NEW n \in DOMAIN pending.loads, FolderShown(n) \/ FolderFails(n) PROVE FileTabInv'
  BY <1>2, LoadEnds
<1>3. ASSUME NEW p \in Projects, ProjectChosen(p) PROVE FileTabInv'
  BY <1>3, ProjectTurns
<1>4. ASSUME NEW p \in Projects, FilesChange(p) \/ AgentWrites(p) PROVE FileTabInv'
  BY <1>4, ChangesTurn
<1>5. ASSUME NEW p \in Projects, NEW f \in Tree[p], FolderChosen(f) PROVE FileTabInv'
  BY <1>5, FolderTurns
<1>6. ASSUME NEW p \in Projects, NEW f \in Tree[p], Uploaded(p, f) PROVE FileTabInv'
  BY <1>6, UploadTurns
<1>7. CASE UNCHANGED filesTab
  BY <1>7 DEF filesTab, FileTabInv, FileTabTyped
<1> QED BY <1>1, <1>2, <1>3, <1>4, <1>5, <1>6, <1>7, TabTurnsToFiles, OtherwiseTurns, SlugTurns, DebounceTurns,
           TubeTurns DEF ScreenNext

LEMMA FilesAreTrue == FileTabInv => QuietFilesAreCurrent
<1> SUFFICES ASSUME FileTabInv, view.files, view.active # NoProject, ~view.timer, pending.loads = <<>>,
                    tube.slugs = <<>>, doings.stale = {}
             PROVE  view.shown.project = view.active /\ view.shown.version = versions[view.active]
  BY DEF QuietFilesAreCurrent
<1>1. Comes(versions, tube.slugs, view, pending.loads)
  BY DEF FileTabInv
<1>2. DOMAIN tube.slugs = {}
  <2>1. Len(tube.slugs) \in Nat /\ DOMAIN tube.slugs = 1 .. Len(tube.slugs) /\ Len(tube.slugs) = 0
    BY FilesHere, LenProperties, EmptySeq
  <2> QED BY <2>1
<1> QED BY <1>1, <1>2 DEF Comes

-----------------------------------------------------------------------------
(* A turn in the chat *)

AllKinds == {"text", "long", "bash", "todo", "file", "reasoning", "step"}
AgentParts == [kind : AllKinds, turn : Nat, ended : BOOLEAN]
AgentEvents == [type : {"part", "delta", "ask", "idle"}, part : Nat, ended : BOOLEAN]
WordsOfParts == Nat \X Nat
Bubbles == [key : [kind : {"plain", "commentary", "reply", "bash", "todo", "ask", "file"}, n : Nat],
            text : Seq(WordsOfParts)]
BridgeStates ==
    [open : BOOLEAN, meta : BOOLEAN, text : Seq(WordsOfParts), types : SUBSET Nat, deltas : SUBSET Nat,
     openParts : SUBSET Nat, closedParts : SUBSET Nat, tools : SUBSET Nat,
     thinking : BOOLEAN, typing : BOOLEAN, todo : SUBSET Nat, links : SUBSET Nat,
     reply : Nat, comment : Nat, recent : [text : Seq(WordsOfParts), n : Nat],
     replies : Nat, comments : Nat, chat : SUBSET Bubbles]

StreamTyped ==
    /\ opencode \in [turn : Nat, at : {"idle", "working", "text", "said", "tool"},
                     http : {"none", "waiting", "answered"}, parts : Seq(AgentParts)]
    /\ stream \in [events : Seq(AgentEvents), faults : Nat, whole : BOOLEAN]
    /\ bridge \in BridgeStates

IsText(p) == opencode.parts[p].kind \in TextKinds
IsTool(p) == opencode.parts[p].kind \in ToolKinds
OfTurn(p) == p \in DOMAIN opencode.parts /\ opencode.parts[p].turn = opencode.turn
LastPart == Len(opencode.parts)

(* The agent: parts come turn by turn, what it does is in its newest part, *)
(* tools end.                                                              *)
AgentInv ==
    /\ \A p, q \in DOMAIN opencode.parts :
          /\ opencode.parts[p].turn <= opencode.turn
          /\ p < q => opencode.parts[p].turn <= opencode.parts[q].turn
    /\ opencode.at \in {"text", "said"} => OfTurn(LastPart) /\ IsText(LastPart)
    /\ opencode.at = "tool" => OfTurn(LastPart) /\ IsTool(LastPart)
    /\ opencode.at \in {"idle", "working"} /\ OfTurn(LastPart) => ~IsText(LastPart)
    /\ \A p \in DOMAIN opencode.parts :
          /\ IsTool(p) => opencode.parts[p].ended \/ (p = LastPart /\ opencode.at = "tool")
          /\ ~IsTool(p) => ~opencode.parts[p].ended
    /\ opencode.turn = 0 => opencode.at = "idle" /\ opencode.parts = <<>>

(* Events are about parts. *)
EventInv ==
    \A i \in DOMAIN stream.events :
        LET e == stream.events[i]
        IN /\ e.type # "idle" => e.part \in DOMAIN opencode.parts
           /\ e.type = "idle" => e.part = 0
           /\ e.type = "delta" => IsText(e.part)
           /\ e.type = "ask" => IsTool(e.part)
           /\ e.type = "part" /\ e.ended => IsTool(e.part)

(* The bridge: buffered text is of open parts, and a closed turn has none. *)
MemoryInv ==
    /\ bridge.comment = 0 /\ bridge.reply = 0
    /\ bridge.types \cup bridge.closedParts \cup bridge.tools \subseteq DOMAIN opencode.parts
    /\ bridge.deltas \subseteq bridge.openParts /\ bridge.openParts \subseteq bridge.types
    /\ \A p \in bridge.openParts \cup bridge.closedParts : IsText(p)
    /\ \A p \in bridge.types : IsText(p) => p \in bridge.openParts \cup bridge.closedParts
    /\ bridge.openParts \cap bridge.closedParts = {}
    /\ bridge.text = <<>> => bridge.deltas = {}
    /\ ~bridge.open => bridge.types = {} /\ bridge.text = <<>>

(* The chat shows words of parts, and ends of commands. *)
Says(c, p) == \E i \in DOMAIN c.text : c.text[i][1] = p

ChatInv == \A c \in bridge.chat : \A p : Says(c, p) => p \in 0 .. LastPart

PartEvent(k, q) == stream.events[k].type = "part" /\ stream.events[k].part = q
DeltaEvent(k, q) == stream.events[k].type = "delta" /\ stream.events[k].part = q
EndEvent(k, q) == PartEvent(k, q) /\ stream.events[k].ended

(* The snapshot of part q came, or comes before event i; its text too. *)
SentPart(i, q) == q \in bridge.types \/ \E k \in 1 .. i - 1 : PartEvent(k, q)
SentWords(i, q) == q \in bridge.closedParts \cup bridge.deltas \/ \E k \in 1 .. i - 1 : DeltaEvent(k, q)
SentEnd(i, q) == q \in bridge.tools \/ \E k \in 1 .. i - 1 : EndEvent(k, q)
SentAll(i, q) == SentPart(i, q) /\ (IsText(q) => SentWords(i, q))

(* Nothing newer than part r comes before event i. *)
InPlace(i, r) ==
    /\ \A q \in bridge.types : q <= r
    /\ \A k \in 1 .. i - 1 : stream.events[k].part <= r

(* While a turn is open and the stream is whole, events come in order and  *)
(* none is missing.                                                        *)
HeardInOrder(i) ==
    LET e == stream.events[i]
    IN /\ e.type = "idle" => opencode.at = "idle" /\ \A q \in DOMAIN opencode.parts : OfTurn(q) => SentAll(i, q)
       /\ e.type # "idle" =>
             /\ OfTurn(e.part)
             /\ \A q \in DOMAIN opencode.parts : OfTurn(q) /\ q < e.part => SentAll(i, q)
       /\ e.type \in {"delta", "ask"} => SentPart(i, e.part)
       /\ e.type \in {"part", "ask"} /\ ~IsText(e.part) =>
             InPlace(i, e.part) \/ (e.type = "part" /\ e.ended /\ SentEnd(i, e.part))

SentInv ==
    LET i == Len(stream.events) + 1
    IN /\ \A p \in DOMAIN opencode.parts : OfTurn(p) =>
             /\ SentPart(i, p)
             /\ IsText(p) /\ ~(opencode.at = "text" /\ p = LastPart) => SentWords(i, p)
             /\ opencode.parts[p].ended => SentEnd(i, p)
       /\ opencode.at = "idle" /\ opencode.turn # 0 => \E k \in DOMAIN stream.events : stream.events[k].type = "idle"

TurnOrderInv ==
    /\ \A p \in bridge.types : OfTurn(p)
    /\ \A p \in bridge.closedParts \cup bridge.tools : OfTurn(p) => p \in bridge.types
    /\ SentInv
    /\ \A i \in DOMAIN stream.events : HeardInOrder(i)

(* The words of parts S of P, one after the other. *)
WordsIn(P, p) == CASE P[p].kind = "text" -> <<<<p, 1>>>>
                   [] P[p].kind = "long" -> <<<<p, 1>>, <<p, 2>>, <<p, 3>>>>
                   [] OTHER -> <<>>
Flat(P, S) == FlattenSeq([p \in DOMAIN P |-> IF p \in S THEN WordsIn(P, p) ELSE <<>>])

(* What the bridge has heard of the turn is an initial part of it, texts   *)
(* are closed by what follows them, the buffer holds the others.           *)
HeardInv ==
    /\ \A p \in bridge.types, q \in DOMAIN opencode.parts : OfTurn(q) /\ q < p => q \in bridge.types
    /\ \A s \in bridge.types, q \in DOMAIN opencode.parts :
          ~IsText(s) /\ OfTurn(q) /\ IsText(q) /\ q < s => q \in bridge.closedParts
    /\ \A p \in bridge.closedParts : OfTurn(p) => \E s \in bridge.types : ~IsText(s) /\ p < s
    /\ \A p \in bridge.deltas, q \in DOMAIN opencode.parts :
          OfTurn(q) /\ IsText(q) /\ q < p => q \in bridge.closedParts \cup bridge.deltas
    /\ bridge.text = Flat(opencode.parts, bridge.deltas)
    /\ \A c \in bridge.chat, p \in DOMAIN opencode.parts :
          OfTurn(p) /\ Says(c, p) => p \in bridge.closedParts

(* The last run of texts of turn t. *)
TextOf(P, t, p) == p \in DOMAIN P /\ P[p].turn = t /\ P[p].kind \in TextKinds
RunUpTo(P, t, p, e) ==
    /\ p <= e /\ \A q \in p .. e : TextOf(P, t, q)
    /\ \A q \in DOMAIN P : TextOf(P, t, q) => q <= e
LastRun(P, t) == {p \in DOMAIN P : \E e \in DOMAIN P : RunUpTo(P, t, p, e)}

(* Until HTTP answers, the last run is in the newest commentary or nowhere.*)
ReplyInv ==
    opencode.http = "waiting" =>
        \A c \in bridge.chat, p \in LastRun(opencode.parts, opencode.turn) :
            Says(c, p) => /\ bridge.recent.n # 0 /\ c.key = Key("commentary", bridge.recent.n)
                          /\ bridge.recent.text = Flat(opencode.parts, LastRun(opencode.parts, opencode.turn))

(* The indicator is that of an open turn; and what holds while the stream  *)
(* is whole.                                                               *)
IndicatorInv == bridge.typing => bridge.thinking /\ bridge.open

WholeInv ==
    /\ MemoryInv /\ ChatInv
    /\ opencode.at # "idle" => bridge.open
    /\ bridge.open => TurnOrderInv /\ HeardInv
    /\ ReplyInv

StreamInv ==
    /\ StreamTyped /\ AgentInv /\ EventInv /\ IndicatorInv /\ TextShownOnce
    /\ stream.whole => WholeInv

-----------------------------------------------------------------------------
(* Joined sequences *)

(* g is what joining s has made after each place. *)
Glues(g, S, s) ==
    /\ g \in [0 .. Len(s) -> Seq(S)]
    /\ g[0] = <<>>
    /\ \A n \in 1 .. Len(s) : g[n] = g[n - 1] \o s[n]
    /\ FlattenSeq(s) = g[Len(s)]

LEMMA FlattenUnfolds ==
    ASSUME NEW S, NEW s \in Seq(Seq(S))
    PROVE  \E g : Glues(g, S, s)
<1> DEFINE L == Len(s)
           Goes(f, m) == /\ f \in [0 .. m -> Seq(S)] /\ f[0] = <<>>
                         /\ \A n \in 1 .. m : f[n] = f[n - 1] \o s[n]
           P == {m \in 0 .. L : \E f : Goes(f, m)}
           F(f) == [i \in 1 .. L |-> IF i = 1 THEN s[i] ELSE f[i - 1] \o s[i]]
<1>0. L \in Nat /\ \A n \in 1 .. L : s[n] \in Seq(S)
  BY LenProperties
<1>1. 0 \in P
  <2> DEFINE z == [n \in 0 .. 0 |-> <<>>]
  <2>1. <<>> \in Seq(S)
    OBVIOUS
  <2>2. z \in [0 .. 0 -> Seq(S)] /\ z[0] = <<>>
    BY <2>1
  <2>3. 1 .. 0 = {}
    OBVIOUS
  <2> HIDE DEF z
  <2>4. Goes(z, 0)
    BY <2>2, <2>3
  <2>5. 0 \in 0 .. L
    BY <1>0
  <2> HIDE DEF Goes, L
  <2> QED BY <2>4, <2>5
<1>2. \A m \in 1 .. L : m - 1 \in P => m \in P
  <2> SUFFICES ASSUME NEW m \in 1 .. L, m - 1 \in P PROVE m \in P
    OBVIOUS
  <2>1. PICK f : Goes(f, m - 1)
    OBVIOUS
  <2> DEFINE x == f[m - 1] \o s[m]
             g == [n \in 0 .. m |-> IF n = m THEN x ELSE f[n]]
  <2>2. m - 1 \in 0 .. m - 1 /\ f[m - 1] \in Seq(S) /\ s[m] \in Seq(S)
    BY <1>0, <2>1
  <2>3. x \in Seq(S)
    BY <2>2, ConcatProperties
  <2>4. g \in [0 .. m -> Seq(S)] /\ g[0] = <<>>
    <3>1. ASSUME NEW n \in 0 .. m PROVE (IF n = m THEN x ELSE f[n]) \in Seq(S)
      BY <2>1, <2>3
    <3>2. g \in [0 .. m -> Seq(S)]
      BY <3>1
    <3> HIDE DEF x
    <3>3. 0 \in 0 .. m /\ 0 # m
      OBVIOUS
    <3> QED BY <2>1, <3>2, <3>3
  <2>5. ASSUME NEW n \in 1 .. m PROVE g[n] = g[n - 1] \o s[n]
    <3>1. CASE n = m
      <4>0. m \in 0 .. m /\ m - 1 \in 0 .. m /\ m - 1 # m
        OBVIOUS
      <4> HIDE DEF x
      <4>1. g[m] = x /\ g[m - 1] = f[m - 1]
        BY <4>0
      <4> USE DEF x
      <4> HIDE DEF g
      <4>2. g[m] = g[m - 1] \o s[m]
        BY <4>1, Zenon
      <4> QED BY <3>1, <4>2, Zenon
    <3>2. CASE n # m
      <4>1. n \in 1 .. m - 1 /\ n - 1 # m /\ n - 1 \in 0 .. m
        BY <3>2
      <4>2. g[n] = f[n] /\ g[n - 1] = f[n - 1]
        BY <4>1, <3>2
      <4> QED BY <2>1, <4>1, <4>2
    <3> QED BY <3>1, <3>2
  <2>6. Goes(g, m)
    BY <2>4, <2>5
  <2> HIDE DEF g, Goes
  <2> QED BY <2>6
<1>3. L \in P
  <2> HIDE DEF P
  <2>1. 0 .. L \subseteq P
    BY <1>0, <1>1, <1>2, Upwards
  <2> QED BY <1>0, <2>1
<1>4. PICK g : Goes(g, L)
  BY <1>3
<1>5. CASE L = 0
  <2>1. s = <<>>
    BY <1>5, EmptySeq
  <2>2. FlattenSeq(s) = <<>>
    BY <1>5, <2>1 DEF FlattenSeq
  <2> QED BY <1>4, <1>5, <2>2 DEF Glues
<1>6. CASE L # 0
  <2> DEFINE e == [i \in 1 .. L |-> g[i]]
             h == CHOOSE h : h = F(h)
  <2>1. e = F(e)
    <3>1. ASSUME NEW i \in 1 .. L PROVE e[i] = F(e)[i]
      <4>1. CASE i = 1
        <5>0. 1 \in 1 .. L /\ 1 - 1 = 0
          BY <1>0, <4>1
        <5>1. g[1] = <<>> \o s[1] /\ s[1] \in Seq(S)
          <6>1. g[1] = g[1 - 1] \o s[1] /\ g[0] = <<>>
            BY <1>4, <5>0, Zenon
          <6> HIDE DEF L
          <6> QED BY <1>0, <5>0, <6>1
        <5>2. g[1] = s[1]
          BY <5>1, ConcatEmptySeq
        <5> QED BY <4>1, <5>2
      <4>2. CASE i # 1
        <5>1. i - 1 \in 1 .. L
          BY <1>0, <4>2
        <5> QED BY <1>4, <4>2, <5>1
      <4> QED BY <4>1, <4>2
    <3> HIDE DEF Goes
    <3> QED BY <3>1
  <2>2. h = F(h)
    <3> HIDE DEF F, e
    <3> QED BY <2>1
  <2>3. FlattenSeq(s) = h[L]
    BY <1>6 DEF FlattenSeq
  <2> HIDE DEF h
  <2>4. \A i \in 1 .. L : h[i] = IF i = 1 THEN s[i] ELSE h[i - 1] \o s[i]
    BY <2>2
  <2> DEFINE Q == {n \in 0 .. L : n # 0 => h[n] = g[n]}
  <2>5. 0 \in Q
    BY <1>0
  <2>6. \A n \in 1 .. L : n - 1 \in Q => n \in Q
    <3> SUFFICES ASSUME NEW n \in 1 .. L, n - 1 \in Q PROVE h[n] = g[n]
      OBVIOUS
    <3>1. CASE n = 1
      <4>0. 1 \in 1 .. L /\ 1 - 1 = 0
        BY <1>0, <3>1
      <4>1. g[1] = <<>> \o s[1] /\ s[1] \in Seq(S)
        <5>1. g[1] = g[1 - 1] \o s[1] /\ g[0] = <<>>
          BY <1>4, <4>0, Zenon
        <5> HIDE DEF L
        <5> QED BY <1>0, <4>0, <5>1
      <4>2. g[1] = s[1]
        BY <4>1, ConcatEmptySeq
      <4> QED BY <2>4, <3>1, <4>0, <4>2
    <3>2. CASE n # 1
      <4>1. h[n] = h[n - 1] \o s[n] /\ g[n] = g[n - 1] \o s[n]
        BY <1>4, <2>4, <3>2
      <4>2. n - 1 # 0 /\ h[n - 1] = g[n - 1]
        BY <3>2
      <4> QED BY <4>1, <4>2
    <3> QED BY <3>1, <3>2
  <2>7. L \in Q
    <3> HIDE DEF Q
    <3>1. 0 .. L \subseteq Q
      BY <1>0, <2>5, <2>6, Upwards
    <3> QED BY <1>0, <3>1
  <2> QED BY <1>4, <1>6, <2>3, <2>7 DEF Glues
<1> QED BY <1>5, <1>6

(* What is joined is there, in order. *)
LEMMA FlattenTyped == ASSUME NEW S, NEW s \in Seq(Seq(S)) PROVE FlattenSeq(s) \in Seq(S)
<1>1. PICK g : Glues(g, S, s)
  BY FlattenUnfolds
<1>2. Len(s) \in Nat
  BY LenProperties
<1> QED BY <1>1, <1>2 DEF Glues

(* Empty ends do not count. *)
LEMMA FlattenSame ==
    ASSUME NEW S, NEW s \in Seq(Seq(S)), NEW t \in Seq(Seq(S)), Len(s) <= Len(t),
           \A i \in 1 .. Len(t) : t[i] = IF i <= Len(s) THEN s[i] ELSE <<>>
    PROVE  FlattenSeq(s) = FlattenSeq(t)
<1>1. PICK g : Glues(g, S, s)
  BY FlattenUnfolds
<1>2. PICK h : Glues(h, S, t)
  BY FlattenUnfolds
<1> DEFINE K == Len(s)
           L == Len(t)
           same(n) == h[n] = g[IF n <= K THEN n ELSE K]
           P == {n \in 0 .. L : same(n)}
<1>3. K \in Nat /\ L \in Nat /\ K <= L
  BY LenProperties
<1>4. /\ \A n \in 1 .. L : h[n] = h[n - 1] \o t[n] /\ h[n - 1] \in Seq(S)
      /\ \A n \in 1 .. K : g[n] = g[n - 1] \o s[n] /\ t[n] = s[n]
      /\ \A n \in 1 .. L : ~(n <= K) => t[n] = <<>>
      /\ h[0] = <<>> /\ g[0] = <<>>
  <2>1. \A n \in 1 .. L : n \in 1 .. Len(t) /\ n - 1 \in 0 .. Len(t)
    BY <1>3
  <2>2. \A n \in 1 .. K : n \in 1 .. Len(s) /\ n \in 1 .. Len(t) /\ n <= Len(s)
    BY <1>3
  <2>3. \A n \in 1 .. L : h[n] = h[n - 1] \o t[n] /\ h[n - 1] \in Seq(S)
    BY <1>2, <2>1 DEF Glues
  <2>4. \A n \in 1 .. K : g[n] = g[n - 1] \o s[n] /\ t[n] = s[n]
    BY <1>1, <2>2 DEF Glues
  <2> QED BY <1>1, <1>2, <2>3, <2>4 DEF Glues
<1> HIDE DEF K, L
<1>5. 0 \in P
  BY <1>3, <1>4
<1>6. \A n \in 1 .. L : n - 1 \in P => n \in P
  <2> SUFFICES ASSUME NEW n \in 1 .. L, n - 1 \in P PROVE same(n)
    BY <1>3
  <2>0. same(n - 1)
    OBVIOUS
  <2>1. CASE n <= K
    <3>1. n \in 1 .. K /\ n - 1 <= K
      BY <1>3, <2>1
    <3>2. h[n - 1] = g[n - 1]
      BY <2>0, <3>1
    <3>3. h[n] = g[n]
      BY <1>4, <3>1, <3>2
    <3> QED BY <2>1, <3>3
  <2>2. CASE ~(n <= K)
    <3>1. h[n] = h[n - 1]
      <4>1. t[n] = <<>> /\ h[n] = h[n - 1] \o t[n] /\ h[n - 1] \in Seq(S)
        BY <1>4, <2>2
      <4>2. \A v \in Seq(S) : v \o <<>> = v
        BY ConcatEmptySeq
      <4> QED BY <4>1, <4>2, Zenon
    <3>2. h[n - 1] = g[K]
      <4>1. CASE n - 1 = K
        BY <2>0, <4>1
      <4>2. CASE n - 1 # K
        BY <1>3, <2>0, <2>2, <4>2
      <4> QED BY <4>1, <4>2
    <3>3. h[n] = g[K]
      BY <3>1, <3>2, Zenon
    <3> QED BY <2>2, <3>3
  <2> QED BY <2>1, <2>2
<1>7. L \in P
  <2> HIDE DEF P
  <2>1. 0 .. L \subseteq P
    BY <1>3, <1>5, <1>6, Upwards
  <2> QED BY <1>3, <2>1
<1>8. h[L] = g[K]
  <2>1. same(L)
    BY <1>7
  <2>2. CASE L = K
    BY <2>1, <2>2
  <2>3. CASE L # K
    BY <1>3, <2>1, <2>3
  <2> QED BY <2>2, <2>3
<1> QED BY <1>1, <1>2, <1>8 DEF Glues, K, L

(* What fills an empty end comes last. *)
LEMMA FlattenAdds ==
    ASSUME NEW S, NEW s \in Seq(Seq(S)), NEW t \in Seq(Seq(S)), Len(s) = Len(t), NEW p \in 1 .. Len(t),
           \A i \in 1 .. Len(t) : i >= p => s[i] = <<>>,
           \A i \in 1 .. Len(t) : i # p => t[i] = s[i]
    PROVE  FlattenSeq(t) = FlattenSeq(s) \o t[p]
<1>1. PICK g : Glues(g, S, s)
  BY FlattenUnfolds
<1>2. PICK h : Glues(h, S, t)
  BY FlattenUnfolds
<1> DEFINE L == Len(t)
           x == t[p]
           same(n) == h[n] = IF n < p THEN g[n] ELSE g[n] \o x
           P == {n \in 0 .. L : same(n)}
<1>3. L \in Nat /\ Len(s) = L /\ p \in 1 .. L /\ x \in Seq(S)
  BY LenProperties
<1>4. /\ \A n \in 1 .. L : /\ h[n] = h[n - 1] \o t[n] /\ h[n - 1] \in Seq(S)
                            /\ g[n] = g[n - 1] \o s[n] /\ g[n - 1] \in Seq(S)
      /\ \A n \in 1 .. L : n # p => t[n] = s[n]
      /\ \A n \in 1 .. L : n >= p => s[n] = <<>>
      /\ h[0] = <<>> /\ g[0] = <<>>
  <2>1. \A n \in 1 .. L : n \in 1 .. Len(t) /\ n - 1 \in 0 .. Len(t) /\ n \in 1 .. Len(s) /\ n - 1 \in 0 .. Len(s)
    BY <1>3
  <2> HIDE DEF x
  <2>3. \A n \in 1 .. L : h[n] = h[n - 1] \o t[n] /\ h[n - 1] \in Seq(S)
    BY <1>2, <2>1 DEF Glues
  <2>4. \A n \in 1 .. L : g[n] = g[n - 1] \o s[n] /\ g[n - 1] \in Seq(S)
    BY <1>1, <2>1 DEF Glues
  <2>5. \A n \in 1 .. L : (n # p => t[n] = s[n]) /\ (n >= p => s[n] = <<>>)
    BY <2>1
  <2> QED BY <1>1, <1>2, <2>3, <2>4, <2>5 DEF Glues
<1>x. h[p] = h[p - 1] \o x
  BY <1>3, <1>4
<1> HIDE DEF L, x
<1>5. 0 \in P
  BY <1>3, <1>4
<1>6. \A n \in 1 .. L : n - 1 \in P => n \in P
  <2> SUFFICES ASSUME NEW n \in 1 .. L, n - 1 \in P PROVE same(n)
    <3> HIDE DEF same
    <3>1. \A n \in 1 .. L : n \in 0 .. L
      BY <1>3
    <3> QED BY <3>1
  <2>0. same(n - 1)
    OBVIOUS
  <2>1. CASE n < p
    <3>1. t[n] = s[n] /\ h[n - 1] = g[n - 1]
      BY <1>3, <1>4, <2>0, <2>1
    <3>2. h[n] = g[n]
      <4>1. h[n] = h[n - 1] \o t[n] /\ g[n] = g[n - 1] \o s[n]
        BY <1>4
      <4> QED BY <3>1, <4>1, Zenon
    <3> QED BY <2>1, <3>2
  <2>2. CASE n = p
    <3>0. n - 1 < p
      BY <1>3, <2>2
    <3>1. h[n - 1] = g[n - 1]
      BY <2>0, <3>0
    <3>2. g[n] = g[n - 1]
      <4>0. n >= p
        BY <1>3, <2>2
      <4>1. s[n] = <<>> /\ g[n] = g[n - 1] \o s[n] /\ g[n - 1] \in Seq(S)
        BY <1>4, <4>0, Zenon
      <4>2. \A v \in Seq(S) : v \o <<>> = v
        BY ConcatEmptySeq
      <4> QED BY <4>1, <4>2, Zenon
    <3>3. h[n] = g[n] \o x
      BY <1>x, <2>2, <3>1, <3>2, Zenon
    <3>4. ~(n < p)
      BY <1>3, <2>2
    <3> QED BY <3>3, <3>4, Zenon
  <2>3. CASE n > p
    <3>0. ~(n - 1 < p) /\ ~(n < p)
      BY <1>3, <2>3
    <3>1. h[n - 1] = g[n - 1] \o x
      BY <2>0, <3>0, Zenon
    <3>2. g[n] = g[n - 1] /\ h[n] = h[n - 1]
      <4>0. n >= p /\ n # p
        BY <1>3, <2>3
      <4>1. /\ s[n] = <<>> /\ g[n] = g[n - 1] \o s[n] /\ g[n - 1] \in Seq(S)
            /\ t[n] = <<>> /\ h[n] = h[n - 1] \o t[n] /\ h[n - 1] \in Seq(S)
        BY <1>4, <4>0, Zenon
      <4>2. \A v \in Seq(S) : v \o <<>> = v
        BY ConcatEmptySeq
      <4> QED BY <4>1, <4>2, Zenon
    <3>3. h[n] = g[n] \o x
      BY <3>1, <3>2, Zenon
    <3> QED BY <3>0, <3>3, Zenon
  <2> QED BY <1>3, <2>1, <2>2, <2>3
<1>7. L \in P
  <2> HIDE DEF P
  <2>1. 0 .. L \subseteq P
    BY <1>3, <1>5, <1>6, Upwards
  <2> QED BY <1>3, <2>1
<1>8. h[L] = g[L] \o x
  <2>1. same(L) /\ ~(L < p)
    BY <1>3, <1>7
  <2> QED BY <2>1, Zenon
<1>9. FlattenSeq(t) = h[L] /\ FlattenSeq(s) = g[L]
  BY <1>1, <1>2, <1>3 DEF Glues, L
<1> QED BY <1>8, <1>9, Zenon DEF x

(* What is joined is of one of them, and is there once when it was.  *)
LEMMA FlattenDistinct ==
    ASSUME NEW S, NEW s \in Seq(Seq(S)),
           \A i, j \in DOMAIN s : \A k \in DOMAIN s[i], l \in DOMAIN s[j] : s[i][k] = s[j][l] => i = j /\ k = l
    PROVE  /\ \A a \in DOMAIN FlattenSeq(s) : \E i \in DOMAIN s : \E k \in DOMAIN s[i] : FlattenSeq(s)[a] = s[i][k]
           /\ \A a, b \in DOMAIN FlattenSeq(s) : FlattenSeq(s)[a] = FlattenSeq(s)[b] => a = b
<1>1. PICK g : Glues(g, S, s)
  BY FlattenUnfolds
<1> DEFINE L == Len(s)
           Good(n) == /\ \A a \in DOMAIN g[n] : \E i \in 1 .. n : \E k \in DOMAIN s[i] : g[n][a] = s[i][k]
                      /\ \A a, b \in DOMAIN g[n] : g[n][a] = g[n][b] => a = b
           P == {n \in 0 .. L : Good(n)}
<1>2. L \in Nat /\ DOMAIN s = 1 .. L /\ \A n \in 1 .. L : s[n] \in Seq(S)
  BY LenProperties
<1>3. 0 \in P
  <2>1. g[0] = <<>> /\ DOMAIN g[0] = {}
    BY <1>1 DEF Glues
  <2>2. Good(0)
    BY <2>1
  <2> HIDE DEF Good
  <2> QED BY <1>2, <2>2
<1>4. \A n \in 1 .. L : n - 1 \in P => n \in P
  <2> SUFFICES ASSUME NEW n \in 1 .. L, n - 1 \in P PROVE Good(n)
    <3> HIDE DEF Good
    <3> QED BY <1>2
  <2>0. /\ \A a \in DOMAIN g[n - 1] : \E i \in 1 .. n - 1 : \E k \in DOMAIN s[i] : g[n - 1][a] = s[i][k]
        /\ \A a, b \in DOMAIN g[n - 1] : g[n - 1][a] = g[n - 1][b] => a = b
    <3>1. Good(n - 1)
      <4> HIDE DEF Good
      <4> QED OBVIOUS
    <3> QED BY <3>1
  <2>1. PICK u : u = g[n - 1]
    OBVIOUS
  <2>2. PICK v : v = s[n]
    OBVIOUS
  <2>3. u \in Seq(S) /\ v \in Seq(S) /\ g[n] = u \o v /\ n \in DOMAIN s
    BY <1>1, <1>2, <2>1, <2>2 DEF Glues
  <2>4. /\ Len(u) \in Nat /\ Len(v) \in Nat
        /\ DOMAIN u = 1 .. Len(u) /\ DOMAIN v = 1 .. Len(v)
        /\ DOMAIN g[n] = 1 .. Len(u) + Len(v)
        /\ \A a \in 1 .. Len(u) + Len(v) : g[n][a] = IF a <= Len(u) THEN u[a] ELSE v[a - Len(u)]
    BY <2>3, ConcatProperties, LenProperties
  <2>5. \A a \in DOMAIN u : \E i \in 1 .. n - 1 : \E k \in DOMAIN s[i] : u[a] = s[i][k]
    <3> SUFFICES ASSUME NEW a \in DOMAIN u
                 PROVE  \E i \in 1 .. n - 1 : \E k \in DOMAIN s[i] : u[a] = s[i][k]
      OBVIOUS
    <3>1. a \in DOMAIN g[n - 1] /\ u[a] = g[n - 1][a]
      BY <2>1
    <3>2. PICK i \in 1 .. n - 1 : \E k \in DOMAIN s[i] : g[n - 1][a] = s[i][k]
      BY <2>0, <3>1
    <3> QED BY <3>1, <3>2
  <2>6. \A a, b \in DOMAIN u : u[a] = u[b] => a = b
    BY <2>0, <2>1
  <2>7. \A a, b \in DOMAIN v : v[a] = v[b] => a = b
    BY <2>2, <2>3
  <2>8. \A a \in DOMAIN u, b \in DOMAIN v : u[a] # v[b]
    <3> SUFFICES ASSUME NEW a \in DOMAIN u, NEW b \in DOMAIN v, u[a] = v[b] PROVE FALSE
      OBVIOUS
    <3>1. PICK i \in 1 .. n - 1 : \E k \in DOMAIN s[i] : u[a] = s[i][k]
      BY <2>5
    <3>2. i \in DOMAIN s /\ i # n
      BY <1>2, <3>1
    <3> QED BY <2>2, <2>3, <3>1, <3>2
  <2>9. ASSUME NEW a \in DOMAIN g[n] PROVE \E i \in 1 .. n : \E k \in DOMAIN s[i] : g[n][a] = s[i][k]
    <3>1. CASE a <= Len(u)
      <4>1. a \in DOMAIN u /\ g[n][a] = u[a]
        BY <2>4, <3>1
      <4>2. PICK i \in 1 .. n - 1 : \E k \in DOMAIN s[i] : u[a] = s[i][k]
        BY <2>5, <4>1
      <4>3. i \in 1 .. n
        BY <4>2
      <4> QED BY <4>1, <4>2, <4>3
    <3>2. CASE ~(a <= Len(u))
      <4>1. a - Len(u) \in DOMAIN v /\ g[n][a] = v[a - Len(u)] /\ n \in 1 .. n
        BY <2>4, <3>2
      <4> QED BY <2>2, <4>1
    <3> QED BY <3>1, <3>2
  <2>10. ASSUME NEW a \in DOMAIN g[n], NEW b \in DOMAIN g[n], g[n][a] = g[n][b] PROVE a = b
    <3>1. CASE a <= Len(u) /\ b <= Len(u)
      BY <2>4, <2>6, <2>10, <3>1
    <3>2. CASE ~(a <= Len(u)) /\ ~(b <= Len(u))
      <4>0. a \in 1 .. Len(u) + Len(v) /\ b \in 1 .. Len(u) + Len(v)
        BY <2>4
      <4>x. a - Len(u) \in DOMAIN v /\ b - Len(u) \in DOMAIN v
        BY <2>4, <3>2, <4>0
      <4>y. g[n][a] = v[a - Len(u)] /\ g[n][b] = v[b - Len(u)]
        BY <2>4, <3>2, <4>0
      <4>1. a - Len(u) \in DOMAIN v /\ b - Len(u) \in DOMAIN v /\ v[a - Len(u)] = v[b - Len(u)]
        BY <2>10, <4>x, <4>y, Zenon
      <4>2. a - Len(u) = b - Len(u)
        BY <2>7, <4>1
      <4> QED BY <2>4, <4>2
    <3>3. CASE a <= Len(u) /\ ~(b <= Len(u))
      <4>1. a \in DOMAIN u /\ b - Len(u) \in DOMAIN v /\ u[a] = v[b - Len(u)]
        BY <2>4, <2>10, <3>3, SMTT(60)
      <4> QED BY <2>8, <4>1
    <3>4. CASE ~(a <= Len(u)) /\ b <= Len(u)
      <4>1. b \in DOMAIN u /\ a - Len(u) \in DOMAIN v /\ u[b] = v[a - Len(u)]
        BY <2>4, <2>10, <3>4, SMTT(60)
      <4> QED BY <2>8, <4>1
    <3> QED BY <3>1, <3>2, <3>3, <3>4
  <2> QED BY <2>9, <2>10
<1>5. L \in P
  <2> HIDE DEF P
  <2>1. 0 .. L \subseteq P
    BY <1>2, <1>3, <1>4, Upwards
  <2> QED BY <1>2, <2>1
<1>6. Good(L) /\ FlattenSeq(s) = g[L]
  <2> HIDE DEF Good
  <2> QED BY <1>1, <1>5 DEF Glues
<1>7. DOMAIN s = 1 .. L
  BY <1>2
<1>8. /\ \A a \in DOMAIN g[L] : \E i \in 1 .. L : \E k \in DOMAIN s[i] : g[L][a] = s[i][k]
      /\ \A a, b \in DOMAIN g[L] : g[L][a] = g[L][b] => a = b
  BY <1>6
<1> HIDE DEF L, P, Good
<1> QED BY <1>6, <1>7, <1>8

LEMMA WordsOfPart ==
    ASSUME NEW P \in Seq(AgentParts), NEW p \in DOMAIN P
    PROVE  /\ WordsIn(P, p) \in Seq(WordsOfParts)
           /\ P[p].kind \in TextKinds => WordsIn(P, p) # <<>>
           /\ P[p].kind \notin TextKinds => WordsIn(P, p) = <<>>
           /\ \A k \in DOMAIN WordsIn(P, p) : WordsIn(P, p)[k][1] = p
           /\ \A k, l \in DOMAIN WordsIn(P, p) : WordsIn(P, p)[k] = WordsIn(P, p)[l] => k = l
<1>1. p \in Nat
  BY LenProperties
<1>2. <<p, 1>> \in WordsOfParts /\ <<p, 2>> \in WordsOfParts /\ <<p, 3>> \in WordsOfParts
  BY <1>1 DEF WordsOfParts
<1>3. CASE P[p].kind = "text"
  BY <1>2, <1>3 DEF WordsIn, TextKinds
<1>4. CASE P[p].kind = "long"
  BY <1>2, <1>4 DEF WordsIn, TextKinds
<1>5. CASE P[p].kind \notin TextKinds
  BY <1>5 DEF WordsIn, TextKinds
<1> QED BY <1>3, <1>4, <1>5 DEF TextKinds

(* What is joined of parts S. *)
Pieces(P, S) == [p \in DOMAIN P |-> IF p \in S THEN WordsIn(P, p) ELSE <<>>]

LEMMA PiecesTyped ==
    ASSUME NEW P \in Seq(AgentParts), NEW S
    PROVE  /\ Pieces(P, S) \in Seq(Seq(WordsOfParts)) /\ Len(Pieces(P, S)) = Len(P)
           /\ DOMAIN Pieces(P, S) = 1 .. Len(P) /\ DOMAIN P = 1 .. Len(P) /\ Len(P) \in Nat
           /\ \A p \in 1 .. Len(P) : Pieces(P, S)[p] = IF p \in S THEN WordsIn(P, p) ELSE <<>>
<1>2. Len(P) \in Nat /\ DOMAIN P = 1 .. Len(P)
  BY LenProperties
<1>3. \A p \in 1 .. Len(P) : (IF p \in S THEN WordsIn(P, p) ELSE <<>>) \in Seq(WordsOfParts)
  <2>1. <<>> \in Seq(WordsOfParts)
    OBVIOUS
  <2> QED BY <1>2, <2>1, WordsOfPart
<1>4. Pieces(P, S) \in [1 .. Len(P) -> Seq(WordsOfParts)]
  BY <1>2, <1>3 DEF Pieces
<1>5. Pieces(P, S) \in Seq(Seq(WordsOfParts)) /\ Len(Pieces(P, S)) = Len(P)
  BY <1>2, <1>4
<1> QED BY <1>2, <1>4, <1>5 DEF Pieces

LEMMA FlatOfParts ==
    ASSUME NEW P \in Seq(AgentParts), NEW S
    PROVE  /\ Flat(P, S) \in Seq(WordsOfParts)
           /\ \A a \in DOMAIN Flat(P, S) : Flat(P, S)[a][1] \in S /\ Flat(P, S)[a][1] \in DOMAIN P
           /\ \A a, b \in DOMAIN Flat(P, S) : Flat(P, S)[a] = Flat(P, S)[b] => a = b
<1> DEFINE s == Pieces(P, S)
<1>1. /\ s \in Seq(Seq(WordsOfParts)) /\ DOMAIN s = 1 .. Len(P) /\ DOMAIN P = 1 .. Len(P)
      /\ \A p \in 1 .. Len(P) : s[p] = IF p \in S THEN WordsIn(P, p) ELSE <<>>
  BY PiecesTyped
<1>2. Flat(P, S) = FlattenSeq(s)
  BY DEF Flat, Pieces
<1> HIDE DEF s
<1>3. \A i \in DOMAIN s : \A k \in DOMAIN s[i] : i \in S /\ s[i] = WordsIn(P, i) /\ s[i][k][1] = i
  <2> SUFFICES ASSUME NEW i \in DOMAIN s, NEW k \in DOMAIN s[i] PROVE i \in S /\ s[i] = WordsIn(P, i) /\ s[i][k][1] = i
    OBVIOUS
  <2>1. i \in S /\ s[i] = WordsIn(P, i)
    BY <1>1
  <2> QED BY <1>1, <2>1, WordsOfPart
<1>4. \A i, j \in DOMAIN s : \A k \in DOMAIN s[i], l \in DOMAIN s[j] : s[i][k] = s[j][l] => i = j /\ k = l
  <2> SUFFICES ASSUME NEW i \in DOMAIN s, NEW j \in DOMAIN s, NEW k \in DOMAIN s[i], NEW l \in DOMAIN s[j], s[i][k] = s[j][l]
               PROVE  i = j /\ k = l
    OBVIOUS
  <2>1. i = j
    BY <1>3
  <2>2. s[i] = WordsIn(P, i) /\ i \in DOMAIN P
    BY <1>1, <1>3
  <2> QED BY <2>1, <2>2, WordsOfPart
<1>0. s \in Seq(Seq(WordsOfParts))
  BY <1>1
<1>5. /\ \A a \in DOMAIN Flat(P, S) : \E i \in DOMAIN s : \E k \in DOMAIN s[i] : Flat(P, S)[a] = s[i][k]
      /\ \A a, b \in DOMAIN Flat(P, S) : Flat(P, S)[a] = Flat(P, S)[b] => a = b
  <2>1. /\ \A a \in DOMAIN FlattenSeq(s) : \E i \in DOMAIN s : \E k \in DOMAIN s[i] : FlattenSeq(s)[a] = s[i][k]
        /\ \A a, b \in DOMAIN FlattenSeq(s) : FlattenSeq(s)[a] = FlattenSeq(s)[b] => a = b
    BY <1>0, <1>4, FlattenDistinct, Zenon
  <2> QED BY <1>2, <2>1
<1>6. Flat(P, S) \in Seq(WordsOfParts)
  BY <1>1, <1>2, FlattenTyped
<1> QED BY <1>1, <1>3, <1>5, <1>6

LEMMA FlatOfNone == ASSUME NEW P \in Seq(AgentParts) PROVE Flat(P, {}) = <<>>
<1>1. Flat(P, {}) \in Seq(WordsOfParts) /\ DOMAIN Flat(P, {}) = {}
  BY FlatOfParts
<1> QED BY <1>1, LenProperties, EmptySeq

LEMMA FlatGrows ==
    ASSUME NEW P \in Seq(AgentParts), NEW S, NEW p \in DOMAIN P, p \notin S, \A q \in S : q < p
    PROVE  Flat(P, S \cup {p}) = Flat(P, S) \o WordsIn(P, p)
<1> DEFINE s == Pieces(P, S)
           t == Pieces(P, S \cup {p})
<1>1. /\ s \in Seq(Seq(WordsOfParts)) /\ Len(s) = Len(P)
      /\ t \in Seq(Seq(WordsOfParts)) /\ Len(t) = Len(P)
      /\ DOMAIN P = 1 .. Len(P) /\ Len(P) \in Nat
      /\ \A q \in 1 .. Len(P) : s[q] = IF q \in S THEN WordsIn(P, q) ELSE <<>>
      /\ \A q \in 1 .. Len(P) : t[q] = IF q \in S \cup {p} THEN WordsIn(P, q) ELSE <<>>
  BY PiecesTyped
<1>2. Flat(P, S) = FlattenSeq(s) /\ Flat(P, S \cup {p}) = FlattenSeq(t)
  BY DEF Flat, Pieces
<1> HIDE DEF s, t
<1>3. p \in 1 .. Len(t) /\ t[p] = WordsIn(P, p) /\ Len(s) = Len(t) /\ s \in Seq(Seq(WordsOfParts)) /\ t \in Seq(Seq(WordsOfParts))
  BY <1>1
<1>4. \A i \in 1 .. Len(t) : i >= p => s[i] = <<>>
  BY <1>1
<1>5. \A i \in 1 .. Len(t) : i # p => t[i] = s[i]
  BY <1>1
<1>6. FlattenSeq(t) = FlattenSeq(s) \o t[p]
  BY <1>3, <1>4, <1>5, FlattenAdds, Zenon
<1> QED BY <1>2, <1>3, <1>6, Zenon

(* New parts and ends of tools leave the words of the others. *)
LEMMA FlatKept ==
    ASSUME NEW P \in Seq(AgentParts), NEW Q \in Seq(AgentParts), Len(P) <= Len(Q),
           \A p \in DOMAIN P : P[p].kind = Q[p].kind, NEW S, S \subseteq DOMAIN P
    PROVE  Flat(Q, S) = Flat(P, S)
<1> DEFINE s == Pieces(P, S)
           t == Pieces(Q, S)
<1>1. /\ s \in Seq(Seq(WordsOfParts)) /\ Len(s) = Len(P)
      /\ t \in Seq(Seq(WordsOfParts)) /\ Len(t) = Len(Q)
      /\ DOMAIN P = 1 .. Len(P) /\ Len(P) \in Nat /\ Len(Q) \in Nat
      /\ \A q \in 1 .. Len(P) : s[q] = IF q \in S THEN WordsIn(P, q) ELSE <<>>
      /\ \A q \in 1 .. Len(Q) : t[q] = IF q \in S THEN WordsIn(Q, q) ELSE <<>>
  BY PiecesTyped
<1>2. Flat(P, S) = FlattenSeq(s) /\ Flat(Q, S) = FlattenSeq(t)
  BY DEF Flat, Pieces
<1> HIDE DEF s, t
<1>3. \A q \in DOMAIN P : WordsIn(Q, q) = WordsIn(P, q)
  BY DEF WordsIn
<1>4. \A i \in 1 .. Len(t) : t[i] = IF i <= Len(s) THEN s[i] ELSE <<>>
  BY <1>1, <1>3
<1>5. Len(s) <= Len(t) /\ s \in Seq(Seq(WordsOfParts)) /\ t \in Seq(Seq(WordsOfParts))
  BY <1>1
<1>6. FlattenSeq(s) = FlattenSeq(t)
  BY <1>4, <1>5, FlattenSame, Zenon
<1> QED BY <1>2, <1>6

(* What extractFinalOpenCodeText finds is the last run. *)
LEMMA FinalIsLastRun ==
    ASSUME StreamTyped, AgentInv
    PROVE  FinalText = Flat(opencode.parts, LastRun(opencode.parts, opencode.turn))
<1> DEFINE P == opencode.parts
           t == opencode.turn
           isText(p) == P[p].kind \in TextKinds /\ P[p].turn = t
           ends == {p \in DOMAIN P : isText(p) /\ \A q \in DOMAIN P : isText(q) => q <= p}
           run == {p \in DOMAIN P : \E e \in ends : \A q \in p .. e : p <= e /\ isText(q)}
           Fin == [p \in DOMAIN P |-> IF p \in run THEN Words(p) ELSE <<>>]
<1>1. P \in Seq(AgentParts) /\ t \in Nat /\ DOMAIN P = 1 .. Len(P) /\ Len(P) \in Nat
  BY LenProperties DEF StreamTyped
<1>2. FinalText = FlattenSeq(Fin)
  BY DEF FinalText
<1>3. ASSUME NEW p \in DOMAIN P
      PROVE  (IF p \in run THEN Words(p) ELSE <<>>) = (IF p \in LastRun(P, t) THEN WordsIn(P, p) ELSE <<>>)
  <2>1. Words(p) = WordsIn(P, p)
    BY DEF Words, WordsIn
  <2>2. CASE p \in LastRun(P, t)
    <3>1. PICK e \in DOMAIN P : RunUpTo(P, t, p, e)
      BY <2>2 DEF LastRun
    <3>2. p <= e /\ e \in p .. e /\ \A q \in p .. e : isText(q) /\ q \in DOMAIN P
      BY <1>1, <3>1 DEF RunUpTo, TextOf
    <3>3. e \in ends
      BY <3>1, <3>2 DEF RunUpTo, TextOf
    <3> HIDE DEF ends, isText
    <3>4. p \in run
      BY <3>2, <3>3
    <3> QED BY <2>1, <2>2, <3>4
  <2>3. CASE p \notin LastRun(P, t) /\ isText(p)
    <3>1. SUFFICES ASSUME p \in run PROVE FALSE
      BY <2>3
    <3>2. PICK e \in ends : \A q \in p .. e : p <= e /\ isText(q)
      BY <3>1
    <3>3. p <= e /\ e \in DOMAIN P
      BY <2>3, <1>1, <3>2
    <3>4. \A q \in p .. e : q \in DOMAIN P
      BY <1>1, <3>3
    <3>5. RunUpTo(P, t, p, e)
      BY <3>2, <3>3, <3>4 DEF RunUpTo, TextOf
    <3> QED BY <2>3, <3>3, <3>5 DEF LastRun
  <2>4. CASE ~isText(p)
    <3>1. p \notin LastRun(P, t)
      <4>1. SUFFICES ASSUME NEW e \in DOMAIN P, RunUpTo(P, t, p, e) PROVE FALSE
        BY DEF LastRun
      <4> QED BY <1>1, <2>4, <4>1 DEF RunUpTo, TextOf
    <3>2. CASE P[p].kind \notin TextKinds
      <4>1. WordsIn(P, p) = <<>>
        BY <1>1, <3>2, WordsOfPart
      <4> QED BY <2>1, <3>1, <4>1
    <3>3. CASE P[p].turn # t
      <4>1. SUFFICES ASSUME p \in run PROVE FALSE
        BY <3>1
      <4>2. PICK e \in ends : \A q \in p .. e : p <= e /\ isText(q)
        BY <4>1
      <4>3. ~(p <= e)
        BY <1>1, <2>4, <4>2
      <4>4. P[e].turn = t /\ e \in DOMAIN P /\ e < p
        BY <1>1, <4>2, <4>3
      <4>5. P[e].turn <= P[p].turn /\ P[p].turn <= t
        BY <4>4 DEF AgentInv
      <4>x. P[p] \in AgentParts
        BY <1>1, ElementOfSeq
      <4>6. P[p].turn \in Nat
        BY <4>x DEF AgentParts
      <4> QED BY <1>1, <3>3, <4>4, <4>5, <4>6
    <3> QED BY <2>4, <3>2, <3>3
  <2> QED BY <2>2, <2>3, <2>4
<1>4. Fin = [p \in DOMAIN P |-> IF p \in LastRun(P, t) THEN WordsIn(P, p) ELSE <<>>]
  <2> HIDE DEF run
  <2> QED BY <1>3
<1> QED BY <1>2, <1>4 DEF Flat

(* splitTelegramText: the pieces are of the text, in different places. *)
LEMMA ChunksOfText ==
    ASSUME NEW S, NEW text \in Seq(S), text # <<>>
    PROVE  /\ Chunks(text) \in Seq(Seq(S)) /\ Len(Chunks(text)) \in Nat \ {0}
           /\ DOMAIN Chunks(text) = 1 .. Len(Chunks(text))
           /\ Last(Chunks(text)) \in Seq(S) /\ Chunks(text)[1] \in Seq(S)
           /\ Last(Chunks(text)) = Chunks(text)[Len(Chunks(text))]
           /\ \A i \in DOMAIN Chunks(text) : \A k \in DOMAIN Chunks(text)[i] :
                 \E a \in DOMAIN text : Chunks(text)[i][k] = text[a]
           /\ (\A a, b \in DOMAIN text : text[a] = text[b] => a = b) =>
                 \A i, j \in DOMAIN Chunks(text) :
                    \A k \in DOMAIN Chunks(text)[i], l \in DOMAIN Chunks(text)[j] :
                       Chunks(text)[i][k] = Chunks(text)[j][l] => i = j
<1> DEFINE c == Chunks(text)
           n == Len(text)
           m == (n + 1) \div 2
           from(i) == 2 * i - 1
           to(i) == IF 2 * i < n THEN 2 * i ELSE n
<1>1. n \in Nat \ {0} /\ DOMAIN text = 1 .. n /\ text \in [1 .. n -> S]
  BY LenProperties, EmptySeq
<1>2. CASE n <= 2
  <2>1. c = <<text>>
    BY <1>2 DEF Chunks
  <2>2. c \in Seq(Seq(S)) /\ Len(c) = 1 /\ DOMAIN c = {1} /\ c[1] = text
    BY <2>1
  <2>3. Last(c) = c[1]
    BY <2>2 DEF Last
  <2>4. DOMAIN c = 1 .. 1
    BY <2>2
  <2> HIDE DEF c
  <2>5. \A i \in DOMAIN c : c[i] = text
    BY <2>2
  <2>6. \A i, j \in DOMAIN c : i = j
    BY <2>2
  <2>7. \A i \in DOMAIN c : \A k \in DOMAIN c[i] : \E a \in DOMAIN text : c[i][k] = text[a]
    BY <2>5
  <2> QED BY <2>2, <2>3, <2>4, <2>6, <2>7 DEF c
<1>3. CASE ~(n <= 2)
  <2>1. m \in Nat \ {0} /\ 2 * m <= n + 1 /\ n <= 2 * m
    BY <1>1
  <2>2. c = [i \in 1 .. m |-> SubSeq(text, from(i), to(i))]
    BY <1>3 DEF Chunks
  <2> HIDE DEF m, c
  <2>3. \A i \in 1 .. m : from(i) \in 1 .. n /\ to(i) \in 1 .. n /\ from(i) <= to(i) /\ to(i) < from(i) + 2
    BY <1>1, <2>1
  <2>4. \A i, j \in 1 .. m : i < j => to(i) < from(j)
    BY <1>1, <2>1
  <2> HIDE DEF from, to
  <2>5. \A i \in 1 .. m :
           /\ c[i] = SubSeq(text, from(i), to(i)) /\ c[i] \in Seq(S)
           /\ DOMAIN c[i] = 1 .. to(i) - from(i) + 1
           /\ \A k \in DOMAIN c[i] : c[i][k] = text[from(i) + k - 1]
    <3> SUFFICES ASSUME NEW i \in 1 .. m
                 PROVE  /\ c[i] = SubSeq(text, from(i), to(i)) /\ c[i] \in Seq(S)
                        /\ DOMAIN c[i] = 1 .. to(i) - from(i) + 1
                        /\ \A k \in DOMAIN c[i] : c[i][k] = text[from(i) + k - 1]
      OBVIOUS
    <3>1. c[i] = SubSeq(text, from(i), to(i))
      BY <2>2
    <3>2. \A k \in from(i) .. to(i) : text[k] \in S
      BY <1>1, <2>3
    <3>3. from(i) \in Int /\ to(i) \in Int /\ from(i) <= to(i)
      BY <2>3
    <3>4. /\ c[i] \in Seq(S) /\ Len(c[i]) = to(i) - from(i) + 1
          /\ \A k \in 1 .. to(i) - from(i) + 1 : c[i][k] = text[from(i) + k - 1]
      BY <3>1, <3>2, <3>3, SubSeqProperties
    <3>5. DOMAIN c[i] = 1 .. Len(c[i])
      BY <3>4, LenProperties
    <3> QED BY <3>1, <3>4, <3>5
  <2>6. c \in Seq(Seq(S)) /\ Len(c) = m /\ DOMAIN c = 1 .. m
    <3>1. c \in [1 .. m -> Seq(S)]
      BY <2>2, <2>5
    <3> QED BY <2>1, <3>1
  <2>7. Last(c) = c[m]
    BY <2>6 DEF Last
  <2>8. ASSUME NEW i \in DOMAIN c, NEW k \in DOMAIN c[i]
        PROVE  from(i) + k - 1 \in 1 .. n /\ from(i) + k - 1 >= from(i) /\ from(i) + k - 1 <= to(i) /\ c[i][k] = text[from(i) + k - 1]
    <3>1. k \in 1 .. to(i) - from(i) + 1 /\ c[i][k] = text[from(i) + k - 1] /\ i \in 1 .. m
      BY <2>5, <2>6
    <3> QED BY <1>1, <2>3, <3>1
  <2>9. ASSUME \A a, b \in DOMAIN text : text[a] = text[b] => a = b,
               NEW i \in DOMAIN c, NEW j \in DOMAIN c, NEW k \in DOMAIN c[i], NEW l \in DOMAIN c[j], c[i][k] = c[j][l]
        PROVE  i = j
    <3>1. from(i) + k - 1 = from(j) + l - 1
      BY <1>1, <2>8, <2>9
    <3>2. i \in 1 .. m /\ j \in 1 .. m
      BY <2>6
    <3>3. ~(to(i) < from(j)) /\ ~(to(j) < from(i))
      <4>1. /\ from(i) + k - 1 >= from(i) /\ from(i) + k - 1 <= to(i)
            /\ from(j) + l - 1 >= from(j) /\ from(j) + l - 1 <= to(j)
        BY <2>8
      <4>2. from(i) \in Int /\ to(i) \in Int /\ from(j) \in Int /\ to(j) \in Int
        BY <2>3, <3>2
      <4> DEFINE x == from(i) + k - 1
      <4>3. x \in Int
        BY <1>1, <2>8
      <4>4. x >= from(i) /\ x <= to(i) /\ x >= from(j) /\ x <= to(j)
        BY <3>1, <4>1
      <4> HIDE DEF x
      <4> QED BY <4>2, <4>3, <4>4
    <3> QED BY <2>1, <2>4, <3>2, <3>3
  <2>10. \A i \in DOMAIN c : \A k \in DOMAIN c[i] : \E a \in DOMAIN text : c[i][k] = text[a]
    BY <1>1, <2>8
  <2>11. 1 \in 1 .. m /\ m \in 1 .. m
    BY <2>1
  <2> QED BY <2>1, <2>5, <2>6, <2>7, <2>9, <2>10, <2>11 DEF c
<1> QED BY <1>1, <1>2, <1>3

(* Where two states of the bridge agree. *)
SameTexts(b, d) ==
    /\ d.text = b.text /\ d.types = b.types /\ d.deltas = b.deltas
    /\ d.openParts = b.openParts /\ d.closedParts = b.closedParts /\ d.tools = b.tools
SameTalk(b, d) == d.reply = b.reply /\ d.comment = b.comment /\ d.recent = b.recent /\ d.chat = b.chat
SameMood(b, d) == d.open = b.open /\ d.thinking = b.thinking /\ d.typing = b.typing

LEMMA ThinkingIs ==
    ASSUME NEW b \in BridgeStates, NEW on \in BOOLEAN
    PROVE  LET d == Thinking(b, on)
           IN /\ d \in BridgeStates /\ SameTexts(b, d) /\ SameTalk(b, d) /\ d.open = b.open
              /\ d.thinking = on /\ ((b.typing => b.thinking) => (d.typing => on))
<1>1. CASE b.thinking = on
  <2>1. Thinking(b, on) = b
    BY <1>1 DEF Thinking
  <2> QED BY <1>1, <2>1 DEF SameTexts, SameTalk
<1>2. CASE b.thinking # on
  <2>1. PICK d : d = Thinking(b, on)
    OBVIOUS
  <2>2. d = [b EXCEPT !.thinking = on, !.typing = on]
    BY <1>2, <2>1 DEF Thinking
  <2>3. d \in BridgeStates
    BY <2>2 DEF BridgeStates
  <2>4. SameTexts(b, d) /\ SameTalk(b, d) /\ d.open = b.open
    BY <2>2 DEF BridgeStates, SameTexts, SameTalk
  <2>5. d.thinking = on /\ d.typing = on
    BY <2>2 DEF BridgeStates
  <2> QED BY <2>1, <2>3, <2>4, <2>5, Zenon
<1> QED BY <1>1, <1>2

LEMMA PutIs ==
    ASSUME NEW b \in BridgeStates, NEW k, NEW text \in Seq(WordsOfParts),
           k \in [kind : {"plain", "commentary", "reply", "bash", "todo", "ask", "file"}, n : Nat]
    PROVE  LET d == Put(b, k, text)
           IN /\ d \in BridgeStates /\ SameTexts(b, d) /\ SameMood(b, d)
              /\ d.reply = b.reply /\ d.comment = b.comment /\ d.recent = b.recent
              /\ d.chat = {c \in b.chat : c.key # k} \cup {[key |-> k, text |-> text]}
              /\ d.links = b.links
<1>1. PICK d : d = Put(b, k, text)
  OBVIOUS
<1>2. PICK chat : chat = {c \in b.chat : c.key # k} \cup {[key |-> k, text |-> text]}
  OBVIOUS
<1>3. d = [b EXCEPT !.chat = chat]
  BY <1>1, <1>2 DEF Put
<1>4. chat \in SUBSET Bubbles
  <2>1. [key |-> k, text |-> text] \in Bubbles
    BY DEF Bubbles
  <2>2. b.chat \subseteq Bubbles
    BY DEF BridgeStates
  <2> QED BY <1>2, <2>1, <2>2
<1>5. d \in BridgeStates
  BY <1>3, <1>4 DEF BridgeStates
<1>6. SameTexts(b, d) /\ SameMood(b, d) /\ d.reply = b.reply /\ d.comment = b.comment /\ d.recent = b.recent /\ d.links = b.links
  BY <1>3 DEF BridgeStates, SameTexts, SameMood
<1>7. d.chat = chat
  BY <1>3 DEF BridgeStates
<1> QED BY <1>1, <1>2, <1>5, <1>6, <1>7, Zenon

(* The buffered text, as its segment's commentary. *)
LEMMA CommentedIs ==
    ASSUME NEW b \in BridgeStates, NEW text \in Seq(WordsOfParts), text # <<>>
    PROVE  LET d == Commented(b, text)
           IN /\ d \in BridgeStates /\ SameTexts(b, d) /\ SameMood(b, d)
              /\ d.recent.n # 0 /\ d.recent.text = text
              /\ d.chat = {c \in b.chat : c.key # Key("commentary", d.recent.n)}
                             \cup {[key |-> Key("commentary", d.recent.n), text |-> Last(Chunks(text))]}
<1>1. PICK n : n = IF b.comment # 0 THEN b.comment ELSE b.comments + 1
  OBVIOUS
<1>2. n \in Nat \ {0}
  BY <1>1 DEF BridgeStates
<1>3. PICK m : m = IF b.comment # 0 THEN b.comments ELSE n
  OBVIOUS
<1>4. m \in Nat
  BY <1>2, <1>3 DEF BridgeStates
<1>5. PICK r : r = [text |-> text, n |-> n]
  OBVIOUS
<1>6. r \in [text : Seq(WordsOfParts), n : Nat] /\ r.n = n /\ r.text = text
  BY <1>2, <1>5
<1>7. PICK f : f = [b EXCEPT !.comment = n, !.comments = m, !.recent = r]
  OBVIOUS
<1>8. f \in BridgeStates
  BY <1>2, <1>4, <1>6, <1>7 DEF BridgeStates
<1>9. SameTexts(b, f) /\ SameMood(b, f) /\ f.recent = r /\ f.chat = b.chat
  BY <1>7 DEF BridgeStates, SameTexts, SameMood
<1>10. Commented(b, text) = Put(f, Key("commentary", n), Last(Chunks(text)))
  BY <1>1, <1>3, <1>5, <1>7 DEF Commented, BridgeStates
<1>11. Key("commentary", n) \in [kind : {"plain", "commentary", "reply", "bash", "todo", "ask", "file"}, n : Nat]
  BY <1>2 DEF Key
<1>12. Last(Chunks(text)) \in Seq(WordsOfParts)
  BY ChunksOfText
<1>13. PICK d : d = Put(f, Key("commentary", n), Last(Chunks(text)))
  OBVIOUS
<1>14. /\ d \in BridgeStates /\ SameTexts(f, d) /\ SameMood(f, d) /\ d.recent = f.recent
       /\ d.chat = {c \in f.chat : c.key # Key("commentary", n)}
                      \cup {[key |-> Key("commentary", n), text |-> Last(Chunks(text))]}
  BY <1>8, <1>11, <1>12, <1>13, PutIs
<1>15. SameTexts(b, d) /\ SameMood(b, d)
  BY <1>9, <1>14 DEF SameTexts, SameMood
<1>16. d.recent.n = n /\ d.recent.text = text /\ n # 0
  BY <1>2, <1>6, <1>9, <1>14
<1>17. d.chat = {c \in b.chat : c.key # Key("commentary", d.recent.n)}
                      \cup {[key |-> Key("commentary", d.recent.n), text |-> Last(Chunks(text))]}
  BY <1>9, <1>14, <1>16, Zenon
<1>18. d = Commented(b, text)
  BY <1>10, <1>13
<1> QED BY <1>14, <1>15, <1>16, <1>17, <1>18, Zenon

CardTexts == {<<>>, <<EndMark>>}

(* A segment ends: its parts are closed, its text is commentary. *)
ClosesUp(b, d) ==
    /\ d.closedParts = b.closedParts \cup b.openParts /\ d.openParts = {} /\ d.text = <<>>
    /\ d.reply = 0 /\ d.comment = 0
    /\ b.text = <<>> => d.deltas = b.deltas /\ d.recent = b.recent
    /\ b.text # <<>> => d.deltas = {} /\ d.recent.n # 0 /\ d.recent.text = b.text
    /\ \A c \in d.chat :
          \/ c \in b.chat \/ c.text \in CardTexts
          \/ b.text # <<>> /\ c = [key |-> Key("commentary", d.recent.n), text |-> Last(Chunks(b.text))]

LEMMA SegmentIs ==
    ASSUME NEW b \in BridgeStates
    PROVE  LET d == SegmentClosed(b)
           IN d \in BridgeStates /\ ClosesUp(b, d) /\ SameMood(b, d) /\ d.types = b.types /\ d.tools = b.tools
<1>1. PICK f : f = IF b.text = <<>> THEN b ELSE Commented(b, b.text)
  OBVIOUS
<1>2. /\ f \in BridgeStates /\ SameTexts(b, f) /\ SameMood(b, f)
      /\ b.text = <<>> => f.recent = b.recent /\ f.chat = b.chat
      /\ b.text # <<>> => /\ f.recent.n # 0 /\ f.recent.text = b.text
                          /\ \A c \in f.chat : c \in b.chat
                                \/ c = [key |-> Key("commentary", f.recent.n), text |-> Last(Chunks(b.text))]
  <2>1. CASE b.text = <<>>
    <3>1. f = b
      BY <1>1, <2>1
    <3> QED BY <2>1, <3>1 DEF SameTexts, SameMood
  <2>2. CASE b.text # <<>>
    <3>1. f = Commented(b, b.text) /\ b.text \in Seq(WordsOfParts)
      BY <1>1, <2>2 DEF BridgeStates
    <3>2. /\ f \in BridgeStates /\ SameTexts(b, f) /\ SameMood(b, f)
          /\ f.recent.n # 0 /\ f.recent.text = b.text
          /\ f.chat = {c \in b.chat : c.key # Key("commentary", f.recent.n)}
                         \cup {[key |-> Key("commentary", f.recent.n), text |-> Last(Chunks(b.text))]}
      BY <2>2, <3>1, CommentedIs
    <3> QED BY <2>2, <3>2
  <2> QED BY <2>1, <2>2
<1>3. PICK op : op = f.closedParts \cup f.openParts
  OBVIOUS
<1>4. PICK e : e = [f EXCEPT !.closedParts = op, !.openParts = {}, !.reply = 0, !.comment = 0]
  OBVIOUS
<1>5. PICK d : d = IF b.text = <<>> THEN e ELSE [e EXCEPT !.text = <<>>, !.deltas = {}]
  OBVIOUS
<1>6. op \in SUBSET Nat
  BY <1>2, <1>3 DEF BridgeStates
<1>7. e \in BridgeStates
  BY <1>2, <1>4, <1>6 DEF BridgeStates
<1>8. /\ e.closedParts = op /\ e.openParts = {} /\ e.reply = 0 /\ e.comment = 0
      /\ e.recent = f.recent /\ e.chat = f.chat /\ SameMood(f, e) /\ e.types = f.types /\ e.tools = f.tools
      /\ e.text = f.text /\ e.deltas = f.deltas
  BY <1>2, <1>4 DEF BridgeStates, SameMood
<1>9. <<>> \in Seq(WordsOfParts)
  OBVIOUS
<1>10. /\ d \in BridgeStates
       /\ d.closedParts = e.closedParts /\ d.openParts = e.openParts /\ d.reply = e.reply /\ d.comment = e.comment
       /\ d.recent = e.recent /\ d.chat = e.chat /\ SameMood(e, d) /\ d.types = e.types /\ d.tools = e.tools
       /\ b.text = <<>> => d.text = e.text /\ d.deltas = e.deltas
       /\ b.text # <<>> => d.text = <<>> /\ d.deltas = {}
  <2>1. CASE b.text = <<>>
    <3>1. d = e
      BY <1>5, <2>1
    <3> QED BY <1>7, <2>1, <3>1 DEF SameMood
  <2>2. CASE b.text # <<>>
    <3>1. d = [e EXCEPT !.text = <<>>, !.deltas = {}]
      BY <1>5, <2>2
    <3>2. d \in BridgeStates
      BY <1>7, <1>9, <3>1 DEF BridgeStates
    <3> QED BY <1>7, <2>2, <3>1, <3>2 DEF BridgeStates, SameMood
  <2> QED BY <2>1, <2>2
<1>11. d = SegmentClosed(b)
  <2>1. [PartsClosed(f) EXCEPT !.reply = 0, !.comment = 0] = e
    BY <1>2, <1>3, <1>4 DEF PartsClosed, BridgeStates
  <2> QED BY <1>1, <1>5, <2>1 DEF SegmentClosed
<1>12. SameMood(b, d) /\ d.types = b.types /\ d.tools = b.tools
  BY <1>2, <1>8, <1>10 DEF SameMood, SameTexts
<1>13. ClosesUp(b, d)
  BY <1>2, <1>3, <1>8, <1>10 DEF ClosesUp, SameTexts
<1> QED BY <1>10, <1>11, <1>12, <1>13, Zenon

(* A tool's card says nothing of the agent's words. *)
LEMMA CardIs ==
    ASSUME NEW b \in BridgeStates, NEW p \in Nat, NEW ended
    PROVE  LET d == Card(b, p, ended)
           IN /\ d \in BridgeStates /\ SameTexts(b, d) /\ SameMood(b, d)
              /\ d.reply = b.reply /\ d.comment = b.comment /\ d.recent = b.recent
              /\ \A c \in d.chat : c \in b.chat \/ c.text \in CardTexts
<1> DEFINE kind == opencode.parts[p].kind
           Result(d) == /\ d \in BridgeStates /\ SameTexts(b, d) /\ SameMood(b, d)
                        /\ d.reply = b.reply /\ d.comment = b.comment /\ d.recent = b.recent
                        /\ \A c \in d.chat : c \in b.chat \/ c.text \in CardTexts
<1>1. <<>> \in Seq(WordsOfParts) /\ <<EndMark>> \in Seq(WordsOfParts)
  BY DEF WordsOfParts, EndMark
<1>2. ASSUME NEW f \in BridgeStates, SameTexts(b, f), SameMood(b, f),
             f.reply = b.reply, f.comment = b.comment, f.recent = b.recent, f.chat = b.chat,
             NEW k \in {"bash", "todo"}, NEW text \in CardTexts
      PROVE  Result(Put(f, Key(k, p), text))
  <2>1. Key(k, p) \in [kind : {"plain", "commentary", "reply", "bash", "todo", "ask", "file"}, n : Nat]
    BY DEF Key
  <2>2. text \in Seq(WordsOfParts)
    BY <1>1 DEF CardTexts
  <2>3. PICK d : d = Put(f, Key(k, p), text)
    OBVIOUS
  <2>4. /\ d \in BridgeStates /\ SameTexts(f, d) /\ SameMood(f, d)
        /\ d.reply = f.reply /\ d.comment = f.comment /\ d.recent = f.recent
        /\ d.chat = {c \in f.chat : c.key # Key(k, p)} \cup {[key |-> Key(k, p), text |-> text]}
    BY <1>2, <2>1, <2>2, <2>3, PutIs
  <2>5. SameTexts(b, d) /\ SameMood(b, d)
    BY <1>2, <2>4 DEF SameTexts, SameMood
  <2>6. \A c \in d.chat : c \in b.chat \/ c.text \in CardTexts
    BY <1>2, <2>4
  <2> QED BY <1>2, <2>3, <2>4, <2>5, <2>6, Zenon
<1>3. Result(b)
  BY DEF SameTexts, SameMood
<1>4. CASE kind = "bash"
  <2>1. Card(b, p, ended) = Put(b, Key("bash", p), IF ended THEN <<EndMark>> ELSE <<>>)
    BY <1>4 DEF Card
  <2>2. (IF ended THEN <<EndMark>> ELSE <<>>) \in CardTexts
    BY DEF CardTexts
  <2>3. SameTexts(b, b) /\ SameMood(b, b)
    BY DEF SameTexts, SameMood
  <2> QED BY <1>2, <2>1, <2>2, <2>3
<1>5. CASE kind = "todo" /\ ended /\ p \notin b.todo
  <2>1. PICK t : t = b.todo \cup {p}
    OBVIOUS
  <2>2. PICK f : f = [b EXCEPT !.todo = t]
    OBVIOUS
  <2>3. t \in SUBSET Nat
    BY <2>1 DEF BridgeStates
  <2>4. /\ f \in BridgeStates /\ SameTexts(b, f) /\ SameMood(b, f)
        /\ f.reply = b.reply /\ f.comment = b.comment /\ f.recent = b.recent /\ f.chat = b.chat
    BY <2>2, <2>3 DEF BridgeStates, SameTexts, SameMood
  <2>5. Card(b, p, ended) = Put(f, Key("todo", p), <<>>)
    BY <1>5, <2>1, <2>2 DEF Card
  <2>6. <<>> \in CardTexts
    BY DEF CardTexts
  <2> QED BY <1>2, <2>4, <2>5, <2>6
<1>6. CASE kind = "file" /\ ended
  <2>1. PICK t : t = b.links \cup {p}
    OBVIOUS
  <2>2. PICK f : f = [b EXCEPT !.links = t]
    OBVIOUS
  <2>3. t \in SUBSET Nat
    BY <2>1 DEF BridgeStates
  <2>4. /\ f \in BridgeStates /\ SameTexts(b, f) /\ SameMood(b, f)
        /\ f.reply = b.reply /\ f.comment = b.comment /\ f.recent = b.recent /\ f.chat = b.chat
    BY <2>2, <2>3 DEF BridgeStates, SameTexts, SameMood
  <2>5. Card(b, p, ended) = f
    BY <1>6, <2>1, <2>2 DEF Card
  <2> QED BY <2>4, <2>5
<1>7. CASE ~(kind = "bash") /\ ~(kind = "todo" /\ ended /\ p \notin b.todo) /\ ~(kind = "file" /\ ended)
  <2>1. Card(b, p, ended) = b
    BY <1>7, Zenon DEF Card
  <2> QED BY <1>3, <2>1
<1> QED BY <1>4, <1>5, <1>6, <1>7

(* The memory behind a snapshot that is heard. *)
LEMMA PartIs ==
    ASSUME NEW b \in BridgeStates, NEW p \in DOMAIN opencode.parts, NEW ended \in BOOLEAN, TextHeard(b, p, ended),
           opencode.parts \in Seq(AgentParts)
    PROVE  LET d == PartUpdated(b, p, ended)
           IN /\ d \in BridgeStates /\ d.open = b.open /\ ((b.typing => b.thinking) => (d.typing => d.thinking))
              /\ d.types = b.types \cup {p} /\ d.tools = IF ended THEN b.tools \cup {p} ELSE b.tools
              /\ IsText(p) => /\ d.openParts = b.openParts \cup {p} /\ d.closedParts = b.closedParts
                              /\ d.deltas = b.deltas /\ d.text = b.text /\ SameTalk(b, d)
              /\ ~IsText(p) => ClosesUp(b, d)
<1> DEFINE kind == opencode.parts[p].kind
<1>1. p \in Nat /\ kind \in AllKinds
  <2>1. p \in 1 .. Len(opencode.parts) /\ p \in Nat
    BY LenProperties
  <2>2. opencode.parts[p] \in AgentParts
    BY <2>1, ElementOfSeq
  <2> QED BY <2>1, <2>2 DEF AgentParts
<1>2. PICK types : types = b.types \cup {p}
  OBVIOUS
<1>3. PICK tools : tools = IF ended THEN b.tools \cup {p} ELSE b.tools
  OBVIOUS
<1>4. PICK op : op = IF kind \in TextKinds THEN b.openParts \cup {p} ELSE b.openParts
  OBVIOUS
<1>5. PICK k : k = [b EXCEPT !.types = types, !.tools = tools, !.openParts = op]
  OBVIOUS
<1>6. types \in SUBSET Nat /\ tools \in SUBSET Nat /\ op \in SUBSET Nat
  BY <1>1, <1>2, <1>3, <1>4 DEF BridgeStates
<1>7. k \in BridgeStates
  BY <1>5, <1>6 DEF BridgeStates
<1>8. /\ k.types = types /\ k.tools = tools /\ k.openParts = op /\ k.closedParts = b.closedParts
      /\ k.deltas = b.deltas /\ k.text = b.text /\ SameTalk(b, k) /\ SameMood(b, k)
  BY <1>5 DEF BridgeStates, SameTalk, SameMood
<1>9. PICK calm : calm = CASE kind = "reasoning" -> Thinking(SegmentClosed(k), TRUE)
                           [] kind \in ToolKinds -> Thinking(SegmentClosed(k), FALSE)
                           [] kind = "step" -> SegmentClosed(k)
                           [] OTHER -> Thinking(k, FALSE)
  OBVIOUS
<1>10. PartUpdated(b, p, ended) = Card(calm, p, ended)
  BY <1>2, <1>3, <1>4, <1>5, <1>9, Zenon DEF PartUpdated
<1>11. PICK s : s = SegmentClosed(k)
  OBVIOUS
<1>12. s \in BridgeStates /\ ClosesUp(k, s) /\ SameMood(k, s) /\ s.types = types /\ s.tools = tools
  BY <1>7, <1>8, <1>11, SegmentIs
<1>13. PICK d : d = Card(calm, p, ended)
  OBVIOUS
<1>14. CASE IsText(p)
  <2>0. kind \in {"text", "long"}
    BY <1>14 DEF IsText, TextKinds
  <2>1. calm = Thinking(k, FALSE)
    BY <1>9, <2>0 DEF ToolKinds
  <2>2. /\ calm \in BridgeStates /\ SameTexts(k, calm) /\ SameTalk(k, calm) /\ calm.open = k.open
        /\ calm.thinking = FALSE /\ ((k.typing => k.thinking) => (calm.typing => FALSE))
    BY <1>7, <2>1, ThinkingIs
  <2>3. Card(calm, p, ended) = calm
    BY <2>0, Zenon DEF Card
  <2>4. op = b.openParts \cup {p}
    BY <1>4, <1>14 DEF IsText
  <2>5. /\ calm.open = b.open /\ calm.types = b.types \cup {p} /\ calm.tools = tools
        /\ calm.openParts = b.openParts \cup {p} /\ calm.closedParts = b.closedParts
        /\ calm.deltas = b.deltas /\ calm.text = b.text /\ SameTalk(b, calm)
    BY <1>2, <1>8, <2>2, <2>4 DEF SameTexts, SameTalk, SameMood
  <2>6. (b.typing => b.thinking) => (calm.typing => calm.thinking)
    BY <1>8, <2>2, Zenon DEF SameMood
  <2>7. PartUpdated(b, p, ended) = calm
    BY <1>10, <2>3
  <2> QED BY <1>3, <1>14, <2>2, <2>5, <2>6, <2>7, Zenon
<1>15. CASE ~IsText(p)
  <2>0. kind \in {"bash", "todo", "file", "reasoning", "step"}
    BY <1>1, <1>15 DEF IsText, TextKinds, AllKinds
  <2>1. \/ calm = Thinking(s, TRUE) \/ calm = Thinking(s, FALSE) \/ calm = s
    BY <1>9, <1>11, <2>0 DEF ToolKinds
  <2>2. /\ calm \in BridgeStates /\ SameTexts(s, calm) /\ SameTalk(s, calm) /\ calm.open = s.open
        /\ (s.typing => s.thinking) => (calm.typing => calm.thinking)
    <3>1. CASE calm = s
      BY <1>12, <3>1 DEF SameTexts, SameTalk
    <3>2. ASSUME NEW on \in BOOLEAN, calm = Thinking(s, on)
          PROVE  /\ calm \in BridgeStates /\ SameTexts(s, calm) /\ SameTalk(s, calm) /\ calm.open = s.open
                 /\ (s.typing => s.thinking) => (calm.typing => calm.thinking)
      <4>1. /\ calm \in BridgeStates /\ SameTexts(s, calm) /\ SameTalk(s, calm) /\ calm.open = s.open
            /\ calm.thinking = on /\ ((s.typing => s.thinking) => (calm.typing => on))
        BY <1>12, <3>2, ThinkingIs
      <4> QED BY <4>1, Zenon
    <3> QED BY <2>1, <3>1, <3>2
  <2>3. /\ d \in BridgeStates /\ SameTexts(calm, d) /\ SameMood(calm, d)
        /\ d.reply = calm.reply /\ d.comment = calm.comment /\ d.recent = calm.recent
        /\ \A c \in d.chat : c \in calm.chat \/ c.text \in CardTexts
    BY <1>1, <1>13, <2>2, CardIs
  <2>4. op = b.openParts
    BY <1>4, <1>15 DEF IsText
  <2>5. ClosesUp(b, s)
    BY <1>8, <1>12, <2>4 DEF ClosesUp, SameTalk
  <2>6. ClosesUp(b, d)
    <3>1. /\ d.closedParts = s.closedParts /\ d.openParts = s.openParts /\ d.text = s.text /\ d.deltas = s.deltas
          /\ d.reply = s.reply /\ d.comment = s.comment /\ d.recent = s.recent
          /\ \A c \in d.chat : c \in s.chat \/ c.text \in CardTexts
      BY <2>2, <2>3 DEF SameTexts, SameTalk
    <3> QED BY <2>5, <3>1 DEF ClosesUp
  <2>7. d.types = types /\ d.tools = tools /\ d.open = b.open
    BY <1>8, <1>12, <2>2, <2>3 DEF SameTexts, SameMood
  <2>8. (b.typing => b.thinking) => (d.typing => d.thinking)
    BY <1>8, <1>12, <2>2, <2>3, Zenon DEF SameMood
  <2> QED BY <1>2, <1>3, <1>10, <1>13, <1>15, <2>3, <2>6, <2>7, <2>8, Zenon
<1> QED BY <1>14, <1>15

(* The memory behind a question. *)
LEMMA AskedIs ==
    ASSUME NEW b \in BridgeStates, NEW p \in Nat, b.open
    PROVE  LET d == AskedFor(b, p)
           IN /\ d \in BridgeStates /\ d.open = b.open /\ ((b.typing => b.thinking) => (d.typing => d.thinking))
              /\ d.types = b.types /\ d.tools = b.tools /\ ClosesUp(b, d)
<1>1. PICK k : k = Thinking(b, FALSE)
  OBVIOUS
<1>2. /\ k \in BridgeStates /\ SameTexts(b, k) /\ SameTalk(b, k) /\ k.open = b.open
      /\ k.thinking = FALSE /\ ((b.typing => b.thinking) => (k.typing => FALSE))
  BY <1>1, ThinkingIs
<1>3. PICK s : s = SegmentClosed(k)
  OBVIOUS
<1>4. s \in BridgeStates /\ ClosesUp(k, s) /\ SameMood(k, s) /\ s.types = k.types /\ s.tools = k.tools
  BY <1>2, <1>3, SegmentIs
<1>5. Key("ask", p) \in [kind : {"plain", "commentary", "reply", "bash", "todo", "ask", "file"}, n : Nat]
  BY DEF Key
<1>6. <<>> \in Seq(WordsOfParts) /\ <<>> \in CardTexts
  BY DEF CardTexts
<1>7. PICK d : d = Put(s, Key("ask", p), <<>>)
  OBVIOUS
<1>8. /\ d \in BridgeStates /\ SameTexts(s, d) /\ SameMood(s, d)
      /\ d.reply = s.reply /\ d.comment = s.comment /\ d.recent = s.recent
      /\ d.chat = {c \in s.chat : c.key # Key("ask", p)} \cup {[key |-> Key("ask", p), text |-> <<>>]}
  <2>1. PICK t : t = <<>>
    OBVIOUS
  <2>2. t \in Seq(WordsOfParts)
    BY <2>1
  <2>3. d = Put(s, Key("ask", p), t)
    BY <1>7, <2>1
  <2>4. /\ d \in BridgeStates /\ SameTexts(s, d) /\ SameMood(s, d)
        /\ d.reply = s.reply /\ d.comment = s.comment /\ d.recent = s.recent
        /\ d.chat = {c \in s.chat : c.key # Key("ask", p)} \cup {[key |-> Key("ask", p), text |-> t]}
    BY <1>4, <1>5, <2>2, <2>3, PutIs
  <2> QED BY <2>1, <2>4
<1>9. d = AskedFor(b, p)
  BY <1>1, <1>3, <1>7 DEF AskedFor
<1>10. ClosesUp(b, d)
  <2>1. /\ d.closedParts = s.closedParts /\ d.openParts = s.openParts /\ d.text = s.text /\ d.deltas = s.deltas
        /\ d.reply = s.reply /\ d.comment = s.comment /\ d.recent = s.recent
    BY <1>8 DEF SameTexts
  <2>2. \A c \in d.chat : c \in s.chat \/ c.text \in CardTexts
    BY <1>6, <1>8
  <2>3. ClosesUp(b, s)
    BY <1>2, <1>4 DEF ClosesUp, SameTexts, SameTalk
  <2> QED BY <2>1, <2>2, <2>3 DEF ClosesUp
<1>11. d.open = b.open /\ d.types = b.types /\ d.tools = b.tools
  BY <1>2, <1>4, <1>8 DEF SameTexts, SameMood
<1>12. (b.typing => b.thinking) => (d.typing => d.thinking)
  BY <1>2, <1>4, <1>8, Zenon DEF SameMood
<1> QED BY <1>8, <1>9, <1>10, <1>11, <1>12, Zenon

(* The memory behind a delta. *)
LEMMA DeltaIs ==
    ASSUME NEW b \in BridgeStates, NEW p \in DOMAIN opencode.parts, opencode.parts \in Seq(AgentParts)
    PROVE  LET d == DeltaAdded(b, p)
           IN /\ d \in BridgeStates /\ SameMood(b, d) /\ SameTalk(b, d)
              /\ d.types = b.types /\ d.openParts = b.openParts /\ d.closedParts = b.closedParts /\ d.tools = b.tools
              /\ \/ d = b /\ (p \in b.closedParts \/ p \notin b.types \/ p \in b.deltas)
                 \/ /\ p \notin b.closedParts /\ p \in b.types /\ p \notin b.deltas
                    /\ d.deltas = b.deltas \cup {p} /\ d.text = b.text \o WordsIn(opencode.parts, p)
<1>1. CASE p \in b.closedParts \/ p \notin b.types \/ p \in b.deltas
  <2>1. DeltaAdded(b, p) = b
    BY <1>1 DEF DeltaAdded
  <2> QED BY <1>1, <2>1 DEF SameMood, SameTalk
<1>2. CASE ~(p \in b.closedParts \/ p \notin b.types \/ p \in b.deltas)
  <2>1. PICK w : w = WordsIn(opencode.parts, p)
    OBVIOUS
  <2>2. w \in Seq(WordsOfParts) /\ b.text \in Seq(WordsOfParts)
    BY <2>1, WordsOfPart DEF BridgeStates
  <2>3. PICK t : t = b.text \o w
    OBVIOUS
  <2>4. t \in Seq(WordsOfParts)
    BY <2>2, <2>3, ConcatProperties
  <2>5. PICK e : e = b.deltas \cup {p}
    OBVIOUS
  <2>6. p \in Nat
    BY LenProperties
  <2>7. e \in SUBSET Nat
    BY <2>5, <2>6 DEF BridgeStates
  <2>8. Words(p) = w
    BY <2>1 DEF Words, WordsIn
  <2>9. PICK d : d = [b EXCEPT !.deltas = e, !.text = t]
    OBVIOUS
  <2>10. d = DeltaAdded(b, p)
    BY <1>2, <2>3, <2>5, <2>8, <2>9 DEF DeltaAdded
  <2>11. d \in BridgeStates
    BY <2>4, <2>7, <2>9 DEF BridgeStates
  <2>12. /\ SameMood(b, d) /\ SameTalk(b, d)
         /\ d.types = b.types /\ d.openParts = b.openParts /\ d.closedParts = b.closedParts /\ d.tools = b.tools
         /\ d.deltas = e /\ d.text = t
    BY <2>9 DEF BridgeStates, SameMood, SameTalk
  <2> QED BY <1>2, <2>1, <2>3, <2>5, <2>10, <2>11, <2>12, Zenon
<1> QED BY <1>1, <1>2

(* The memory behind the end of a turn. *)
LEMMA ClosedIs ==
    ASSUME NEW b \in BridgeStates
    PROVE  LET d == TurnClosed(b)
           IN /\ d \in BridgeStates /\ d.open = FALSE /\ d.typing = b.typing /\ d.thinking = b.thinking
              /\ d.types = {} /\ d.text = <<>> /\ d.deltas = {} /\ d.openParts = {}
              /\ d.closedParts = b.closedParts \cup b.openParts /\ d.tools = b.tools
              /\ d.reply = 0 /\ d.comment = 0 /\ d.recent = b.recent /\ d.chat = b.chat
<1>1. PICK op : op = b.closedParts \cup b.openParts
  OBVIOUS
<1>2. op \in SUBSET Nat
  BY <1>1 DEF BridgeStates
<1>3. PICK f : f = [b EXCEPT !.closedParts = op, !.openParts = {}]
  OBVIOUS
<1>4. f = PartsClosed(b)
  BY <1>1, <1>3 DEF PartsClosed, BridgeStates
<1>5. f \in BridgeStates
  BY <1>2, <1>3 DEF BridgeStates
<1>6. /\ f.typing = b.typing /\ f.thinking = b.thinking /\ f.tools = b.tools
      /\ f.closedParts = op /\ f.openParts = {} /\ f.recent = b.recent /\ f.chat = b.chat
  BY <1>3 DEF BridgeStates
<1>7. PICK d : d = [f EXCEPT !.open = FALSE, !.reply = 0, !.comment = 0, !.text = <<>>,
                             !.meta = FALSE, !.types = {}, !.deltas = {}, !.todo = {}]
  OBVIOUS
<1>8. d = TurnClosed(b)
  BY <1>4, <1>7 DEF TurnClosed
<1>9. <<>> \in Seq(WordsOfParts)
  OBVIOUS
<1>10. d \in BridgeStates
  BY <1>5, <1>7, <1>9 DEF BridgeStates
<1>11. /\ d.open = FALSE /\ d.typing = f.typing /\ d.thinking = f.thinking
       /\ d.types = {} /\ d.text = <<>> /\ d.deltas = {} /\ d.openParts = f.openParts
       /\ d.closedParts = f.closedParts /\ d.tools = f.tools
       /\ d.reply = 0 /\ d.comment = 0 /\ d.recent = f.recent /\ d.chat = f.chat
  BY <1>5, <1>7 DEF BridgeStates
<1> QED BY <1>1, <1>6, <1>8, <1>10, <1>11, Zenon

NewOrSame(b, text, c) ==
    c \in b.chat => b.recent.n # 0 /\ b.recent.text = text /\ c.key = Key("commentary", b.recent.n)

(* A reply: its pieces are new bubbles, the commentary that said the same  *)
(* goes.                                                                   *)
LEMMA RepliedIs ==
    ASSUME NEW b \in BridgeStates, NEW text \in Seq(WordsOfParts), text # <<>>
    PROVE  LET d == TextReplied(b, text)
           IN /\ d \in BridgeStates /\ d.typing = FALSE /\ d.open = b.open /\ d.thinking = b.thinking /\ SameTexts(b, d)
              /\ \A c \in d.chat :
                    \/ c \in b.chat
                       /\ (b.recent.n # 0 /\ b.recent.text = text => c.key # Key("commentary", b.recent.n))
                    \/ \E i \in DOMAIN Chunks(text) : c.text = Chunks(text)[i]
              /\ \A c, e \in d.chat : \A i \in DOMAIN Chunks(text) :
                    c.text = Chunks(text)[i] /\ e.text = Chunks(text)[i] /\ NewOrSame(b, text, c) /\ NewOrSame(b, text, e)
                       => c = e \/ \E j \in DOMAIN Chunks(text) : i # j /\ Chunks(text)[j] = Chunks(text)[i]
<1> DEFINE same == b.recent.n # 0 /\ b.recent.text = text
           chunks == Chunks(text)
<1>1. PICK n : n = IF b.reply # 0 THEN b.reply ELSE b.replies + 1
  OBVIOUS
<1>2. PICK r : r = IF same \/ b.reply # 0 THEN b.replies ELSE n
  OBVIOUS
<1>3. n \in Nat /\ r \in Nat /\ b.recent.n \in Nat
  <2>1. n \in Nat /\ b.replies \in Nat /\ b.recent.n \in Nat
    BY <1>1 DEF BridgeStates
  <2> QED BY <1>2, <2>1
<1>4. PICK e : e = [text |-> <<>>, n |-> 0]
  OBVIOUS
<1>5. e \in [text : Seq(WordsOfParts), n : Nat]
  BY <1>4
<1>6. PICK f : f = [b EXCEPT !.typing = FALSE, !.reply = 0, !.comment = 0, !.replies = r, !.recent = e]
  OBVIOUS
<1>7. f \in BridgeStates
  BY <1>3, <1>5, <1>6 DEF BridgeStates
<1>8. f.typing = FALSE /\ f.open = b.open /\ f.thinking = b.thinking /\ SameTexts(b, f) /\ f.chat = b.chat
  BY <1>6 DEF BridgeStates, SameTexts
<1>9. PICK k : k = IF same THEN Key("commentary", b.recent.n) ELSE Key("reply", n)
  OBVIOUS
<1>10. k \in [kind : {"plain", "commentary", "reply", "bash", "todo", "ask", "file"}, n : Nat]
  BY <1>3, <1>9 DEF Key
<1>11. /\ chunks \in Seq(Seq(WordsOfParts)) /\ Len(chunks) \in Nat \ {0}
       /\ DOMAIN chunks = 1 .. Len(chunks) /\ chunks[1] \in Seq(WordsOfParts)
  BY ChunksOfText
<1>12. PICK g : g = Put(f, k, chunks[1])
  OBVIOUS
<1>13. /\ g \in BridgeStates /\ SameTexts(f, g) /\ SameMood(f, g)
       /\ g.chat = {c \in f.chat : c.key # k} \cup {[key |-> k, text |-> chunks[1]]}
  BY <1>7, <1>10, <1>11, <1>12, PutIs
<1>14. PICK more : more = {[key |-> Key("plain", 0), text |-> t] : t \in {chunks[i] : i \in 2 .. Len(chunks)}}
  OBVIOUS
<1>15. PICK chat : chat = g.chat \cup more
  OBVIOUS
<1>16. PICK d : d = [g EXCEPT !.chat = chat]
  OBVIOUS
<1>17. d = TextReplied(b, text)
  <2>1. f = [b EXCEPT !.typing = FALSE, !.reply = 0, !.comment = 0,
                      !.replies = IF same \/ b.reply # 0 THEN b.replies ELSE n,
                      !.recent = [text |-> <<>>, n |-> 0]]
    BY <1>2, <1>4, <1>6
  <2> QED BY <1>1, <1>9, <1>12, <1>14, <1>15, <1>16, <2>1, Zenon DEF TextReplied, Post
<1>18. \A c \in more : \E i \in 2 .. Len(chunks) : c = [key |-> Key("plain", 0), text |-> chunks[i]]
  BY <1>14
<1>19. more \in SUBSET Bubbles
  <2>1. ASSUME NEW i \in 2 .. Len(chunks) PROVE [key |-> Key("plain", 0), text |-> chunks[i]] \in Bubbles
    <3>1. chunks[i] \in Seq(WordsOfParts)
      BY <1>11
    <3>2. Key("plain", 0) \in [kind : {"plain", "commentary", "reply", "bash", "todo", "ask", "file"}, n : Nat]
      BY DEF Key
    <3> QED BY <3>1, <3>2 DEF Bubbles
  <2> QED BY <1>18, <2>1
<1>20. d \in BridgeStates
  <2>1. chat \in SUBSET Bubbles
    BY <1>13, <1>15, <1>19 DEF BridgeStates
  <2> QED BY <1>13, <1>16, <2>1 DEF BridgeStates
<1>21. d.typing = g.typing /\ d.open = g.open /\ d.thinking = g.thinking /\ SameTexts(g, d) /\ d.chat = chat
  BY <1>13, <1>16 DEF BridgeStates, SameTexts
<1>22. d.typing = FALSE /\ d.open = b.open /\ d.thinking = b.thinking /\ SameTexts(b, d)
  BY <1>8, <1>13, <1>21 DEF SameTexts, SameMood
<1> DEFINE new(i) == [key |-> IF i = 1 THEN k ELSE Key("plain", 0), text |-> chunks[i]]
<1>23. \A c \in d.chat : (c \in b.chat /\ c.key # k) \/ \E i \in DOMAIN chunks : c = new(i)
  <2> SUFFICES ASSUME NEW c \in d.chat PROVE (c \in b.chat /\ c.key # k) \/ \E i \in DOMAIN chunks : c = new(i)
    OBVIOUS
  <2>1. c \in g.chat \/ c \in more
    BY <1>15, <1>21
  <2>2. CASE c \in g.chat
    <3>1. (c \in f.chat /\ c.key # k) \/ c = [key |-> k, text |-> chunks[1]]
      BY <1>13, <2>2
    <3>2. 1 \in DOMAIN chunks
      BY <1>11
    <3>3. new(1) = [key |-> k, text |-> chunks[1]]
      OBVIOUS
    <3> HIDE DEF new
    <3> QED BY <1>8, <3>1, <3>2, <3>3
  <2>3. CASE c \in more
    <3>1. PICK i \in 2 .. Len(chunks) : c = [key |-> Key("plain", 0), text |-> chunks[i]]
      BY <1>18, <2>3
    <3>2. i \in DOMAIN chunks /\ i # 1
      BY <1>11, <3>1
    <3>3. c = new(i)
      BY <3>1, <3>2
    <3> HIDE DEF new
    <3> QED BY <3>2, <3>3
  <2> QED BY <2>1, <2>2, <2>3
<1>24. \A i \in DOMAIN chunks : new(i).text = chunks[i]
  OBVIOUS
<1>25. \A c \in d.chat :
          \/ c \in b.chat
             /\ (b.recent.n # 0 /\ b.recent.text = text => c.key # Key("commentary", b.recent.n))
          \/ \E i \in DOMAIN chunks : c.text = chunks[i]
  <2> HIDE DEF new, chunks
  <2> QED BY <1>9, <1>23, <1>24
<1>26. \A c, z \in d.chat : \A i \in DOMAIN chunks :
          c.text = chunks[i] /\ z.text = chunks[i] /\ NewOrSame(b, text, c) /\ NewOrSame(b, text, z)
             => c = z \/ \E j \in DOMAIN chunks : i # j /\ chunks[j] = chunks[i]
  <2> HIDE DEF new, chunks
  <2> SUFFICES ASSUME NEW c \in d.chat, NEW x \in d.chat, NEW i \in DOMAIN chunks,
                      c.text = chunks[i], x.text = chunks[i],
                      NewOrSame(b, text, c), NewOrSame(b, text, x)
               PROVE  c = x \/ \E j \in DOMAIN chunks : i # j /\ chunks[j] = chunks[i]
    OBVIOUS
  <2>0. \A y \in {c, x} : y \in b.chat => y.key = k
    BY <1>9 DEF NewOrSame
  <2>1. PICK u \in DOMAIN chunks : c = new(u)
    BY <1>23, <2>0
  <2>2. PICK v \in DOMAIN chunks : x = new(v)
    BY <1>23, <2>0
  <2>3. chunks[u] = chunks[i] /\ chunks[v] = chunks[i]
    BY <1>24, <2>1, <2>2
  <2>4. CASE u = v
    BY <2>1, <2>2, <2>4
  <2>5. CASE u # v
    BY <2>3, <2>5
  <2> QED BY <2>4, <2>5
<1> QED BY <1>17, <1>20, <1>22, <1>25, <1>26, Zenon

LEMMA TypedParts ==
    ASSUME StreamTyped
    PROVE  /\ opencode.parts \in Seq(AgentParts) /\ LastPart \in Nat /\ DOMAIN opencode.parts = 1 .. LastPart
           /\ \A p \in DOMAIN opencode.parts :
                 /\ p \in Nat \ {0} /\ opencode.parts[p] \in AgentParts
                 /\ opencode.parts[p].turn \in Nat /\ opencode.parts[p].kind \in AllKinds /\ opencode.parts[p].ended \in BOOLEAN
           /\ opencode.turn \in Nat
<1>1. opencode.parts \in Seq(AgentParts) /\ opencode.turn \in Nat
  BY DEF StreamTyped
<1>2. LastPart \in Nat /\ DOMAIN opencode.parts = 1 .. LastPart
  BY <1>1, LenProperties DEF LastPart
<1>3. \A p \in DOMAIN opencode.parts : p \in Nat \ {0} /\ opencode.parts[p] \in AgentParts
  BY <1>1, <1>2, ElementOfSeq DEF LastPart
<1>4. \A x \in AgentParts : x.turn \in Nat /\ x.kind \in AllKinds /\ x.ended \in BOOLEAN
  BY DEF AgentParts
<1> QED BY <1>1, <1>2, <1>3, <1>4

LEMMA TypedEvents ==
    ASSUME StreamTyped
    PROVE  /\ stream.events \in Seq(AgentEvents) /\ Len(stream.events) \in Nat
           /\ DOMAIN stream.events = 1 .. Len(stream.events)
           /\ \A i \in DOMAIN stream.events :
                 /\ stream.events[i] \in AgentEvents /\ stream.events[i].part \in Nat
                 /\ stream.events[i].type \in {"part", "delta", "ask", "idle"} /\ stream.events[i].ended \in BOOLEAN
<1>1. stream.events \in Seq(AgentEvents)
  BY DEF StreamTyped
<1>2. Len(stream.events) \in Nat /\ DOMAIN stream.events = 1 .. Len(stream.events)
  BY <1>1, LenProperties
<1>3. \A i \in DOMAIN stream.events : stream.events[i] \in AgentEvents
  BY <1>1, <1>2, ElementOfSeq
<1>4. \A x \in AgentEvents : x.part \in Nat /\ x.type \in {"part", "delta", "ask", "idle"} /\ x.ended \in BOOLEAN
  BY DEF AgentEvents
<1> QED BY <1>1, <1>2, <1>3, <1>4

(* One more event is on its way. *)
Grown(x) ==
    /\ Len(stream'.events) = Len(stream.events) + 1
    /\ DOMAIN stream'.events = 1 .. Len(stream.events) + 1
    /\ \A k \in 1 .. Len(stream.events) : stream'.events[k] = stream.events[k]
    /\ stream'.events[Len(stream.events) + 1] = x

LEMMA AppendGrows ==
    ASSUME StreamTyped, NEW x \in AgentEvents, stream'.events = Append(stream.events, x)
    PROVE  Grown(x) /\ stream'.events \in Seq(AgentEvents)
<1>1. PICK ev : ev = stream.events
  OBVIOUS
<1>2. PICK new : new = stream'.events
  OBVIOUS
<1>3. ev \in Seq(AgentEvents) /\ Len(ev) \in Nat /\ new = Append(ev, x)
  BY <1>1, <1>2, TypedEvents
<1>4. /\ new \in Seq(AgentEvents) /\ Len(new) = Len(ev) + 1
      /\ \A k \in 1 .. Len(ev) : new[k] = ev[k]
      /\ new[Len(ev) + 1] = x
  BY <1>3, AppendProperties
<1>5. DOMAIN new = 1 .. Len(ev) + 1
  BY <1>3, <1>4, LenProperties
<1> QED BY <1>1, <1>2, <1>4, <1>5 DEF Grown

LEMMA SentIs ==
    ASSUME StreamTyped, NEW type \in {"part", "delta", "ask", "idle"}, NEW p \in Nat, NEW ended \in BOOLEAN,
           Sent(type, p, ended)
    PROVE  /\ Grown([type |-> type, part |-> p, ended |-> ended]) /\ stream'.whole = stream.whole
           /\ stream' \in [events : Seq(AgentEvents), faults : Nat, whole : BOOLEAN]
<1>1. PICK x : x = [type |-> type, part |-> p, ended |-> ended]
  OBVIOUS
<1>2. x \in AgentEvents
  BY <1>1 DEF AgentEvents
<1>3. stream \in [events : Seq(AgentEvents), faults : Nat, whole : BOOLEAN]
  BY DEF StreamTyped
<1>4. stream' = [stream EXCEPT !.events = Append(@, x)]
  BY <1>1 DEF Sent
<1>5. stream'.events = Append(stream.events, x) /\ stream'.whole = stream.whole
  BY <1>3, <1>4
<1>6. Grown(x) /\ stream'.events \in Seq(AgentEvents)
  BY <1>2, <1>5, AppendGrows
<1>7. stream' \in [events : Seq(AgentEvents), faults : Nat, whole : BOOLEAN]
  <2>1. PICK new : new = Append(stream.events, x)
    OBVIOUS
  <2>2. new \in Seq(AgentEvents) /\ stream' = [stream EXCEPT !.events = new]
    BY <1>3, <1>4, <1>5, <1>6, <2>1
  <2> QED BY <1>3, <2>2
<1> QED BY <1>1, <1>5, <1>6, <1>7

(* The agent's parts stay, new ones follow. *)
PartsKept ==
    /\ LastPart <= LastPart' /\ opencode'.turn = opencode.turn
    /\ \A p \in DOMAIN opencode.parts :
          opencode'.parts[p].kind = opencode.parts[p].kind /\ opencode'.parts[p].turn = opencode.parts[p].turn

LEMMA EventsKept ==
    ASSUME StreamTyped, StreamTyped', EventInv, LastPart <= LastPart',
           \A p \in DOMAIN opencode.parts : opencode'.parts[p].kind = opencode.parts[p].kind, NEW x, Grown(x),
           x.type # "idle" => x.part \in DOMAIN opencode'.parts,
           x.type = "idle" => x.part = 0,
           x.type = "delta" => IsText(x.part)',
           x.type = "ask" => IsTool(x.part)',
           x.type = "part" /\ x.ended => IsTool(x.part)'
    PROVE  EventInv'
<1>1. DOMAIN opencode.parts = 1 .. LastPart /\ LastPart \in Nat /\ LastPart' \in Nat
      /\ DOMAIN opencode'.parts = 1 .. LastPart'
  BY TypedParts, LenProperties DEF StreamTyped, LastPart
<1>2. \A p \in DOMAIN opencode.parts : p \in DOMAIN opencode'.parts /\ (IsText(p) <=> IsText(p)') /\ (IsTool(p) <=> IsTool(p)')
  BY <1>1 DEF IsText, IsTool
<1>3. ASSUME NEW i \in DOMAIN stream'.events, NEW e, e = stream'.events[i]
      PROVE  /\ e.type # "idle" => e.part \in DOMAIN opencode'.parts
             /\ e.type = "idle" => e.part = 0
             /\ e.type = "delta" => IsText(e.part)'
             /\ e.type = "ask" => IsTool(e.part)'
             /\ e.type = "part" /\ e.ended => IsTool(e.part)'
  <2>1. Len(stream.events) \in Nat /\ DOMAIN stream.events = 1 .. Len(stream.events)
    BY TypedEvents
  <2>2. CASE i \in DOMAIN stream.events
    <3>1. e = stream.events[i]
      BY <1>3, <2>1, <2>2 DEF Grown
    <3>3. /\ e.type # "idle" => e.part \in DOMAIN opencode.parts
          /\ e.type = "idle" => e.part = 0
          /\ e.type = "delta" => IsText(e.part)
          /\ e.type = "ask" => IsTool(e.part)
          /\ e.type = "part" /\ e.ended => IsTool(e.part)
      BY <2>2, <3>1 DEF EventInv
    <3>4. (e.type = "delta" => e.type # "idle") /\ (e.type = "ask" => e.type # "idle") /\ (e.type = "part" => e.type # "idle")
      OBVIOUS
    <3> QED BY <1>2, <3>3, <3>4
  <2>3. CASE i \notin DOMAIN stream.events
    <3>1. i = Len(stream.events) + 1
      BY <2>1, <2>3 DEF Grown
    <3>2. e = x
      BY <1>3, <3>1 DEF Grown
    <3> QED BY <3>2
  <2> QED BY <2>2, <2>3
<1> QED BY <1>3 DEF EventInv, IsText, IsTool

(* What was sent before stays before. *)
LEMMA StaysBefore ==
    ASSUME StreamTyped, bridge' = bridge, NEW x, Grown(x), NEW i \in 1 .. Len(stream.events) + 1, NEW q
    PROVE  /\ SentPart(i, q) => SentPart(i, q)'
           /\ SentWords(i, q) => SentWords(i, q)'
           /\ SentEnd(i, q) => SentEnd(i, q)'
           /\ (IsText(q) <=> IsText(q)') => (SentAll(i, q) => SentAll(i, q)')
<1>1. Len(stream.events) \in Nat
  BY TypedEvents
<1>2. \A k \in 1 .. i - 1 : stream'.events[k] = stream.events[k]
  BY <1>1 DEF Grown
<1>3. SentPart(i, q) => SentPart(i, q)'
  BY <1>2 DEF SentPart, PartEvent
<1>4. SentWords(i, q) => SentWords(i, q)'
  BY <1>2 DEF SentWords, DeltaEvent
<1>5. SentEnd(i, q) => SentEnd(i, q)'
  BY <1>2 DEF SentEnd, EndEvent, PartEvent
<1> QED BY <1>3, <1>4, <1>5 DEF SentAll

LEMMA LaterToo ==
    ASSUME NEW i \in Nat, NEW j \in Nat, i <= j, NEW q
    PROVE  (SentPart(i, q) => SentPart(j, q)) /\ (SentWords(i, q) => SentWords(j, q)) /\ (SentEnd(i, q) => SentEnd(j, q))
BY DEF SentPart, SentWords, SentEnd

(* One more event in its place leaves all in order. *)
LEMMA OrderAppends ==
    ASSUME StreamTyped, StreamTyped', EventInv, TurnOrderInv, bridge' = bridge, PartsKept, NEW x, Grown(x),
           \A p \in DOMAIN opencode'.parts : OfTurn(p)' =>
              /\ p \in DOMAIN opencode.parts \/ (x.type = "part" /\ x.part = p)
              /\ IsText(p)' /\ ~(opencode'.at = "text" /\ p = LastPart') =>
                    (p \in DOMAIN opencode.parts /\ ~(opencode.at = "text" /\ p = LastPart)) \/ (x.type = "delta" /\ x.part = p)
              /\ opencode'.parts[p].ended =>
                    (p \in DOMAIN opencode.parts /\ opencode.parts[p].ended) \/ (x.type = "part" /\ x.part = p /\ x.ended),
           opencode'.at = "idle" => opencode.at = "idle" \/ x.type = "idle",
           opencode.at = "idle" => opencode'.at = "idle" /\ LastPart' = LastPart,
           NEW N, N = Len(stream.events), HeardInOrder(N + 1)',
           \A p \in bridge.types \cup bridge.closedParts \cup bridge.tools : p \in DOMAIN opencode.parts
    PROVE  TurnOrderInv'
<1>1. /\ DOMAIN opencode.parts = 1 .. LastPart /\ LastPart \in Nat /\ LastPart' \in Nat
      /\ DOMAIN opencode'.parts = 1 .. LastPart' /\ LastPart <= LastPart'
  BY TypedParts, LenProperties DEF StreamTyped, LastPart, PartsKept
<1>2. N \in Nat /\ DOMAIN stream.events = 1 .. N /\ DOMAIN stream'.events = 1 .. N + 1 /\ Len(stream'.events) = N + 1
      /\ (\A i \in 1 .. N : stream'.events[i] = stream.events[i]) /\ stream'.events[N + 1] = x
  BY TypedEvents DEF Grown
<1>3. \A p \in DOMAIN opencode.parts :
         p \in DOMAIN opencode'.parts /\ (IsText(p) <=> IsText(p)') /\ (OfTurn(p) <=> OfTurn(p)')
  BY <1>1 DEF IsText, OfTurn, PartsKept
<1>4. (\A p \in bridge.types : OfTurn(p))' /\ (\A p \in bridge.closedParts \cup bridge.tools : OfTurn(p) => p \in bridge.types)'
  BY <1>3 DEF TurnOrderInv
<1>5. ASSUME NEW q PROVE /\ SentPart(N + 1, q) => SentPart(N + 2, q)'
                         /\ SentWords(N + 1, q) => SentWords(N + 2, q)'
                         /\ SentEnd(N + 1, q) => SentEnd(N + 2, q)'
                         /\ x.type = "part" /\ x.part = q => SentPart(N + 2, q)'
                         /\ x.type = "delta" /\ x.part = q => SentWords(N + 2, q)'
                         /\ x.type = "part" /\ x.part = q /\ x.ended => SentEnd(N + 2, q)'
  <2>1. N + 1 \in 1 .. N + 2 - 1 /\ \A k \in 1 .. N + 1 - 1 : k \in 1 .. N + 2 - 1 /\ stream'.events[k] = stream.events[k]
    BY <1>2
  <2>2. (SentPart(N + 1, q) => SentPart(N + 2, q)') /\ (x.type = "part" /\ x.part = q => SentPart(N + 2, q)')
    <3>1. stream'.events[N + 1] = x
      BY <1>2
    <3> QED BY <2>1, <3>1 DEF SentPart, PartEvent
  <2>3. (SentWords(N + 1, q) => SentWords(N + 2, q)') /\ (x.type = "delta" /\ x.part = q => SentWords(N + 2, q)')
    <3>1. stream'.events[N + 1] = x
      BY <1>2
    <3> QED BY <2>1, <3>1 DEF SentWords, DeltaEvent
  <2>4. (SentEnd(N + 1, q) => SentEnd(N + 2, q)') /\ (x.type = "part" /\ x.part = q /\ x.ended => SentEnd(N + 2, q)')
    <3>1. stream'.events[N + 1] = x
      BY <1>2
    <3> QED BY <2>1, <3>1 DEF SentEnd, EndEvent, PartEvent
  <2> QED BY <2>2, <2>3, <2>4
<1>6. SentInv'
  <2>1. ASSUME NEW p \in DOMAIN opencode'.parts, OfTurn(p)'
        PROVE  /\ SentPart(N + 2, p)'
               /\ IsText(p)' /\ ~(opencode'.at = "text" /\ p = LastPart') => SentWords(N + 2, p)'
               /\ opencode'.parts[p].ended => SentEnd(N + 2, p)'
    <3>1. p \in DOMAIN opencode.parts =>
             /\ SentPart(N + 1, p)
             /\ IsText(p) /\ ~(opencode.at = "text" /\ p = LastPart) => SentWords(N + 1, p)
             /\ opencode.parts[p].ended => SentEnd(N + 1, p)
      BY <1>3, <2>1 DEF TurnOrderInv, SentInv
    <3> QED BY <1>3, <1>5, <2>1, <3>1
  <2>2. ASSUME opencode'.at = "idle", opencode'.turn # 0
        PROVE  \E k \in DOMAIN stream'.events : stream'.events[k].type = "idle"
    <3>1. CASE x.type = "idle"
      BY <1>2, <3>1
    <3>2. CASE opencode.at = "idle"
      <4>1. PICK k \in DOMAIN stream.events : stream.events[k].type = "idle"
        BY <2>2, <3>2 DEF TurnOrderInv, SentInv, PartsKept
      <4> QED BY <1>2, <4>1
    <3> QED BY <2>2, <3>1, <3>2
  <2>3. Len(stream'.events) + 1 = N + 2
    BY <1>2
  <2> QED BY <2>1, <2>2, <2>3 DEF SentInv
<1>7. ASSUME NEW i \in DOMAIN stream'.events PROVE HeardInOrder(i)'
  <2>1. CASE i = N + 1
    BY <2>1
  <2>2. CASE i \in 1 .. N
    <3>1. PICK e : e = stream.events[i]
      OBVIOUS
    <3>2. e = stream'.events[i] /\ i \in 1 .. N + 1
      BY <1>2, <2>2, <3>1
    <3>3. /\ e.type = "idle" => opencode.at = "idle" /\ \A q \in DOMAIN opencode.parts : OfTurn(q) => SentAll(i, q)
          /\ e.type # "idle" => /\ OfTurn(e.part)
                                /\ \A q \in DOMAIN opencode.parts : OfTurn(q) /\ q < e.part => SentAll(i, q)
          /\ e.type \in {"delta", "ask"} => SentPart(i, e.part)
          /\ e.type \in {"part", "ask"} /\ ~IsText(e.part) =>
                InPlace(i, e.part) \/ (e.type = "part" /\ e.ended /\ SentEnd(i, e.part))
      BY <1>2, <2>2, <3>1 DEF TurnOrderInv, HeardInOrder
    <3>4. ASSUME NEW q PROVE /\ SentPart(i, q) => SentPart(i, q)'
                             /\ SentEnd(i, q) => SentEnd(i, q)'
                             /\ q \in DOMAIN opencode.parts => (SentAll(i, q) => SentAll(i, q)')
      <4>1. i \in 1 .. Len(stream.events) + 1
        BY <3>2
      <4> QED BY <1>3, <4>1, StaysBefore
    <3>5. InPlace(i, e.part) => InPlace(i, e.part)'
      <4>1. \A k \in 1 .. i - 1 : stream'.events[k] = stream.events[k]
        BY <1>2, <2>2
      <4> QED BY <4>1 DEF InPlace
    <3>6. e.type = "idle" => opencode'.at = "idle" /\ \A q \in DOMAIN opencode'.parts : OfTurn(q)' => SentAll(i, q)'
      <4>1. SUFFICES ASSUME e.type = "idle"
                     PROVE  opencode'.at = "idle" /\ \A q \in DOMAIN opencode'.parts : OfTurn(q)' => SentAll(i, q)'
        OBVIOUS
      <4>2. opencode.at = "idle" /\ LastPart' = LastPart /\ opencode'.at = "idle"
        BY <3>3, <4>1
      <4>3. DOMAIN opencode'.parts = DOMAIN opencode.parts
        BY <1>1, <4>2
      <4> QED BY <1>3, <3>3, <3>4, <4>1, <4>2, <4>3
    <3>7. e.type # "idle" => /\ OfTurn(e.part)'
                             /\ \A q \in DOMAIN opencode'.parts : OfTurn(q)' /\ q < e.part => SentAll(i, q)'
      <4>1. SUFFICES ASSUME e.type # "idle"
                     PROVE  /\ OfTurn(e.part)'
                            /\ \A q \in DOMAIN opencode'.parts : OfTurn(q)' /\ q < e.part => SentAll(i, q)'
        OBVIOUS
      <4>2. e.part \in DOMAIN opencode.parts
        BY <3>3, <4>1 DEF OfTurn
      <4>3. \A q \in DOMAIN opencode'.parts : q < e.part => q \in DOMAIN opencode.parts
        BY <1>1, <4>2
      <4> QED BY <1>3, <3>3, <3>4, <4>1, <4>2, <4>3
    <3>8. e.type \in {"delta", "ask"} => SentPart(i, e.part)'
      BY <3>3, <3>4
    <3>9. e.type \in {"part", "ask"} /\ ~IsText(e.part)' =>
                InPlace(i, e.part)' \/ (e.type = "part" /\ e.ended /\ SentEnd(i, e.part)')
      <4>1. e.type \in {"part", "ask"} => e.part \in DOMAIN opencode.parts
        BY <3>3 DEF OfTurn
      <4> QED BY <1>3, <3>3, <3>4, <3>5, <4>1
    <3> QED BY <3>2, <3>6, <3>7, <3>8, <3>9 DEF HeardInOrder
  <2> QED BY <1>2, <2>1, <2>2
<1> QED BY <1>4, <1>6, <1>7 DEF TurnOrderInv

(* What was heard is as it was when parts are added. *)
LEMMA HeardKept ==
    ASSUME StreamTyped, StreamTyped', MemoryInv, ChatInv, HeardInv, bridge' = bridge, PartsKept
    PROVE  HeardInv'
<1>1. /\ DOMAIN opencode.parts = 1 .. LastPart /\ LastPart \in Nat /\ LastPart' \in Nat
      /\ DOMAIN opencode'.parts = 1 .. LastPart' /\ LastPart <= LastPart'
      /\ opencode.parts \in Seq(AgentParts) /\ opencode'.parts \in Seq(AgentParts)
  BY TypedParts, LenProperties DEF StreamTyped, LastPart, PartsKept
<1>2. \A p \in DOMAIN opencode.parts :
         p \in DOMAIN opencode'.parts /\ (IsText(p) <=> IsText(p)') /\ (OfTurn(p) <=> OfTurn(p)')
  BY <1>1 DEF IsText, OfTurn, PartsKept
<1>3. bridge.types \cup bridge.closedParts \cup bridge.deltas \subseteq DOMAIN opencode.parts
  BY DEF MemoryInv
<1>4. \A p \in DOMAIN opencode.parts, q \in DOMAIN opencode'.parts : q < p => q \in DOMAIN opencode.parts
  BY <1>1
<1>5. Flat(opencode'.parts, bridge.deltas) = Flat(opencode.parts, bridge.deltas)
  <2>1. Len(opencode.parts) <= Len(opencode'.parts)
    BY DEF PartsKept, LastPart
  <2>2. \A p \in DOMAIN opencode.parts : opencode.parts[p].kind = opencode'.parts[p].kind
    BY DEF PartsKept
  <2>3. bridge.deltas \subseteq DOMAIN opencode.parts
    BY <1>3
  <2> QED BY <1>1, <2>1, <2>2, <2>3, FlatKept
<1>6. bridge'.text = Flat(opencode'.parts, bridge'.deltas)
  BY <1>5 DEF HeardInv
<1>7. \A c \in bridge.chat, p \in DOMAIN opencode'.parts : Says(c, p) => p \in DOMAIN opencode.parts
  BY <1>1 DEF ChatInv
<1>8. (\A p \in bridge.types, q \in DOMAIN opencode.parts : OfTurn(q) /\ q < p => q \in bridge.types)'
  BY <1>2, <1>3, <1>4 DEF HeardInv
<1>9. (\A s \in bridge.types, q \in DOMAIN opencode.parts :
          ~IsText(s) /\ OfTurn(q) /\ IsText(q) /\ q < s => q \in bridge.closedParts)'
  BY <1>2, <1>3, <1>4 DEF HeardInv
<1>10. (\A p \in bridge.closedParts : OfTurn(p) => \E s \in bridge.types : ~IsText(s) /\ p < s)'
  <2> SUFFICES ASSUME NEW p \in bridge.closedParts, OfTurn(p)' PROVE \E s \in bridge.types : ~IsText(s)' /\ p < s
    OBVIOUS
  <2>1. PICK s \in bridge.types : ~IsText(s) /\ p < s
    BY <1>2, <1>3 DEF HeardInv
  <2> QED BY <1>2, <1>3, <2>1
<1>11. (\A p \in bridge.deltas, q \in DOMAIN opencode.parts :
          OfTurn(q) /\ IsText(q) /\ q < p => q \in bridge.closedParts \cup bridge.deltas)'
  BY <1>2, <1>3, <1>4 DEF HeardInv
<1>12. (\A c \in bridge.chat, p \in DOMAIN opencode.parts : OfTurn(p) /\ Says(c, p) => p \in bridge.closedParts)'
  BY <1>2, <1>7 DEF HeardInv, Says
<1> QED BY <1>6, <1>8, <1>9, <1>10, <1>11, <1>12 DEF HeardInv

(* The last run of texts is as it was when no text is added. *)
LEMMA RunKept ==
    ASSUME NEW P \in Seq(AgentParts), NEW Q \in Seq(AgentParts), NEW t, Len(P) <= Len(Q),
           \A p \in DOMAIN P : Q[p].kind = P[p].kind /\ Q[p].turn = P[p].turn,
           \A q \in DOMAIN Q : q \notin DOMAIN P => Q[q].kind \notin TextKinds
    PROVE  LastRun(Q, t) = LastRun(P, t) /\ Flat(Q, LastRun(Q, t)) = Flat(P, LastRun(P, t))
<1>1. /\ DOMAIN P = 1 .. Len(P) /\ Len(P) \in Nat /\ DOMAIN Q = 1 .. Len(Q) /\ Len(Q) \in Nat
      /\ DOMAIN P \subseteq DOMAIN Q
  BY LenProperties
<1>2. \A q : TextOf(Q, t, q) <=> TextOf(P, t, q)
  BY <1>1 DEF TextOf
<1>3. \A q : TextOf(P, t, q) => q \in DOMAIN P
  BY DEF TextOf
<1>4. ASSUME NEW p \in DOMAIN P, NEW e \in DOMAIN P PROVE RunUpTo(P, t, p, e) <=> RunUpTo(Q, t, p, e)
  <2>1. (\A q \in p .. e : TextOf(P, t, q)) <=> (\A q \in p .. e : TextOf(Q, t, q))
    BY <1>2
  <2>2. (\A q \in DOMAIN P : TextOf(P, t, q) => q <= e) <=> (\A q \in DOMAIN Q : TextOf(Q, t, q) => q <= e)
    BY <1>1, <1>2, <1>3
  <2> QED BY <2>1, <2>2 DEF RunUpTo
<1>5. \A p, e \in DOMAIN Q : RunUpTo(Q, t, p, e) => p \in DOMAIN P /\ e \in DOMAIN P
  <2> SUFFICES ASSUME NEW p \in DOMAIN Q, NEW e \in DOMAIN Q, RunUpTo(Q, t, p, e) PROVE p \in DOMAIN P /\ e \in DOMAIN P
    OBVIOUS
  <2>1. p \in p .. e /\ e \in p .. e
    BY <1>1 DEF RunUpTo
  <2>2. TextOf(Q, t, p) /\ TextOf(Q, t, e)
    BY <2>1 DEF RunUpTo
  <2> QED BY <1>2, <1>3, <2>2
<1>6. LastRun(Q, t) = LastRun(P, t)
  <2>1. \A p : p \in LastRun(Q, t) <=> p \in LastRun(P, t)
    BY <1>1, <1>4, <1>5 DEF LastRun
  <2> QED BY <2>1
<1>7. LastRun(P, t) \subseteq DOMAIN P
  BY DEF LastRun
<1>8. \A p \in DOMAIN P : P[p].kind = Q[p].kind
  OBVIOUS
<1>9. Flat(Q, LastRun(P, t)) = Flat(P, LastRun(P, t))
  <2>1. PICK S : S = LastRun(P, t)
    OBVIOUS
  <2>2. S \subseteq DOMAIN P
    BY <1>7, <2>1
  <2>3. Flat(Q, S) = Flat(P, S)
    BY <1>8, <2>2, FlatKept
  <2> QED BY <2>1, <2>3
<1> QED BY <1>6, <1>9

LEMMA ReplyKept ==
    ASSUME StreamTyped, StreamTyped', ReplyInv, bridge' = bridge, PartsKept,
           opencode'.http = "waiting" => opencode.http = "waiting",
           \A p \in DOMAIN opencode'.parts : p \notin DOMAIN opencode.parts => opencode'.parts[p].kind \notin TextKinds
    PROVE  ReplyInv'
<1> DEFINE P == opencode.parts
           Q == opencode'.parts
           t == opencode.turn
<1>1. P \in Seq(AgentParts) /\ Q \in Seq(AgentParts) /\ opencode'.turn = t /\ Len(P) <= Len(Q)
  BY DEF StreamTyped, PartsKept, LastPart
<1>2. \A p \in DOMAIN P : Q[p].kind = P[p].kind /\ Q[p].turn = P[p].turn
  BY DEF PartsKept
<1> HIDE DEF P, Q, t
<1>3. LastRun(Q, t) = LastRun(P, t) /\ Flat(Q, LastRun(Q, t)) = Flat(P, LastRun(P, t))
  BY <1>1, <1>2, RunKept DEF P, Q
<1> QED BY <1>1, <1>3 DEF ReplyInv, P, Q, t, Says, Key

(* A step of the agent leaves what the bridge has. *)
LEMMA AgentKeeps ==
    ASSUME StreamInv, StreamTyped', AgentInv', EventInv', bridge' = bridge, PartsKept,
           stream'.whole => /\ stream.whole /\ ReplyInv'
                            /\ opencode'.at # "idle" => bridge.open
                            /\ bridge.open => TurnOrderInv'
    PROVE  StreamInv'
<1>1. /\ DOMAIN opencode.parts = 1 .. LastPart /\ LastPart \in Nat /\ LastPart' \in Nat
      /\ DOMAIN opencode'.parts = 1 .. LastPart' /\ LastPart <= LastPart'
  BY TypedParts, LenProperties DEF StreamInv, StreamTyped, LastPart, PartsKept
<1>2. \A p \in DOMAIN opencode.parts : p \in DOMAIN opencode'.parts /\ (IsText(p) <=> IsText(p)')
  BY <1>1 DEF IsText, PartsKept
<1>3. IndicatorInv'
  BY DEF StreamInv, IndicatorInv
<1>4. TextShownOnce'
  <2>1. stream'.whole => stream.whole
    OBVIOUS
  <2> QED BY <2>1 DEF StreamInv, TextShownOnce
<1>5. ASSUME stream'.whole PROVE WholeInv'
  <2>1. WholeInv
    BY <1>5 DEF StreamInv
  <2>2. MemoryInv'
    <3>1. bridge.types \cup bridge.closedParts \cup bridge.tools \subseteq DOMAIN opencode.parts /\ bridge.openParts \subseteq bridge.types
      BY <2>1 DEF WholeInv, MemoryInv
    <3>2. \A p \in bridge.types \cup bridge.openParts \cup bridge.closedParts : IsText(p) <=> IsText(p)'
      BY <1>2, <3>1
    <3>3. bridge.types \cup bridge.closedParts \cup bridge.tools \subseteq DOMAIN opencode'.parts
      BY <1>2, <3>1
    <3> QED BY <2>1, <3>2, <3>3 DEF WholeInv, MemoryInv
  <2>3. ChatInv'
    BY <1>1, <2>1 DEF WholeInv, ChatInv, Says
  <2>4. bridge'.open => HeardInv'
    BY <2>1, HeardKept DEF StreamInv, WholeInv
  <2> QED BY <1>5, <2>2, <2>3, <2>4 DEF WholeInv
<1> QED BY <1>3, <1>4, <1>5 DEF StreamInv

(* All that the agent did is before what comes now. *)
LEMMA AllBefore ==
    ASSUME StreamTyped, SentInv, bridge' = bridge, NEW x, Grown(x), NEW N, N = Len(stream.events),
           NEW q \in DOMAIN opencode.parts, OfTurn(q), ~(opencode.at = "text" /\ q = LastPart),
           IsText(q) <=> IsText(q)'
    PROVE  SentAll(N + 1, q)'
<1>1. N + 1 \in 1 .. Len(stream.events) + 1
  BY TypedEvents
<1>2. SentAll(N + 1, q)
  BY DEF SentInv, SentAll
<1> QED BY <1>1, <1>2, StaysBefore

LEMMA PartBeginsKeeps ==
    ASSUME StreamInv, NEW kind \in PartKinds, PartBegins(kind)
    PROVE  StreamInv'
<1>1. kind \in AllKinds
  BY StreamBounds DEF AllKinds
<1>2. PICK N : N = Len(stream.events)
  OBVIOUS
<1>3. PICK m : m = LastPart
  OBVIOUS
<1>4. PICK part : part = [kind |-> kind, turn |-> opencode.turn, ended |-> FALSE]
  OBVIOUS
<1>5. PICK at : at = CASE kind \in TextKinds -> "text" [] kind \in ToolKinds -> "tool" [] OTHER -> "working"
  OBVIOUS
<1>6. PICK P : P = Append(opencode.parts, part)
  OBVIOUS
<1>7. StreamTyped /\ m \in Nat /\ DOMAIN opencode.parts = 1 .. m /\ opencode.parts \in Seq(AgentParts) /\ opencode.turn \in Nat
  BY <1>3, TypedParts DEF StreamInv
<1>8. part \in AgentParts /\ part.kind = kind /\ part.turn = opencode.turn /\ part.ended = FALSE
  BY <1>1, <1>4, <1>7 DEF AgentParts
<1>9. P \in Seq(AgentParts) /\ Len(P) = m + 1 /\ (\A p \in 1 .. m : P[p] = opencode.parts[p]) /\ P[m + 1] = part
  BY <1>3, <1>6, <1>7, <1>8, AppendProperties DEF LastPart
<1>10. opencode \in [turn : Nat, at : {"idle", "working", "text", "said", "tool"},
                     http : {"none", "waiting", "answered"}, parts : Seq(AgentParts)]
  BY <1>7 DEF StreamTyped
<1>11. at \in {"text", "tool", "working"} /\ (at = "text" <=> kind \in TextKinds) /\ (at = "tool" <=> kind \in ToolKinds)
  BY <1>5 DEF TextKinds, ToolKinds
<1>12. opencode' = [opencode EXCEPT !.parts = P, !.at = at]
  BY <1>4, <1>5, <1>6, <1>10 DEF PartBegins
<1>13. /\ opencode'.parts = P /\ opencode'.at = at /\ opencode'.turn = opencode.turn /\ opencode'.http = opencode.http
       /\ opencode' \in [turn : Nat, at : {"idle", "working", "text", "said", "tool"},
                         http : {"none", "waiting", "answered"}, parts : Seq(AgentParts)]
  BY <1>9, <1>10, <1>11, <1>12
<1>14. PICK x : x = [type |-> "part", part |-> m + 1, ended |-> FALSE]
  OBVIOUS
<1>15. bridge' = bridge /\ opencode.at \in {"working", "said"}
  BY DEF PartBegins
<1>16. Grown(x) /\ stream'.whole = stream.whole /\ stream' \in [events : Seq(AgentEvents), faults : Nat, whole : BOOLEAN]
  <2>0. PICK k : k = Len(opencode.parts) + 1
    OBVIOUS
  <2>1. Sent("part", k, FALSE)
    BY <2>0, Zenon DEF PartBegins
  <2>2. k = m + 1 /\ k \in Nat
    BY <1>3, <1>7, <2>0 DEF LastPart
  <2> QED BY <1>7, <1>14, <2>1, <2>2, SentIs
<1>17. StreamTyped'
  BY <1>7, <1>13, <1>15, <1>16 DEF StreamTyped
<1>18. DOMAIN P = 1 .. m + 1 /\ LastPart' = m + 1 /\ m + 1 \in Nat
  BY <1>7, <1>9, <1>13, LenProperties DEF LastPart
<1>19. PartsKept
  BY <1>3, <1>7, <1>9, <1>13, <1>18 DEF PartsKept
<1>20. x.type = "part" /\ x.part = m + 1 /\ x.ended = FALSE
  BY <1>14
<1>21. EventInv'
  BY <1>7, <1>13, <1>16, <1>17, <1>18, <1>19, <1>20, EventsKept DEF StreamInv, PartsKept
<1>22. /\ \A p \in 1 .. m : (IsText(p) <=> IsText(p)') /\ (IsTool(p) <=> IsTool(p)') /\ (OfTurn(p) <=> OfTurn(p)')
       /\ IsText(m + 1)' <=> kind \in TextKinds
       /\ IsTool(m + 1)' <=> kind \in ToolKinds
       /\ OfTurn(m + 1)'
  BY <1>7, <1>8, <1>9, <1>13, <1>18 DEF IsText, IsTool, OfTurn
<1>25. AgentInv
  BY DEF StreamInv
<1>24. AgentInv'
  <2>1. \A p, q \in 1 .. m + 1 : /\ P[p].turn <= opencode.turn /\ P[p].turn \in Nat
                                 /\ p < q => P[p].turn <= P[q].turn
    <3>1. \A p \in 1 .. m : opencode.parts[p].turn \in Nat
      BY <1>7, TypedParts
    <3>2. \A p, q \in 1 .. m : opencode.parts[p].turn <= opencode.turn /\ (p < q => opencode.parts[p].turn <= opencode.parts[q].turn)
      BY <1>7, <1>25 DEF AgentInv
    <3>3. \A p \in 1 .. m : P[p].turn = opencode.parts[p].turn
      BY <1>9
    <3>4. P[m + 1].turn = opencode.turn
      BY <1>8, <1>9
    <3>5. \A p \in 1 .. m + 1 : p \in 1 .. m \/ p = m + 1
      BY <1>7
    <3>6. \A p \in 1 .. m : P[p].turn <= opencode.turn /\ P[p].turn \in Nat
      BY <3>1, <3>2, <3>3
    <3>7. \A q \in 1 .. m : ~(m + 1 < q)
      BY <1>7
    <3>8. ~(m + 1 < m + 1) /\ opencode.turn <= opencode.turn
      BY <1>7
    <3> QED BY <1>7, <3>2, <3>3, <3>4, <3>5, <3>6, <3>7, <3>8
  <2>2. \A p \in 1 .. m : /\ IsTool(p) => opencode.parts[p].ended
                          /\ ~IsTool(p) => ~opencode.parts[p].ended
    BY <1>7, <1>15, <1>25 DEF AgentInv
  <2>3. \A p \in 1 .. m + 1 : /\ IsTool(p)' => P[p].ended \/ (p = m + 1 /\ at = "tool")
                              /\ ~IsTool(p)' => ~P[p].ended
    <3> SUFFICES ASSUME NEW p \in 1 .. m + 1
                 PROVE  /\ IsTool(p)' => P[p].ended \/ (p = m + 1 /\ at = "tool")
                        /\ ~IsTool(p)' => ~P[p].ended
      OBVIOUS
    <3>1. CASE p = m + 1
      BY <1>8, <1>9, <1>11, <1>22, <3>1
    <3>2. CASE p # m + 1
      <4>1. p \in 1 .. m
        BY <1>7, <3>2
      <4> QED BY <1>9, <1>22, <2>2, <4>1
    <3> QED BY <3>1, <3>2
  <2>4. opencode.turn # 0
    BY <1>15, <1>25 DEF AgentInv
  <2>5. (at \in {"text", "said"} => IsText(m + 1)') /\ (at = "tool" => IsTool(m + 1)') /\ (at \in {"idle", "working"} => ~IsText(m + 1)')
    BY <1>11, <1>22
  <2> QED BY <1>13, <1>18, <1>22, <2>1, <2>3, <2>4, <2>5 DEF AgentInv
<1>23. ASSUME stream'.whole
       PROVE  /\ stream.whole /\ ReplyInv'
              /\ opencode'.at # "idle" => bridge.open
              /\ bridge.open => TurnOrderInv'
  <2>1. WholeInv /\ stream.whole
    BY <1>16, <1>23 DEF StreamInv
  <2>2. bridge.open /\ TurnOrderInv /\ HeardInv /\ MemoryInv /\ ChatInv /\ ReplyInv
    BY <1>15, <2>1 DEF WholeInv
  <2>4. \A q \in 1 .. m : OfTurn(q) => SentAll(N + 1, q)'
    BY <1>2, <1>7, <1>15, <1>16, <1>22, <2>2, AllBefore DEF TurnOrderInv
  <2>5. InPlace(N + 1, m + 1)'
    <3>1. \A q \in bridge.types : q <= m + 1
      BY <1>7, <2>2 DEF MemoryInv
    <3>2. \A k \in 1 .. N : stream.events[k].part <= m + 1
      <4> SUFFICES ASSUME NEW k \in 1 .. N PROVE stream.events[k].part <= m + 1
        OBVIOUS
      <4>1. k \in DOMAIN stream.events
        BY <1>2, <1>7, TypedEvents
      <4>2. PICK e : e = stream.events[k]
        OBVIOUS
      <4>3. (e.type # "idle" => e.part \in 1 .. m) /\ (e.type = "idle" => e.part = 0)
        BY <1>7, <4>1, <4>2 DEF StreamInv, EventInv
      <4> QED BY <1>7, <4>2, <4>3
    <3>3. N \in Nat /\ \A k \in 1 .. N : stream'.events[k] = stream.events[k]
      BY <1>2, <1>7, <1>16, TypedEvents DEF Grown
    <3> QED BY <1>15, <3>1, <3>2, <3>3 DEF InPlace
  <2>6. HeardInOrder(N + 1)'
    <3>1. stream'.events[N + 1] = x
      BY <1>2, <1>16 DEF Grown
    <3>2. \A q \in DOMAIN opencode'.parts : OfTurn(q)' /\ q < m + 1 => SentAll(N + 1, q)'
      <4>1. \A q \in 1 .. m + 1 : q < m + 1 => q \in 1 .. m
        BY <1>7
      <4> QED BY <1>13, <1>18, <1>22, <2>4, <4>1
    <3> QED BY <1>20, <1>22, <2>5, <3>1, <3>2 DEF HeardInOrder
  <2>7. TurnOrderInv'
    <3>1. \A p \in DOMAIN opencode'.parts : OfTurn(p)' =>
              /\ p \in DOMAIN opencode.parts \/ (x.type = "part" /\ x.part = p)
              /\ IsText(p)' /\ ~(opencode'.at = "text" /\ p = LastPart') =>
                    (p \in DOMAIN opencode.parts /\ ~(opencode.at = "text" /\ p = LastPart)) \/ (x.type = "delta" /\ x.part = p)
              /\ opencode'.parts[p].ended =>
                    (p \in DOMAIN opencode.parts /\ opencode.parts[p].ended) \/ (x.type = "part" /\ x.part = p /\ x.ended)
      <4> SUFFICES ASSUME NEW p \in 1 .. m + 1
            PROVE  /\ p \in 1 .. m \/ p = m + 1
                   /\ IsText(p)' /\ ~(at = "text" /\ p = m + 1) => p \in 1 .. m
                   /\ P[p].ended => p \in 1 .. m /\ opencode.parts[p].ended
        BY <1>7, <1>13, <1>15, <1>18, <1>20
      <4>1. CASE p = m + 1
        BY <1>8, <1>9, <1>11, <1>22, <4>1
      <4>2. CASE p # m + 1
        <5>1. p \in 1 .. m
          BY <1>7, <4>2
        <5> QED BY <1>9, <5>1
      <4> QED BY <4>1, <4>2
    <3>2. opencode'.at # "idle" /\ opencode.at # "idle"
      BY <1>11, <1>13, <1>15
    <3>3. \A p \in bridge.types \cup bridge.closedParts \cup bridge.tools : p \in DOMAIN opencode.parts
      BY <2>2 DEF MemoryInv
    <3>4. EventInv
      BY DEF StreamInv
    <3> QED BY <1>2, <1>7, <1>15, <1>16, <1>17, <1>19, <2>2, <2>6, <3>1, <3>2, <3>3, <3>4, OrderAppends
  <2>8. ReplyInv'
    <3>1. CASE kind \notin TextKinds
      <4>1. \A p \in DOMAIN opencode'.parts : p \notin DOMAIN opencode.parts => opencode'.parts[p].kind \notin TextKinds
        <5> SUFFICES ASSUME NEW p \in 1 .. m + 1, p \notin 1 .. m PROVE P[p].kind \notin TextKinds
          BY <1>7, <1>13, <1>18
        <5>1. p = m + 1
          BY <1>7
        <5> QED BY <1>8, <1>9, <3>1, <5>1
      <4> QED BY <1>7, <1>13, <1>15, <1>17, <1>19, <2>2, <4>1, ReplyKept
    <3>2. CASE kind \in TextKinds
      <4>1. SUFFICES ASSUME NEW c \in bridge.chat, NEW p \in LastRun(P, opencode.turn), Says(c, p) PROVE FALSE
        BY <1>13, <1>15 DEF ReplyInv, Says
      <4>2. PICK e \in DOMAIN P : RunUpTo(P, opencode.turn, p, e)
        BY <4>1 DEF LastRun
      <4>3. p \in 1 .. m + 1 /\ p \in 0 .. m
        BY <1>3, <1>18, <2>2, <4>1 DEF LastRun, ChatInv
      <4>4. p \in 1 .. m
        BY <1>7, <4>3
      <4>5. e = m + 1
        <5>1. TextOf(P, opencode.turn, m + 1)
          BY <1>7, <1>8, <1>9, <1>18, <3>2 DEF TextOf
        <5>2. m + 1 \in DOMAIN P
          BY <1>7, <1>18
        <5>3. m + 1 <= e
          BY <4>2, <5>1, <5>2 DEF RunUpTo
        <5> QED BY <1>7, <1>18, <5>3
      <4>6. \A q \in p .. m : TextOf(P, opencode.turn, q)
        <5>1. \A q \in p .. m : q \in p .. e
          BY <1>7, <4>4, <4>5
        <5> QED BY <4>2, <5>1 DEF RunUpTo
      <4>7. \A q \in p .. m : OfTurn(q) /\ IsText(q)
        <5>1. \A q \in p .. m : q \in 1 .. m /\ P[q] = opencode.parts[q]
          BY <1>7, <1>9, <4>4
        <5> QED BY <1>7, <4>6, <5>1 DEF TextOf, OfTurn, IsText
      <4>8. p \in bridge.closedParts
        <5>1. p \in p .. m /\ p \in DOMAIN opencode.parts
          BY <1>7, <4>4
        <5>2. OfTurn(p)
          BY <4>7, <5>1
        <5> QED BY <2>2, <4>1, <5>1, <5>2 DEF HeardInv
      <4>9. OfTurn(p)
        BY <1>7, <4>4, <4>7
      <4>10. PICK s \in bridge.types : ~IsText(s) /\ p < s
        BY <2>2, <4>8, <4>9 DEF HeardInv
      <4>11. s \in p .. m
        BY <1>7, <2>2, <4>4, <4>10 DEF MemoryInv
      <4> QED BY <4>7, <4>10, <4>11
    <3> QED BY <3>1, <3>2
  <2> QED BY <2>1, <2>2, <2>7, <2>8
<1> QED BY <1>15, <1>17, <1>19, <1>21, <1>23, <1>24, AgentKeeps

(* A step that sends one more event of the parts there are. *)
LEMMA SendKeeps ==
    ASSUME StreamInv, StreamTyped', bridge' = bridge, PartsKept, LastPart' = LastPart,
           opencode'.http = opencode.http, NEW x, Grown(x), stream'.whole => stream.whole,
           x.type # "idle" => x.part \in DOMAIN opencode.parts,
           x.type = "idle" => x.part = 0 /\ opencode'.at = "idle" /\ opencode.at # "text",
           x.type = "delta" => IsText(x.part),
           x.type = "ask" => IsTool(x.part),
           x.type = "part" /\ x.ended => IsTool(x.part),
           AgentInv',
           opencode'.at # "idle" <=> opencode.at # "idle" /\ x.type # "idle",
           opencode.at = "text" => opencode'.at = "text" \/ (x.type = "delta" /\ x.part = LastPart),
           \A p \in DOMAIN opencode.parts : opencode'.parts[p].ended =>
              opencode.parts[p].ended \/ (x.type = "part" /\ x.part = p /\ x.ended),
           stream'.whole /\ x.type # "idle" => OfTurn(x.part),
           stream'.whole /\ x.type \in {"part", "ask"} /\ ~IsText(x.part) =>
              x.part = LastPart \/ (x.type = "part" /\ x.ended /\ opencode.parts[x.part].ended)
    PROVE  StreamInv'
<1>1. /\ StreamTyped /\ EventInv /\ LastPart \in Nat
      /\ DOMAIN opencode.parts = 1 .. LastPart /\ DOMAIN opencode'.parts = 1 .. LastPart
      /\ opencode.parts \in Seq(AgentParts) /\ opencode'.parts \in Seq(AgentParts)
  BY TypedParts, LenProperties DEF StreamInv, StreamTyped, LastPart
<1>2. \A p \in DOMAIN opencode.parts : (IsText(p) <=> IsText(p)') /\ (IsTool(p) <=> IsTool(p)') /\ (OfTurn(p) <=> OfTurn(p)')
  BY <1>1 DEF IsText, IsTool, OfTurn, PartsKept
<1>3. (x.type = "delta" => x.type # "idle") /\ (x.type = "ask" => x.type # "idle") /\ (x.type = "part" => x.type # "idle")
  OBVIOUS
<1>4. EventInv'
  <2>1. /\ x.type # "idle" => x.part \in DOMAIN opencode'.parts
        /\ x.type = "idle" => x.part = 0
        /\ x.type = "delta" => IsText(x.part)'
        /\ x.type = "ask" => IsTool(x.part)'
        /\ x.type = "part" /\ x.ended => IsTool(x.part)'
    BY <1>1, <1>2, <1>3
  <2>2. LastPart <= LastPart' /\ \A p \in DOMAIN opencode.parts : opencode'.parts[p].kind = opencode.parts[p].kind
    BY DEF PartsKept
  <2> QED BY <1>1, <2>1, <2>2, EventsKept
<1>5. PICK N : N = Len(stream.events)
  OBVIOUS
<1>6. N \in Nat /\ (\A k \in 1 .. N : stream'.events[k] = stream.events[k]) /\ stream'.events[N + 1] = x
      /\ DOMAIN stream.events = 1 .. N /\ N + 1 \in 1 .. Len(stream.events) + 1
  BY <1>1, <1>5, TypedEvents DEF Grown
<1>7. ASSUME stream'.whole
      PROVE  /\ stream.whole /\ ReplyInv'
             /\ opencode'.at # "idle" => bridge.open
             /\ bridge.open => TurnOrderInv'
  <2>1. WholeInv /\ stream.whole /\ (opencode'.at # "idle" => bridge.open)
    BY <1>7 DEF StreamInv, WholeInv
  <2>2. ReplyInv'
    <3>1. \A p \in DOMAIN opencode'.parts : p \notin DOMAIN opencode.parts => opencode'.parts[p].kind \notin TextKinds
      BY <1>1
    <3> QED BY <1>1, <2>1, <3>1, ReplyKept DEF WholeInv
  <2>3. ASSUME bridge.open PROVE TurnOrderInv'
    <3>1. TurnOrderInv /\ SentInv /\ HeardInv /\ MemoryInv
      BY <2>1, <2>3 DEF WholeInv, TurnOrderInv
    <3>2. \A q \in 1 .. LastPart : OfTurn(q) /\ ~(opencode.at = "text" /\ q = LastPart) => SentAll(N + 1, q)'
      BY <1>1, <1>2, <1>5, <3>1, AllBefore
    <3>3. \A q \in 1 .. LastPart : OfTurn(q) => SentPart(N + 1, q)' /\ (opencode.parts[q].ended => SentEnd(N + 1, q)')
      BY <1>1, <1>5, <1>6, <3>1, StaysBefore DEF SentInv
    <3>4. x.part = LastPart => InPlace(N + 1, x.part)'
      <4>1. \A q \in bridge.types : q <= LastPart
        BY <1>1, <3>1 DEF MemoryInv
      <4>2. \A k \in 1 .. N : stream.events[k].part <= LastPart
        <5> SUFFICES ASSUME NEW k \in 1 .. N PROVE stream.events[k].part <= LastPart
          OBVIOUS
        <5>1. PICK e : e = stream.events[k]
          OBVIOUS
        <5>2. (e.type # "idle" => e.part \in 1 .. LastPart) /\ (e.type = "idle" => e.part = 0)
          BY <1>1, <1>6, <5>1 DEF EventInv
        <5> QED BY <1>1, <5>1, <5>2
      <4> QED BY <1>6, <4>1, <4>2 DEF InPlace
    <3>5. HeardInOrder(N + 1)'
      <4>1. x.type = "idle" => opencode'.at = "idle" /\ \A q \in DOMAIN opencode'.parts : OfTurn(q)' => SentAll(N + 1, q)'
        BY <1>1, <1>2, <3>2
      <4>2. x.type # "idle" => /\ OfTurn(x.part)'
                               /\ \A q \in DOMAIN opencode'.parts : OfTurn(q)' /\ q < x.part => SentAll(N + 1, q)'
        <5> SUFFICES ASSUME x.type # "idle"
                     PROVE  /\ OfTurn(x.part)'
                            /\ \A q \in DOMAIN opencode'.parts : OfTurn(q)' /\ q < x.part => SentAll(N + 1, q)'
          OBVIOUS
        <5>1. OfTurn(x.part)' /\ x.part \in 1 .. LastPart
          BY <1>1, <1>2, <1>7
        <5>2. \A q \in 1 .. LastPart : q < x.part => q # LastPart
          BY <1>1, <5>1
        <5> QED BY <1>1, <1>2, <3>2, <5>1, <5>2
      <4>3. x.type \in {"delta", "ask"} => SentPart(N + 1, x.part)'
        BY <1>1, <1>3, <1>7, <3>3
      <4>4. x.type \in {"part", "ask"} /\ ~IsText(x.part)' =>
              InPlace(N + 1, x.part)' \/ (x.type = "part" /\ x.ended /\ SentEnd(N + 1, x.part)')
        BY <1>1, <1>2, <1>3, <1>7, <3>3, <3>4
      <4> QED BY <1>6, <4>1, <4>2, <4>3, <4>4 DEF HeardInOrder
    <3>6. \A p \in DOMAIN opencode'.parts : OfTurn(p)' =>
              /\ p \in DOMAIN opencode.parts \/ (x.type = "part" /\ x.part = p)
              /\ IsText(p)' /\ ~(opencode'.at = "text" /\ p = LastPart') =>
                    (p \in DOMAIN opencode.parts /\ ~(opencode.at = "text" /\ p = LastPart)) \/ (x.type = "delta" /\ x.part = p)
              /\ opencode'.parts[p].ended =>
                    (p \in DOMAIN opencode.parts /\ opencode.parts[p].ended) \/ (x.type = "part" /\ x.part = p /\ x.ended)
      BY <1>1
    <3>7. opencode'.at = "idle" => opencode.at = "idle" \/ x.type = "idle"
      OBVIOUS
    <3>8. opencode.at = "idle" => opencode'.at = "idle" /\ LastPart' = LastPart
      OBVIOUS
    <3>9. \A p \in bridge.types \cup bridge.closedParts \cup bridge.tools : p \in DOMAIN opencode.parts
      BY <3>1 DEF MemoryInv
    <3> QED BY <1>1, <1>5, <3>1, <3>5, <3>6, <3>7, <3>8, <3>9, OrderAppends
  <2> QED BY <2>1, <2>2, <2>3
<1> QED BY <1>4, <1>7, AgentKeeps

AgentStates == [turn : Nat, at : {"idle", "working", "text", "said", "tool"},
                http : {"none", "waiting", "answered"}, parts : Seq(AgentParts)]

LEMMA TypedAgent ==
    ASSUME StreamTyped
    PROVE  /\ opencode \in AgentStates /\ bridge \in BridgeStates
           /\ stream \in [events : Seq(AgentEvents), faults : Nat, whole : BOOLEAN]
BY DEF StreamTyped, AgentStates

(* The agent goes on with the parts as they are. *)
LEMMA PartsGoOn ==
    ASSUME StreamTyped, NEW at \in {"idle", "working", "text", "said", "tool"}, opencode' = [opencode EXCEPT !.at = at]
    PROVE  /\ opencode' \in AgentStates /\ opencode'.at = at /\ opencode'.parts = opencode.parts
           /\ opencode'.turn = opencode.turn /\ opencode'.http = opencode.http
           /\ LastPart' = LastPart /\ PartsKept
           /\ \A p : (IsText(p) <=> IsText(p)') /\ (IsTool(p) <=> IsTool(p)') /\ (OfTurn(p) <=> OfTurn(p)')
<1>1. opencode \in AgentStates
  BY TypedAgent
<1>2. /\ opencode' \in AgentStates /\ opencode'.at = at /\ opencode'.parts = opencode.parts
      /\ opencode'.turn = opencode.turn /\ opencode'.http = opencode.http
  BY <1>1 DEF AgentStates
<1>3. LastPart' = LastPart /\ LastPart \in Nat
  BY <1>2, TypedParts DEF LastPart
<1> QED BY <1>2, <1>3 DEF PartsKept, IsText, IsTool, OfTurn

(* The agent's record when only what it does changes. *)
LEMMA AgentGoesOn ==
    ASSUME AgentInv, StreamTyped, opencode'.parts = opencode.parts, opencode'.turn = opencode.turn,
           \A p : (IsText(p) <=> IsText(p)') /\ (IsTool(p) <=> IsTool(p)') /\ (OfTurn(p) <=> OfTurn(p)'),
           opencode.at # "idle",
           opencode'.at \in {"text", "said"} => OfTurn(LastPart) /\ IsText(LastPart),
           opencode'.at = "tool" => OfTurn(LastPart) /\ IsTool(LastPart),
           opencode'.at \in {"idle", "working"} => (OfTurn(LastPart) => ~IsText(LastPart)),
           opencode.at = "tool" => opencode'.at = "tool"
    PROVE  AgentInv'
<1>1. LastPart' = LastPart
  BY DEF LastPart
<1> QED BY <1>1 DEF AgentInv

LEMMA TextArrivesKeeps == ASSUME StreamInv, TextArrives PROVE StreamInv'
<1>0. StreamTyped /\ AgentInv /\ opencode.at = "text" /\ bridge' = bridge
  BY DEF StreamInv, TextArrives
<1>1. PICK m : m = LastPart
  OBVIOUS
<1>2. m \in Nat /\ DOMAIN opencode.parts = 1 .. m
  BY <1>0, <1>1, TypedParts
<1>3. /\ opencode' \in AgentStates /\ opencode'.at = "said" /\ opencode'.parts = opencode.parts
      /\ opencode'.turn = opencode.turn /\ opencode'.http = opencode.http
      /\ LastPart' = LastPart /\ PartsKept
      /\ \A p : (IsText(p) <=> IsText(p)') /\ (IsTool(p) <=> IsTool(p)') /\ (OfTurn(p) <=> OfTurn(p)')
  <2>1. opencode' = [opencode EXCEPT !.at = "said"]
    BY DEF TextArrives
  <2> QED BY <1>0, <2>1, PartsGoOn
<1>4. PICK x : x = [type |-> "delta", part |-> m, ended |-> FALSE]
  OBVIOUS
<1>5. Grown(x) /\ stream'.whole = stream.whole /\ stream' \in [events : Seq(AgentEvents), faults : Nat, whole : BOOLEAN]
  <2>1. Sent("delta", m, FALSE)
    BY <1>1 DEF TextArrives, LastPart
  <2> QED BY <1>0, <1>2, <1>4, <2>1, SentIs
<1>6. x.type = "delta" /\ x.part = m /\ x.ended = FALSE
  BY <1>4
<1>7. StreamTyped'
  BY <1>0, <1>3, <1>5 DEF StreamTyped, AgentStates
<1>8. m \in DOMAIN opencode.parts /\ OfTurn(m) /\ IsText(m)
  BY <1>0, <1>1 DEF AgentInv, OfTurn
<1>9. AgentInv'
  BY <1>0, <1>1, <1>3, <1>8, AgentGoesOn
<1>10. \A p \in DOMAIN opencode.parts : opencode'.parts[p].ended => opencode.parts[p].ended
  BY <1>3
<1> QED BY <1>0, <1>1, <1>3, <1>5, <1>6, <1>7, <1>8, <1>9, <1>10, SendKeeps

LEMMA ToolAsksKeeps == ASSUME StreamInv, ToolAsks PROVE StreamInv'
<1>0. StreamTyped /\ AgentInv /\ opencode.at = "tool" /\ bridge' = bridge /\ opencode' = opencode
  BY DEF StreamInv, ToolAsks
<1>1. PICK m : m = LastPart
  OBVIOUS
<1>2. m \in Nat /\ DOMAIN opencode.parts = 1 .. m
  BY <1>0, <1>1, TypedParts
<1>3. LastPart' = LastPart /\ PartsKept
  BY <1>0, <1>1, <1>2 DEF LastPart, PartsKept
<1>4. PICK x : x = [type |-> "ask", part |-> m, ended |-> FALSE]
  OBVIOUS
<1>5. Grown(x) /\ stream'.whole = stream.whole /\ stream' \in [events : Seq(AgentEvents), faults : Nat, whole : BOOLEAN]
  <2>1. Sent("ask", m, FALSE)
    BY <1>1 DEF ToolAsks, LastPart
  <2> QED BY <1>0, <1>2, <1>4, <2>1, SentIs
<1>6. x.type = "ask" /\ x.part = m /\ x.ended = FALSE
  BY <1>4
<1>7. StreamTyped'
  BY <1>0, <1>5 DEF StreamTyped
<1>8. m \in DOMAIN opencode.parts /\ OfTurn(m) /\ IsTool(m)
  BY <1>0, <1>1 DEF AgentInv, OfTurn
<1>9. AgentInv'
  BY <1>0 DEF AgentInv, OfTurn, IsText, IsTool, LastPart
<1>10. \A p \in DOMAIN opencode.parts : opencode'.parts[p].ended => opencode.parts[p].ended
  BY <1>0
<1> QED BY <1>0, <1>1, <1>3, <1>5, <1>6, <1>7, <1>8, <1>9, <1>10, SendKeeps

LEMMA TurnDoneKeeps == ASSUME StreamInv, TurnDone PROVE StreamInv'
<1>0. StreamTyped /\ AgentInv /\ opencode.at = "working" /\ bridge' = bridge
  BY DEF StreamInv, TurnDone
<1>3. /\ opencode' \in AgentStates /\ opencode'.at = "idle" /\ opencode'.parts = opencode.parts
      /\ opencode'.turn = opencode.turn /\ opencode'.http = opencode.http
      /\ LastPart' = LastPart /\ PartsKept
      /\ \A p : (IsText(p) <=> IsText(p)') /\ (IsTool(p) <=> IsTool(p)') /\ (OfTurn(p) <=> OfTurn(p)')
  <2>1. opencode' = [opencode EXCEPT !.at = "idle"]
    BY DEF TurnDone
  <2> QED BY <1>0, <2>1, PartsGoOn
<1>4. PICK x : x = [type |-> "idle", part |-> 0, ended |-> FALSE]
  OBVIOUS
<1>5. Grown(x) /\ stream'.whole = stream.whole /\ stream' \in [events : Seq(AgentEvents), faults : Nat, whole : BOOLEAN]
  <2>1. Sent("idle", 0, FALSE)
    BY DEF TurnDone
  <2> QED BY <1>0, <1>4, <2>1, SentIs
<1>6. x.type = "idle" /\ x.part = 0 /\ x.ended = FALSE
  BY <1>4
<1>7. StreamTyped'
  BY <1>0, <1>3, <1>5 DEF StreamTyped, AgentStates
<1>8. OfTurn(LastPart) => ~IsText(LastPart)
  BY <1>0 DEF AgentInv
<1>9. AgentInv'
  BY <1>0, <1>3, <1>8, AgentGoesOn
<1>10. \A p \in DOMAIN opencode.parts : opencode'.parts[p].ended => opencode.parts[p].ended
  BY <1>3
<1> QED BY <1>0, <1>3, <1>5, <1>6, <1>7, <1>9, <1>10, SendKeeps

LEMMA ToolEndsKeeps == ASSUME StreamInv, ToolEnds PROVE StreamInv'
<1>0. StreamTyped /\ AgentInv /\ opencode.at = "tool" /\ bridge' = bridge
  BY DEF StreamInv, ToolEnds
<1>1. PICK m : m = LastPart
  OBVIOUS
<1>2. m \in Nat /\ DOMAIN opencode.parts = 1 .. m /\ opencode.parts \in Seq(AgentParts)
  BY <1>0, <1>1, TypedParts
<1>3. m \in DOMAIN opencode.parts /\ OfTurn(m) /\ IsTool(m)
  BY <1>0, <1>1 DEF AgentInv, OfTurn
<1>4. PICK part : part = [opencode.parts[m] EXCEPT !.ended = TRUE]
  OBVIOUS
<1>5. opencode.parts[m] \in AgentParts
  BY <1>0, <1>3, TypedParts
<1>6. part \in AgentParts /\ part.kind = opencode.parts[m].kind /\ part.turn = opencode.parts[m].turn /\ part.ended = TRUE
  BY <1>4, <1>5 DEF AgentParts
<1>7. PICK P : P = [opencode.parts EXCEPT ![m] = part]
  OBVIOUS
<1>8. P \in Seq(AgentParts) /\ Len(P) = m /\ (\A p \in 1 .. m : P[p] = IF p = m THEN part ELSE opencode.parts[p])
  BY <1>1, <1>2, <1>3, <1>6, <1>7 DEF LastPart
<1>9. opencode \in AgentStates
  BY <1>0, TypedAgent
<1>10. opencode' = [opencode EXCEPT !.parts = P, !.at = "working"]
  <2>1. Len(opencode.parts) = m
    BY <1>1 DEF LastPart
  <2>2. opencode' = [opencode EXCEPT !.parts[Len(opencode.parts)].ended = TRUE, !.at = "working"]
    BY DEF ToolEnds
  <2>3. opencode' = [opencode EXCEPT !.parts[m].ended = TRUE, !.at = "working"]
    BY <2>1, <2>2
  <2> QED BY <1>4, <1>7, <1>9, <2>3 DEF AgentStates
<1>11. /\ opencode' \in AgentStates /\ opencode'.parts = P /\ opencode'.at = "working"
       /\ opencode'.turn = opencode.turn /\ opencode'.http = opencode.http
  BY <1>8, <1>9, <1>10 DEF AgentStates
<1>12. LastPart' = LastPart /\ DOMAIN P = 1 .. m
  BY <1>1, <1>8, <1>11, LenProperties DEF LastPart
<1>13. \A p \in 1 .. m : P[p].kind = opencode.parts[p].kind /\ P[p].turn = opencode.parts[p].turn
  BY <1>6, <1>8
<1>14. PartsKept
  BY <1>1, <1>2, <1>11, <1>12, <1>13 DEF PartsKept
<1>15. \A p \in 1 .. m : (IsText(p) <=> IsText(p)') /\ (IsTool(p) <=> IsTool(p)') /\ (OfTurn(p) <=> OfTurn(p)')
  BY <1>2, <1>11, <1>12, <1>13 DEF IsText, IsTool, OfTurn
<1>16. \A p \in 1 .. m : P[p].ended <=> p = m \/ opencode.parts[p].ended
  BY <1>6, <1>8
<1>17. PICK x : x = [type |-> "part", part |-> m, ended |-> TRUE]
  OBVIOUS
<1>18. Grown(x) /\ stream'.whole = stream.whole /\ stream' \in [events : Seq(AgentEvents), faults : Nat, whole : BOOLEAN]
  <2>1. Sent("part", m, TRUE)
    BY <1>1 DEF ToolEnds, LastPart
  <2> QED BY <1>0, <1>2, <1>17, <2>1, SentIs
<1>19. x.type = "part" /\ x.part = m /\ x.ended = TRUE
  BY <1>17
<1>20. StreamTyped'
  BY <1>0, <1>11, <1>18 DEF StreamTyped, AgentStates
<1>21. AgentInv'
  <2>1. \A p, q \in 1 .. m : /\ P[p].turn <= opencode.turn
                             /\ p < q => P[p].turn <= P[q].turn
    BY <1>0, <1>2, <1>13 DEF AgentInv
  <2>2. \A p \in 1 .. m : /\ IsTool(p) => opencode.parts[p].ended \/ p = m
                          /\ ~IsTool(p) => ~opencode.parts[p].ended
    BY <1>0, <1>1, <1>2 DEF AgentInv
  <2>3. \A p \in 1 .. m : (IsTool(p) => P[p].ended) /\ (~IsTool(p) => ~P[p].ended)
    BY <1>3, <1>16, <2>2
  <2>4. opencode.turn # 0
    BY <1>0 DEF AgentInv
  <2>5. ~IsText(m)
    BY <1>3 DEF IsText, IsTool, TextKinds, ToolKinds
  <2>6. DOMAIN opencode'.parts = 1 .. m /\ LastPart' = m
    BY <1>1, <1>11, <1>12
  <2>7. ~IsText(m)'
    BY <1>2, <1>3, <1>15, <2>5
  <2>8. \A p \in 1 .. m : (IsTool(p)' => P[p].ended) /\ (~IsTool(p)' => ~P[p].ended)
    BY <1>15, <2>3
  <2> QED BY <1>11, <2>1, <2>4, <2>6, <2>7, <2>8 DEF AgentInv
<1>22. \A p \in DOMAIN opencode.parts : opencode'.parts[p].ended =>
              opencode.parts[p].ended \/ (x.type = "part" /\ x.part = p /\ x.ended)
  BY <1>2, <1>11, <1>16, <1>19
<1> QED BY <1>0, <1>1, <1>3, <1>11, <1>12, <1>14, <1>18, <1>19, <1>20, <1>21, <1>22, SendKeeps

LEMMA EventRepeatsKeeps == ASSUME StreamInv, EventRepeats PROVE StreamInv'
<1>0. StreamTyped /\ AgentInv /\ bridge' = bridge /\ opencode' = opencode
  BY DEF StreamInv, EventRepeats
<1>1. PICK p \in DOMAIN opencode.parts, type \in {"part", "delta"} :
           /\ type = "delta" => opencode.parts[p].kind \in TextKinds /\ opencode.at # "text"
           /\ stream' = [stream EXCEPT !.faults = @ + 1, !.events = Append(@,
                 [type |-> type, part |-> p, ended |-> opencode.parts[p].ended]),
                 !.whole = @ /\ KnownAgain(p)]
  BY DEF EventRepeats
<1>2. PICK m : m = LastPart
  OBVIOUS
<1>3. m \in Nat /\ DOMAIN opencode.parts = 1 .. m /\ p \in Nat /\ opencode.parts[p].ended \in BOOLEAN
  BY <1>0, <1>2, TypedParts
<1>4. PICK x : x = [type |-> type, part |-> p, ended |-> opencode.parts[p].ended]
  OBVIOUS
<1>5. x \in AgentEvents /\ x.type = type /\ x.part = p /\ x.ended = opencode.parts[p].ended
  BY <1>3, <1>4 DEF AgentEvents
<1>6. PICK events : events = Append(stream.events, x)
  OBVIOUS
<1>7. PICK whole \in BOOLEAN : whole <=> stream.whole /\ KnownAgain(p)
  <2>1. (stream.whole /\ KnownAgain(p)) \in BOOLEAN
    OBVIOUS
  <2> QED BY <2>1
<1>8. stream \in [events : Seq(AgentEvents), faults : Nat, whole : BOOLEAN]
  BY <1>0, TypedAgent
<1>9. stream'.events = events /\ (stream'.whole <=> stream.whole /\ KnownAgain(p)) /\ stream'.faults = stream.faults + 1
      /\ stream' = [events |-> stream'.events, faults |-> stream'.faults, whole |-> stream'.whole]
      /\ stream'.whole \in BOOLEAN
  <2>1. stream' = [stream EXCEPT !.faults = stream.faults + 1, !.events = events,
                                 !.whole = stream.whole /\ KnownAgain(p)]
    BY <1>1, <1>4, <1>6
  <2>2. stream'.events = events /\ stream'.whole = (stream.whole /\ KnownAgain(p)) /\ stream'.faults = stream.faults + 1
        /\ stream' = [events |-> stream'.events, faults |-> stream'.faults, whole |-> stream'.whole]
    BY <1>8, <2>1, Zenon
  <2> QED BY <2>2, Zenon
<1>10. Grown(x) /\ stream'.events \in Seq(AgentEvents)
  BY <1>0, <1>5, <1>6, <1>9, AppendGrows
<1>11. stream' \in [events : Seq(AgentEvents), faults : Nat, whole : BOOLEAN]
  <2>1. stream'.faults \in Nat
    BY <1>8, <1>9
  <2> QED BY <1>9, <1>10, <2>1
<1>12. StreamTyped'
  BY <1>0, <1>11 DEF StreamTyped
<1>13. LastPart' = LastPart /\ PartsKept
  BY <1>0, <1>2, <1>3 DEF LastPart, PartsKept
<1>14. AgentInv'
  BY <1>0 DEF AgentInv, OfTurn, IsText, IsTool, LastPart
<1>15. (x.type = "delta" => IsText(p)) /\ (x.ended => IsTool(p))
  BY <1>0, <1>1, <1>5 DEF AgentInv, IsText
<1>16. KnownAgain(p) => OfTurn(p)
  BY DEF KnownAgain, OfTurn
<1>17. KnownAgain(p) /\ ~IsText(p) => p = LastPart \/ opencode.parts[p].ended
  BY <1>0 DEF KnownAgain, AgentInv, IsText, IsTool, LastPart
<1>18. x.type \in {"part", "delta"}
  BY <1>1, <1>5
<1>19. stream'.whole => stream.whole
  BY <1>9
<1>20. stream'.whole /\ x.type \in {"part", "ask"} /\ ~IsText(x.part) =>
              x.part = LastPart \/ (x.type = "part" /\ x.ended /\ opencode.parts[x.part].ended)
  BY <1>5, <1>9, <1>17, <1>18
<1>21. stream'.whole => OfTurn(x.part)
  BY <1>5, <1>9, <1>16
<1>22. x.part \in DOMAIN opencode.parts /\ (x.type = "delta" => IsText(x.part)) /\ (x.ended => IsTool(x.part))
  BY <1>5, <1>15
<1>23. opencode'.at = opencode.at /\ x.type # "idle" /\ x.type # "ask"
  BY <1>0, <1>18
<1>24. \A q \in DOMAIN opencode.parts : opencode'.parts[q].ended => opencode.parts[q].ended
  BY <1>0
<1>25. opencode.at = "text" => opencode'.at = "text"
  BY <1>0
<1>26. opencode'.http = opencode.http
  BY <1>0
<1> QED BY <1>0, <1>10, <1>12, <1>13, <1>14, <1>19, <1>20, <1>21, <1>22, <1>23, <1>24, <1>25, <1>26, SendKeeps

(* Cards say nothing of the agent's words. *)
LEMMA CardSays ==
    ASSUME NEW c, c.text \in CardTexts
    PROVE  ToSet(c.text) \subseteq {EndMark} /\ \A p : Says(c, p) => p = 0
<1>1. CASE c.text = <<>>
  <2>1. DOMAIN c.text = {}
    BY <1>1
  <2> QED BY <2>1 DEF ToSet, Says
<1>2. CASE c.text = <<EndMark>>
  <2>1. \A i \in DOMAIN c.text : c.text[i] = EndMark
    BY <1>2
  <2>2. EndMark[1] = 0
    BY DEF EndMark
  <2> QED BY <2>1, <2>2 DEF ToSet, Says
<1> QED BY <1>1, <1>2 DEF CardTexts

LEMMA OnlyCards ==
    ASSUME TextShownOnce, stream'.whole => stream.whole,
           \A c \in bridge'.chat : c \in bridge.chat \/ c.text \in CardTexts
    PROVE  TextShownOnce'
<1> SUFFICES ASSUME stream'.whole, NEW c \in bridge'.chat, NEW d \in bridge'.chat, c # d
             PROVE  ToSet(c.text) \cap ToSet(d.text) \subseteq {EndMark}
  BY DEF TextShownOnce, EndMark
<1>1. CASE c \in bridge.chat /\ d \in bridge.chat
  BY <1>1 DEF TextShownOnce
<1>2. CASE c.text \in CardTexts
  BY <1>2, CardSays
<1>3. CASE d.text \in CardTexts
  BY <1>3, CardSays
<1> QED BY <1>1, <1>2, <1>3

(* Order is of what is known and of the events. *)
LEMMA OrderSame ==
    ASSUME TurnOrderInv, opencode' = opencode, stream' = stream, bridge'.types = bridge.types,
           bridge'.closedParts = bridge.closedParts, bridge'.deltas = bridge.deltas, bridge'.tools = bridge.tools
    PROVE  TurnOrderInv'
<1>1. \A i, q : (SentPart(i, q) => SentPart(i, q)') /\ (SentWords(i, q) => SentWords(i, q)') /\ (SentEnd(i, q) => SentEnd(i, q)')
  BY DEF SentPart, SentWords, SentEnd, PartEvent, DeltaEvent, EndEvent
<1>2. \A q : (IsText(q) <=> IsText(q)') /\ (OfTurn(q) <=> OfTurn(q)')
  BY DEF IsText, OfTurn
<1>3. \A i, q : (SentAll(i, q) => SentAll(i, q)') /\ (InPlace(i, q) => InPlace(i, q)')
  BY <1>1, <1>2 DEF SentAll, InPlace
<1>4. SentInv'
  BY <1>1, <1>2 DEF TurnOrderInv, SentInv, LastPart
<1>5. ASSUME NEW i \in DOMAIN stream.events PROVE HeardInOrder(i)'
  <2>1. HeardInOrder(i)
    BY DEF TurnOrderInv
  <2> QED BY <1>1, <1>2, <1>3, <2>1 DEF HeardInOrder
<1> QED BY <1>2, <1>4, <1>5 DEF TurnOrderInv

LEMMA LinkReadyKeeps == ASSUME StreamInv, LinkReady PROVE StreamInv'
<1>0. StreamTyped /\ bridge \in BridgeStates /\ opencode' = opencode /\ stream' = stream
  BY TypedAgent DEF StreamInv, LinkReady
<1>1. PICK p \in bridge.links : bridge' = Put([bridge EXCEPT !.links = @ \ {p}], Key("file", p), <<>>)
  BY DEF LinkReady
<1>2. PICK l : l = bridge.links \ {p}
  OBVIOUS
<1>3. PICK b : b = [bridge EXCEPT !.links = l]
  OBVIOUS
<1>4. l \in SUBSET Nat /\ p \in Nat
  BY <1>0, <1>1, <1>2 DEF BridgeStates
<1>5. b \in BridgeStates
  BY <1>0, <1>3, <1>4 DEF BridgeStates
<1>6. SameTexts(bridge, b) /\ SameTalk(bridge, b) /\ SameMood(bridge, b)
  BY <1>0, <1>3 DEF BridgeStates, SameTexts, SameTalk, SameMood
<1>7. PICK t : t = <<>>
  OBVIOUS
<1>8. t \in Seq(WordsOfParts) /\ t \in CardTexts
  BY <1>7 DEF CardTexts
<1>9. PICK k : k = Key("file", p)
  OBVIOUS
<1>10. k \in [kind : {"plain", "commentary", "reply", "bash", "todo", "ask", "file"}, n : Nat]
  BY <1>4, <1>9 DEF Key
<1>11. bridge' = Put(b, k, t)
  BY <1>1, <1>2, <1>3, <1>7, <1>9
<1>12. /\ bridge' \in BridgeStates /\ SameTexts(b, bridge') /\ SameMood(b, bridge')
       /\ bridge'.reply = b.reply /\ bridge'.comment = b.comment /\ bridge'.recent = b.recent
       /\ bridge'.chat = {c \in b.chat : c.key # k} \cup {[key |-> k, text |-> t]}
  BY <1>5, <1>8, <1>10, <1>11, PutIs
<1>13. \A c \in bridge'.chat : c \in bridge.chat \/ c.text \in CardTexts
  BY <1>6, <1>8, <1>12 DEF SameTalk
<1>14. /\ bridge'.text = bridge.text /\ bridge'.types = bridge.types /\ bridge'.deltas = bridge.deltas
       /\ bridge'.openParts = bridge.openParts /\ bridge'.closedParts = bridge.closedParts /\ bridge'.tools = bridge.tools
       /\ bridge'.reply = bridge.reply /\ bridge'.comment = bridge.comment /\ bridge'.recent = bridge.recent
       /\ bridge'.open = bridge.open /\ bridge'.thinking = bridge.thinking /\ bridge'.typing = bridge.typing
  BY <1>6, <1>12 DEF SameTexts, SameTalk, SameMood
<1>15. TextShownOnce'
  BY <1>0, <1>13, OnlyCards DEF StreamInv
<1>16. StreamTyped'
  BY <1>0, <1>12 DEF StreamTyped
<1>17. AgentInv' /\ EventInv' /\ IndicatorInv'
  BY <1>0, <1>14 DEF StreamInv, AgentInv, EventInv, IndicatorInv, OfTurn, IsText, IsTool, LastPart
<1>18. \A q : \A c \in bridge'.chat : Says(c, q) => c \in bridge.chat \/ q = 0
  BY <1>13, CardSays
<1>19. DOMAIN opencode.parts = 1 .. LastPart /\ LastPart \in Nat
  BY <1>0, TypedParts
<1>20. ASSUME stream'.whole PROVE WholeInv'
  <2>1. WholeInv
    BY <1>0, <1>20 DEF StreamInv
  <2>2. MemoryInv'
    <3>1. MemoryInv
      BY <2>1 DEF WholeInv
    <3> QED BY <1>0, <1>14, <3>1, Zenon DEF MemoryInv, IsText
  <2>3. ChatInv'
    <3>1. ASSUME NEW c \in bridge'.chat, NEW q, Says(c, q) PROVE q \in 0 .. LastPart
      BY <1>18, <1>19, <2>1, <3>1 DEF WholeInv, ChatInv
    <3> QED BY <1>0, <3>1 DEF ChatInv, LastPart, Says
  <2>4. (opencode.at # "idle" => bridge.open)'
    BY <1>0, <1>14, <2>1 DEF WholeInv
  <2>5. ASSUME bridge'.open PROVE TurnOrderInv' /\ HeardInv'
    <3>1. TurnOrderInv /\ HeardInv
      BY <1>14, <2>1, <2>5 DEF WholeInv
    <3>2. TurnOrderInv'
      BY <1>0, <1>14, <3>1, OrderSame
    <3>3. (\A c \in bridge.chat, q \in DOMAIN opencode.parts : OfTurn(q) /\ Says(c, q) => q \in bridge.closedParts)'
      <4> SUFFICES ASSUME NEW c \in bridge'.chat, NEW q \in DOMAIN opencode.parts, OfTurn(q), Says(c, q)
                   PROVE  q \in bridge.closedParts
        BY <1>0, <1>14 DEF OfTurn, Says
      <4>1. q # 0
        BY <1>19
      <4> QED BY <1>18, <3>1, <4>1 DEF HeardInv
    <3>4. HeardInv'
      BY <1>0, <1>14, <3>1, <3>3 DEF HeardInv, OfTurn, IsText, Flat, WordsIn
    <3> QED BY <3>2, <3>4
  <2>6. ReplyInv'
    <3> SUFFICES ASSUME opencode.http = "waiting", NEW c \in bridge'.chat,
                        NEW q \in LastRun(opencode.parts, opencode.turn), Says(c, q)
                 PROVE  /\ bridge'.recent.n # 0 /\ c.key = Key("commentary", bridge'.recent.n)
                        /\ bridge'.recent.text = Flat(opencode.parts, LastRun(opencode.parts, opencode.turn))
      BY <1>0 DEF ReplyInv, Says, Key
    <3>1. q # 0
      BY <1>19 DEF LastRun
    <3>2. c \in bridge.chat
      BY <1>18, <3>1
    <3> QED BY <1>14, <2>1, <3>2 DEF WholeInv, ReplyInv
  <2> QED BY <2>2, <2>3, <2>4, <2>5, <2>6 DEF WholeInv
<1> QED BY <1>15, <1>16, <1>17, <1>20 DEF StreamInv

LEMMA StreamBreaksKeeps == ASSUME StreamInv, StreamBreaks PROVE StreamInv'
<1>0. StreamTyped /\ opencode' = opencode /\ bridge' = bridge
  BY DEF StreamInv, StreamBreaks
<1>1. stream \in [events : Seq(AgentEvents), faults : Nat, whole : BOOLEAN]
  BY <1>0, TypedAgent
<1>2. PICK t : t = <<>>
  OBVIOUS
<1>3. t \in Seq(AgentEvents) /\ DOMAIN t = {}
  BY <1>2
<1>4. stream' = [stream EXCEPT !.events = t, !.faults = @ + 1, !.whole = FALSE]
  BY <1>2 DEF StreamBreaks
<1>5. stream' \in [events : Seq(AgentEvents), faults : Nat, whole : BOOLEAN] /\ stream'.events = t /\ stream'.whole = FALSE
  <2>1. PICK f : f = stream.faults + 1
    OBVIOUS
  <2>2. f \in Nat /\ stream' = [stream EXCEPT !.events = t, !.faults = f, !.whole = FALSE]
    BY <1>1, <1>4, <2>1
  <2> QED BY <1>1, <1>3, <2>2
<1>6. StreamTyped'
  BY <1>0, <1>5 DEF StreamTyped
<1>7. EventInv'
  BY <1>3, <1>5 DEF EventInv
<1>8. AgentInv' /\ IndicatorInv'
  BY <1>0 DEF StreamInv, AgentInv, IndicatorInv, OfTurn, IsText, IsTool, LastPart
<1>9. TextShownOnce'
  BY <1>5 DEF TextShownOnce
<1> QED BY <1>5, <1>6, <1>7, <1>8, <1>9 DEF StreamInv

(* Before a turn starts the bridge holds nothing of the last one. *)
LEMMA NothingHeld ==
    ASSUME StreamInv, stream.whole, stream.events = <<>>, opencode.at = "idle"
    PROVE  bridge.types = {} /\ bridge.text = <<>> /\ bridge.deltas = {} /\ bridge.openParts = {}
<1>1. StreamTyped /\ WholeInv /\ MemoryInv /\ AgentInv
  BY DEF StreamInv, WholeInv
<1>2. CASE ~bridge.open
  BY <1>1, <1>2 DEF MemoryInv
<1>3. CASE bridge.open
  <2>1. TurnOrderInv /\ HeardInv /\ SentInv
    BY <1>1, <1>3 DEF WholeInv, TurnOrderInv
  <2>2. DOMAIN stream.events = {}
    OBVIOUS
  <2>3. opencode.turn = 0
    BY <2>1, <2>2 DEF SentInv
  <2>4. DOMAIN opencode.parts = {}
    BY <1>1, <2>3 DEF AgentInv
  <2>5. bridge.types = {} /\ bridge.openParts = {} /\ bridge.deltas = {}
    BY <1>1, <2>4 DEF MemoryInv
  <2>6. bridge.text = <<>>
    BY <1>1, <2>1, <2>5, TypedParts, FlatOfNone DEF HeardInv
  <2> QED BY <2>5, <2>6
<1> QED BY <1>2, <1>3

LEMMA TurnStartedKeeps == ASSUME StreamInv, TurnStarted PROVE StreamInv'
<1>0. /\ StreamTyped /\ AgentInv /\ bridge \in BridgeStates /\ opencode \in AgentStates
      /\ stream \in [events : Seq(AgentEvents), faults : Nat, whole : BOOLEAN] /\ opencode.at = "idle"
  BY TypedAgent DEF StreamInv, TurnStarted
<1>1. PICK t : t = opencode.turn + 1
  OBVIOUS
<1>2. /\ DOMAIN opencode.parts = 1 .. LastPart /\ LastPart \in Nat /\ opencode.turn \in Nat /\ t \in Nat
      /\ opencode.parts \in Seq(AgentParts)
  BY <1>0, <1>1, TypedParts
<1>3. opencode' = [opencode EXCEPT !.turn = t, !.at = "working", !.http = "waiting"]
  BY <1>1 DEF TurnStarted
<1>4. /\ opencode' \in AgentStates /\ opencode'.turn = t /\ opencode'.at = "working" /\ opencode'.http = "waiting"
      /\ opencode'.parts = opencode.parts
  BY <1>0, <1>2, <1>3 DEF AgentStates
<1>5. PICK w \in BOOLEAN : w = (stream.whole /\ stream.events = <<>>)
  <2>1. (stream.whole /\ stream.events = <<>>) \in BOOLEAN
    OBVIOUS
  <2> QED BY <2>1
<1>6. stream' = [stream EXCEPT !.whole = w]
  BY <1>5 DEF TurnStarted
<1>7. /\ stream' \in [events : Seq(AgentEvents), faults : Nat, whole : BOOLEAN]
      /\ stream'.events = stream.events /\ stream'.whole = w
  BY <1>0, <1>6, Zenon
<1>8. stream'.whole => stream.whole /\ stream.events = <<>>
  BY <1>5, <1>7, Zenon
<1>9. bridge' = [bridge EXCEPT !.open = TRUE, !.meta = TRUE, !.todo = {}]
  BY DEF TurnStarted
<1>10. bridge' \in BridgeStates
  BY <1>0, <1>9 DEF BridgeStates
<1>11. /\ bridge'.text = bridge.text /\ bridge'.types = bridge.types /\ bridge'.deltas = bridge.deltas
       /\ bridge'.openParts = bridge.openParts /\ bridge'.closedParts = bridge.closedParts /\ bridge'.tools = bridge.tools
       /\ bridge'.reply = bridge.reply /\ bridge'.comment = bridge.comment
       /\ bridge'.open = TRUE /\ bridge'.thinking = bridge.thinking /\ bridge'.typing = bridge.typing
       /\ bridge'.chat = bridge.chat
  BY <1>0, <1>9 DEF BridgeStates
<1>12. StreamTyped'
  BY <1>4, <1>7, <1>10 DEF StreamTyped, AgentStates
<1>13. LastPart' = LastPart /\ \A p : (IsText(p) <=> IsText(p)') /\ (IsTool(p) <=> IsTool(p)')
  BY <1>4 DEF LastPart, IsText, IsTool
<1>14. \A p \in 1 .. LastPart : opencode.parts[p].turn \in Nat /\ opencode.parts[p].turn <= opencode.turn
  BY <1>0, <1>2, TypedParts DEF AgentInv
<1>15. \A p : ~OfTurn(p)'
  <2> SUFFICES ASSUME NEW p \in 1 .. LastPart, opencode.parts[p].turn = t PROVE FALSE
    BY <1>2, <1>4 DEF OfTurn
  <2> QED BY <1>1, <1>2, <1>14
<1>16. AgentInv'
  <2>1. \A p \in 1 .. LastPart : opencode.parts[p].turn <= t
    BY <1>1, <1>2, <1>14
  <2>2. t # 0
    BY <1>1, <1>2
  <2>3. \A p \in DOMAIN opencode.parts : (IsTool(p) => opencode.parts[p].ended) /\ (~IsTool(p) => ~opencode.parts[p].ended)
    BY <1>0 DEF AgentInv
  <2>4. \A p, q \in DOMAIN opencode.parts : p < q => opencode.parts[p].turn <= opencode.parts[q].turn
    BY <1>0 DEF AgentInv
  <2>5. ~OfTurn(LastPart)'
    BY <1>13, <1>15
  <2> QED BY <1>2, <1>4, <1>13, <2>1, <2>2, <2>3, <2>4, <2>5 DEF AgentInv
<1>17. EventInv' /\ IndicatorInv'
  BY <1>4, <1>7, <1>11, <1>13 DEF StreamInv, EventInv, IndicatorInv
<1>18. TextShownOnce'
  BY <1>8, <1>11 DEF StreamInv, TextShownOnce
<1>19. ASSUME stream'.whole PROVE WholeInv'
  <2>1. WholeInv /\ MemoryInv /\ ChatInv
    BY <1>8, <1>19 DEF StreamInv, WholeInv
  <2>2. bridge.types = {} /\ bridge.text = <<>> /\ bridge.deltas = {} /\ bridge.openParts = {}
    BY <1>0, <1>8, <1>19, NothingHeld
  <2>3. MemoryInv'
    BY <1>4, <1>11, <1>13, <2>1, <2>2 DEF MemoryInv
  <2>4. ChatInv'
    BY <1>11, <1>13, <2>1 DEF ChatInv, Says
  <2>5. TurnOrderInv'
    <3>1. DOMAIN stream'.events = {}
      BY <1>7, <1>8, <1>19
    <3> QED BY <1>4, <1>11, <1>15, <2>2, <3>1 DEF TurnOrderInv, SentInv
  <2>6. HeardInv'
    <3>1. bridge'.text = Flat(opencode'.parts, bridge'.deltas)
      BY <1>2, <1>4, <1>11, <2>2, FlatOfNone
    <3> QED BY <1>11, <1>15, <2>2, <3>1 DEF HeardInv
  <2>7. ReplyInv'
    <3>1. \A p : ~TextOf(opencode.parts, t, p)
      BY <1>1, <1>2, <1>14 DEF TextOf
    <3>2. LastRun(opencode.parts, t) = {}
      <4> SUFFICES ASSUME NEW p \in DOMAIN opencode.parts, NEW e \in DOMAIN opencode.parts,
                          RunUpTo(opencode.parts, t, p, e)
                   PROVE  FALSE
        BY DEF LastRun
      <4>1. p \in p .. e
        BY <1>2 DEF RunUpTo
      <4> QED BY <3>1, <4>1 DEF RunUpTo
    <3> QED BY <1>4, <3>2 DEF ReplyInv
  <2> QED BY <1>11, <2>3, <2>4, <2>5, <2>6, <2>7 DEF WholeInv
<1> QED BY <1>12, <1>16, <1>17, <1>18, <1>19 DEF StreamInv

(* The agent's record when its answer went back. *)
LEMMA AnswerLeaves ==
    ASSUME StreamTyped, AgentInv, EventInv, opencode' = [opencode EXCEPT !.http = "answered"], stream' = stream
    PROVE  /\ opencode' \in AgentStates /\ opencode'.http = "answered" /\ opencode'.at = opencode.at
           /\ opencode'.turn = opencode.turn /\ opencode'.parts = opencode.parts /\ LastPart' = LastPart
           /\ AgentInv' /\ EventInv'
           /\ \A p : (IsText(p) <=> IsText(p)') /\ (OfTurn(p) <=> OfTurn(p)')
<1>1. opencode \in AgentStates
  BY TypedAgent
<1>2. /\ opencode' \in AgentStates /\ opencode'.http = "answered" /\ opencode'.at = opencode.at
      /\ opencode'.turn = opencode.turn /\ opencode'.parts = opencode.parts
  BY <1>1 DEF AgentStates
<1>3. LastPart' = LastPart /\ \A p : (IsText(p) <=> IsText(p)') /\ (IsTool(p) <=> IsTool(p)') /\ (OfTurn(p) <=> OfTurn(p)')
  BY <1>2 DEF LastPart, IsText, IsTool, OfTurn
<1>4. AgentInv' /\ EventInv'
  BY <1>2 DEF AgentInv, EventInv, OfTurn, IsText, IsTool, LastPart
<1> QED BY <1>2, <1>3, <1>4

(* An answer without a text, or a request that failed. *)
LEMMA SilentAnswer ==
    ASSUME StreamInv, opencode' = [opencode EXCEPT !.http = "answered"], stream' = stream, bridge' = bridge
    PROVE  StreamInv'
<1>0. StreamTyped /\ AgentInv /\ EventInv
  BY DEF StreamInv
<1>1. /\ opencode' \in AgentStates /\ opencode'.http = "answered" /\ opencode'.at = opencode.at
      /\ opencode'.turn = opencode.turn /\ opencode'.parts = opencode.parts /\ LastPart' = LastPart
      /\ AgentInv' /\ EventInv'
      /\ \A p : (IsText(p) <=> IsText(p)') /\ (OfTurn(p) <=> OfTurn(p)')
  BY <1>0, AnswerLeaves
<1>2. StreamTyped'
  BY <1>0, <1>1 DEF StreamTyped, AgentStates
<1>3. IndicatorInv' /\ TextShownOnce'
  BY DEF StreamInv, IndicatorInv, TextShownOnce
<1>4. ASSUME stream'.whole PROVE WholeInv'
  <2>1. WholeInv
    BY <1>4 DEF StreamInv
  <2>2. MemoryInv'
    BY <1>1, <2>1 DEF WholeInv, MemoryInv
  <2>3. ChatInv'
    BY <1>1, <2>1 DEF WholeInv, ChatInv, Says
  <2>4. bridge'.open => TurnOrderInv'
    <3>1. \A i, q : (SentPart(i, q) => SentPart(i, q)') /\ (SentWords(i, q) => SentWords(i, q)') /\ (SentEnd(i, q) => SentEnd(i, q)')
      BY DEF SentPart, SentWords, SentEnd, PartEvent, DeltaEvent, EndEvent
    <3>2. \A i, q : (SentAll(i, q) => SentAll(i, q)') /\ (InPlace(i, q) => InPlace(i, q)')
      BY <1>1, <3>1 DEF SentAll, InPlace
    <3>3. SUFFICES ASSUME TurnOrderInv PROVE TurnOrderInv'
      BY <2>1 DEF WholeInv
    <3>4. SentInv'
      BY <1>1, <3>1, <3>3 DEF TurnOrderInv, SentInv
    <3>5. ASSUME NEW i \in DOMAIN stream.events PROVE HeardInOrder(i)'
      <4>1. HeardInOrder(i)
        BY <3>3 DEF TurnOrderInv
      <4> QED BY <1>1, <3>1, <3>2, <4>1 DEF HeardInOrder
    <3> QED BY <1>1, <3>3, <3>4, <3>5 DEF TurnOrderInv
  <2>5. bridge'.open => HeardInv'
    BY <1>1, <2>1 DEF WholeInv, HeardInv, Says
  <2>6. ReplyInv'
    BY <1>1 DEF ReplyInv
  <2> QED BY <1>1, <2>1, <2>2, <2>3, <2>4, <2>5, <2>6 DEF WholeInv
<1> QED BY <1>1, <1>2, <1>3, <1>4 DEF StreamInv

LEMMA HttpFailedKeeps == ASSUME StreamInv, HttpFailed PROVE StreamInv'
BY SilentAnswer DEF HttpFailed

(* The final reply in the chat: no bubble it leaves says its words.        *)
LEMMA ReplyOnce ==
    ASSUME StreamTyped, AgentInv, ReplyInv, opencode.http = "waiting", FinalText # <<>>,
           \A c, d \in bridge.chat : c # d => ToSet(c.text) \cap ToSet(d.text) \subseteq {EndMark},
           NEW r, r = TextReplied(bridge, FinalText)
    PROVE  /\ \A c, d \in r.chat : c # d => ToSet(c.text) \cap ToSet(d.text) \subseteq {EndMark}
           /\ \A p : \A c \in r.chat : Says(c, p) => p \in DOMAIN opencode.parts \/ \E d \in bridge.chat : Says(d, p)
<1>1. PICK R : R = LastRun(opencode.parts, opencode.turn)
  OBVIOUS
<1>2. PICK T : T = FinalText
  OBVIOUS
<1>3. opencode.parts \in Seq(AgentParts) /\ bridge \in BridgeStates
  BY TypedParts, TypedAgent
<1>4. T = Flat(opencode.parts, R) /\ T # <<>>
  BY <1>1, <1>2, FinalIsLastRun
<1>5. /\ T \in Seq(WordsOfParts)
      /\ \A a \in DOMAIN T : T[a][1] \in R /\ T[a][1] \in DOMAIN opencode.parts
      /\ \A a, b \in DOMAIN T : T[a] = T[b] => a = b
  BY <1>3, <1>4, FlatOfParts
<1> DEFINE C == Chunks(T)
<1>7. /\ \A i \in DOMAIN C : \A k \in DOMAIN C[i] : \E a \in DOMAIN T : C[i][k] = T[a]
      /\ \A i, j \in DOMAIN C : \A k \in DOMAIN C[i], l \in DOMAIN C[j] : C[i][k] = C[j][l] => i = j
  <2>1. T \in Seq(WordsOfParts) /\ T # <<>>
    BY <1>4, <1>5
  <2>2. \A a, b \in DOMAIN T : T[a] = T[b] => a = b
    BY <1>5
  <2> QED BY <2>1, <2>2, ChunksOfText, Zenon
<1> HIDE DEF C
<1>8. \A i \in DOMAIN C : \A k \in DOMAIN C[i] : C[i][k][1] \in R /\ C[i][k][1] \in DOMAIN opencode.parts
  BY <1>5, <1>7
<1>9. /\ \A c \in r.chat :
            \/ c \in bridge.chat
               /\ (bridge.recent.n # 0 /\ bridge.recent.text = T => c.key # Key("commentary", bridge.recent.n))
            \/ \E i \in DOMAIN C : c.text = C[i]
      /\ \A c, e \in r.chat : \A i \in DOMAIN C :
            c.text = C[i] /\ e.text = C[i] /\ NewOrSame(bridge, T, c) /\ NewOrSame(bridge, T, e)
               => c = e \/ \E j \in DOMAIN C : i # j /\ C[j] = C[i]
  <2>1. r = TextReplied(bridge, T) /\ T \in Seq(WordsOfParts) /\ T # <<>>
    BY <1>2, <1>4, <1>5
  <2>2. PICK b : b = bridge
    OBVIOUS
  <2>3. b \in BridgeStates /\ r = TextReplied(b, T)
    BY <1>3, <2>1, <2>2
  <2>5. /\ \A c \in TextReplied(b, T).chat :
              \/ c \in b.chat
                 /\ (b.recent.n # 0 /\ b.recent.text = T => c.key # Key("commentary", b.recent.n))
              \/ \E i \in DOMAIN Chunks(T) : c.text = Chunks(T)[i]
        /\ \A c, e \in TextReplied(b, T).chat : \A i \in DOMAIN Chunks(T) :
              c.text = Chunks(T)[i] /\ e.text = Chunks(T)[i] /\ NewOrSame(b, T, c) /\ NewOrSame(b, T, e)
                 => c = e \/ \E j \in DOMAIN Chunks(T) : i # j /\ Chunks(T)[j] = Chunks(T)[i]
    BY <2>1, <2>3, RepliedIs
  <2>4. /\ \A c \in r.chat :
              \/ c \in b.chat
                 /\ (b.recent.n # 0 /\ b.recent.text = T => c.key # Key("commentary", b.recent.n))
              \/ \E i \in DOMAIN C : c.text = C[i]
        /\ \A c, e \in r.chat : \A i \in DOMAIN C :
              c.text = C[i] /\ e.text = C[i] /\ NewOrSame(b, T, c) /\ NewOrSame(b, T, e)
                 => c = e \/ \E j \in DOMAIN C : i # j /\ C[j] = C[i]
    BY <2>3, <2>5 DEF C
  <2> QED BY <2>2, <2>4
<1>10. \A c \in bridge.chat, p \in R : Says(c, p) => NewOrSame(bridge, T, c) /\ bridge.recent.n # 0
                                                     /\ bridge.recent.text = T /\ c.key = Key("commentary", bridge.recent.n)
  BY <1>1, <1>4 DEF ReplyInv, NewOrSame
<1>11. \A c : c \notin bridge.chat => NewOrSame(bridge, T, c)
  BY DEF NewOrSame
<1>12. \A c : \A w \in ToSet(c.text) : Says(c, w[1])
  BY DEF ToSet, Says
<1>13. \A i \in DOMAIN C : \A w \in ToSet(C[i]) : w[1] \in R
  BY <1>8 DEF ToSet
<1>14. \A i, j \in DOMAIN C : \A w \in ToSet(C[i]) : w \in ToSet(C[j]) => i = j
  BY <1>7 DEF ToSet
<1>15. ASSUME NEW c \in r.chat, NEW d \in r.chat, c # d, NEW w \in ToSet(c.text), w \in ToSet(d.text)
       PROVE  w = EndMark
  <2> DEFINE WasThere(x) == x \in bridge.chat
               /\ (bridge.recent.n # 0 /\ bridge.recent.text = T => x.key # Key("commentary", bridge.recent.n))
             IsNew(x) == \E i \in DOMAIN C : x.text = C[i]
  <2>1. (WasThere(c) \/ IsNew(c)) /\ (WasThere(d) \/ IsNew(d))
    BY <1>9
  <2>2. \A x : WasThere(x) /\ w \in ToSet(x.text) => w[1] \notin R
    BY <1>10, <1>12
  <2>3. \A x : IsNew(x) /\ w \in ToSet(x.text) => w[1] \in R
    <3> SUFFICES ASSUME NEW x, IsNew(x), w \in ToSet(x.text) PROVE w[1] \in R
      OBVIOUS
    <3>1. PICK i \in DOMAIN C : x.text = C[i]
      OBVIOUS
    <3>2. w \in ToSet(C[i])
      BY <3>1
    <3> QED BY <1>13, <3>2
  <2>4. CASE WasThere(c) /\ WasThere(d)
    <3>1. c \in bridge.chat /\ d \in bridge.chat
      BY <2>4
    <3>2. w \in ToSet(c.text) \cap ToSet(d.text)
      BY <1>15
    <3> QED BY <1>15, <3>1, <3>2
  <2>5. CASE IsNew(c) /\ IsNew(d)
    <3>1. PICK i \in DOMAIN C : c.text = C[i]
      BY <2>5
    <3>2. PICK j \in DOMAIN C : d.text = C[j]
      BY <2>5
    <3>3. i = j
      BY <1>14, <1>15, <3>1, <3>2
    <3>4. NewOrSame(bridge, T, c) /\ NewOrSame(bridge, T, d)
      BY <1>10, <1>11, <1>12, <1>13, <1>15, <3>1, <3>2
    <3>5. PICK k \in DOMAIN C : i # k /\ C[k] = C[i]
      BY <1>9, <1>15, <3>1, <3>2, <3>3, <3>4
    <3> QED BY <1>14, <1>15, <3>1, <3>5
  <2>6. w \in ToSet(c.text) /\ w \in ToSet(d.text)
    BY <1>15
  <2> HIDE DEF WasThere, IsNew
  <2> QED BY <2>1, <2>2, <2>3, <2>4, <2>5, <2>6
<1>16. \A c, d \in r.chat : c # d => ToSet(c.text) \cap ToSet(d.text) \subseteq {EndMark}
  BY <1>15
<1>17. ASSUME NEW c \in r.chat, NEW p, Says(c, p)
       PROVE  p \in DOMAIN opencode.parts \/ \E d \in bridge.chat : Says(d, p)
  <2>1. CASE c \in bridge.chat
    BY <1>17, <2>1
  <2>2. CASE \E i \in DOMAIN C : c.text = C[i]
    BY <1>8, <1>17, <2>2 DEF Says
  <2> QED BY <1>9, <2>1, <2>2
<1> QED BY <1>16, <1>17

LEMMA HttpAnsweredKeeps == ASSUME StreamInv, HttpAnswered PROVE StreamInv'
<1>0. StreamTyped /\ AgentInv /\ EventInv /\ bridge \in BridgeStates /\ opencode.http = "waiting" /\ opencode.at = "idle"
      /\ opencode' = [opencode EXCEPT !.http = "answered"] /\ stream' = stream
  BY TypedAgent DEF StreamInv, HttpAnswered
<1>1. CASE FinalText = <<>>
  <2>1. bridge' = bridge
    BY <1>1 DEF HttpAnswered
  <2> QED BY <1>0, <2>1, SilentAnswer
<1>2. CASE FinalText # <<>>
  <2>1. PICK r : r = TextReplied(bridge, FinalText)
    OBVIOUS
  <2>2. PICK d : d = bridge'
    OBVIOUS
  <2>3. d = TurnClosed(r)
    BY <1>2, <2>1, <2>2 DEF HttpAnswered
  <2>4. FinalText \in Seq(WordsOfParts)
    BY <1>0, TypedParts, FinalIsLastRun, FlatOfParts
  <2>5. r \in BridgeStates /\ r.typing = FALSE /\ SameTexts(bridge, r)
    BY <1>0, <1>2, <2>1, <2>4, RepliedIs
  <2>6. /\ d \in BridgeStates /\ d.open = FALSE /\ d.typing = r.typing
        /\ d.types = {} /\ d.text = <<>> /\ d.deltas = {} /\ d.openParts = {}
        /\ d.closedParts = r.closedParts \cup r.openParts /\ d.tools = r.tools
        /\ d.reply = 0 /\ d.comment = 0 /\ d.chat = r.chat
    BY <2>3, <2>5, ClosedIs
  <2>7. /\ opencode' \in AgentStates /\ opencode'.http = "answered" /\ opencode'.at = opencode.at
        /\ opencode'.turn = opencode.turn /\ opencode'.parts = opencode.parts /\ LastPart' = LastPart
        /\ AgentInv' /\ EventInv'
        /\ \A p : (IsText(p) <=> IsText(p)') /\ (OfTurn(p) <=> OfTurn(p)')
    BY <1>0, AnswerLeaves
  <2>8. StreamTyped'
    BY <1>0, <2>2, <2>6, <2>7 DEF StreamTyped, AgentStates
  <2>9. IndicatorInv'
    BY <2>2, <2>5, <2>6 DEF IndicatorInv
  <2>10. ASSUME stream'.whole
         PROVE  /\ \A c, e \in d.chat : c # e => ToSet(c.text) \cap ToSet(e.text) \subseteq {EndMark}
                /\ WholeInv'
    <3>1. WholeInv /\ MemoryInv /\ ChatInv /\ ReplyInv
          /\ \A c, e \in bridge.chat : c # e => ToSet(c.text) \cap ToSet(e.text) \subseteq {EndMark}
      BY <1>0, <2>10 DEF StreamInv, WholeInv, TextShownOnce
    <3>2. /\ \A c, e \in r.chat : c # e => ToSet(c.text) \cap ToSet(e.text) \subseteq {EndMark}
          /\ \A p : \A c \in r.chat : Says(c, p) => p \in DOMAIN opencode.parts \/ \E e \in bridge.chat : Says(e, p)
      BY <1>0, <1>2, <2>1, <3>1, ReplyOnce, ZenonT(60)
    <3>3. DOMAIN opencode.parts = 1 .. LastPart /\ LastPart \in Nat
      BY <1>0, TypedParts
    <3>4. d.closedParts = bridge.closedParts \cup bridge.openParts /\ d.tools = bridge.tools
      BY <2>5, <2>6 DEF SameTexts
    <3>5. MemoryInv'
      <4>1. /\ bridge.closedParts \cup bridge.openParts \cup bridge.tools \subseteq DOMAIN opencode.parts
            /\ \A p \in bridge.openParts \cup bridge.closedParts : IsText(p)
        BY <3>1 DEF MemoryInv
      <4>2. /\ bridge'.comment = 0 /\ bridge'.reply = 0 /\ bridge'.types = {} /\ bridge'.text = <<>>
            /\ bridge'.deltas = {} /\ bridge'.openParts = {} /\ bridge'.tools = bridge.tools
            /\ bridge'.closedParts = bridge.closedParts \cup bridge.openParts
        BY <2>2, <2>6, <3>4
      <4> QED BY <2>7, <4>1, <4>2 DEF MemoryInv
    <3>6. ChatInv'
      <4>1. \A p : \A c \in r.chat : Says(c, p) => p \in 0 .. LastPart
        BY <3>1, <3>2, <3>3 DEF ChatInv
      <4> QED BY <2>2, <2>6, <2>7, <4>1 DEF ChatInv, Says
    <3>7. ReplyInv' /\ opencode'.at = "idle" /\ ~bridge'.open
      BY <1>0, <2>2, <2>6, <2>7 DEF ReplyInv
    <3> QED BY <2>6, <3>2, <3>5, <3>6, <3>7 DEF WholeInv
  <2>11. TextShownOnce'
    BY <2>2, <2>10 DEF TextShownOnce, EndMark
  <2> QED BY <2>7, <2>8, <2>9, <2>10, <2>11 DEF StreamInv
<1> QED BY <1>1, <1>2

(* The first event is taken, the others move up. *)
Shifted ==
    /\ Len(stream.events) \in Nat \ {0} /\ Len(stream'.events) = Len(stream.events) - 1
    /\ DOMAIN stream.events = 1 .. Len(stream.events) /\ DOMAIN stream'.events = 1 .. Len(stream.events) - 1
    /\ \A k \in 1 .. Len(stream.events) - 1 : stream'.events[k] = stream.events[k + 1]

LEMMA EventIs ==
    ASSUME StreamTyped, EventArrives
    PROVE  /\ Shifted /\ stream'.whole = stream.whole /\ opencode' = opencode
           /\ stream' \in [events : Seq(AgentEvents), faults : Nat, whole : BOOLEAN]
           /\ Head(stream.events) = stream.events[1] /\ stream.events[1] \in AgentEvents
<1>1. stream \in [events : Seq(AgentEvents), faults : Nat, whole : BOOLEAN]
  BY TypedAgent
<1>2. PICK ev : ev = stream.events
  OBVIOUS
<1>3. ev \in Seq(AgentEvents) /\ ev # <<>>
  BY <1>1, <1>2 DEF EventArrives
<1>4. /\ Tail(ev) \in Seq(AgentEvents) /\ Head(ev) = ev[1] /\ Len(ev) \in Nat \ {0} /\ Len(Tail(ev)) = Len(ev) - 1
      /\ \A k \in 1 .. Len(ev) - 1 : Tail(ev)[k] = ev[k + 1]
  BY <1>3, EmptySeq, LenProperties, HeadTailProperties
<1>5. DOMAIN ev = 1 .. Len(ev) /\ DOMAIN Tail(ev) = 1 .. Len(ev) - 1 /\ ev[1] \in AgentEvents
  BY <1>3, <1>4, LenProperties, ElementOfSeq
<1>6. PICK t : t = Tail(ev)
  OBVIOUS
<1>7. stream' = [stream EXCEPT !.events = t]
  BY <1>2, <1>6 DEF EventArrives
<1>8. t \in Seq(AgentEvents)
  BY <1>4, <1>6
<1>9. /\ stream' \in [events : Seq(AgentEvents), faults : Nat, whole : BOOLEAN]
      /\ stream'.events = t /\ stream'.whole = stream.whole
  BY <1>1, <1>7, <1>8
<1>10. opencode' = opencode
  BY DEF EventArrives
<1>11. Shifted
  BY <1>2, <1>4, <1>5, <1>6, <1>9 DEF Shifted
<1> QED BY <1>2, <1>4, <1>5, <1>9, <1>10, <1>11

LEMMA EventsShift ==
    ASSUME StreamTyped, EventInv, AgentInv, Shifted, opencode' = opencode
    PROVE  /\ EventInv' /\ AgentInv' /\ LastPart' = LastPart
           /\ \A q : (IsText(q) <=> IsText(q)') /\ (OfTurn(q) <=> OfTurn(q)')
<1>1. \A i \in DOMAIN stream'.events : i + 1 \in DOMAIN stream.events /\ stream'.events[i] = stream.events[i + 1]
  BY DEF Shifted
<1>2. \A q : (IsText(q) <=> IsText(q)') /\ (IsTool(q) <=> IsTool(q)') /\ (OfTurn(q) <=> OfTurn(q)')
  BY DEF IsText, IsTool, OfTurn
<1>3. LastPart' = LastPart
  BY DEF LastPart
<1>4. AgentInv'
  BY <1>2, <1>3 DEF AgentInv
<1>5. EventInv'
  BY <1>1, <1>2 DEF EventInv
<1> QED BY <1>2, <1>3, <1>4, <1>5

(* An event that is taken is known. *)
LEMMA OrderShifts ==
    ASSUME StreamTyped, TurnOrderInv, Shifted, opencode' = opencode, NEW e, e = stream.events[1], e.type # "idle",
           bridge.types \subseteq bridge'.types,
           \A q \in bridge'.types : q \in bridge.types \/ q = e.part,
           bridge.closedParts \cup bridge.deltas \subseteq bridge'.closedParts \cup bridge'.deltas,
           bridge.tools \subseteq bridge'.tools,
           e.type = "part" => e.part \in bridge'.types,
           e.type = "delta" => e.part \in bridge'.closedParts \cup bridge'.deltas,
           e.type = "part" /\ e.ended => e.part \in bridge'.tools,
           \A q \in bridge'.closedParts \cup bridge'.tools : OfTurn(q) => q \in bridge'.types
    PROVE  TurnOrderInv'
<1>1. PICK N : N = Len(stream.events)
  OBVIOUS
<1>2. /\ N \in Nat \ {0} /\ Len(stream'.events) = N - 1 /\ DOMAIN stream.events = 1 .. N
      /\ DOMAIN stream'.events = 1 .. N - 1 /\ \A k \in 1 .. N - 1 : stream'.events[k] = stream.events[k + 1]
  BY <1>1 DEF Shifted
<1>3. \A q : (IsText(q) <=> IsText(q)') /\ (OfTurn(q) <=> OfTurn(q)')
  BY DEF IsText, OfTurn
<1>4. ASSUME NEW i \in 1 .. N, NEW k \in 1 .. i
      PROVE  k = 1 \/ (k - 1 \in 1 .. i - 1 /\ stream'.events[k - 1] = stream.events[k])
  <2>1. CASE k # 1
    <3>1. k - 1 \in 1 .. N - 1 /\ k - 1 \in 1 .. i - 1 /\ k - 1 + 1 = k
      BY <1>2, <2>1
    <3> QED BY <1>2, <3>1
  <2> QED BY <2>1
<1>5. ASSUME NEW i \in 1 .. N, NEW q
      PROVE  /\ SentPart(i + 1, q) => SentPart(i, q)'
             /\ SentWords(i + 1, q) => SentWords(i, q)'
             /\ SentEnd(i + 1, q) => SentEnd(i, q)'
             /\ SentAll(i + 1, q) => SentAll(i, q)'
             /\ InPlace(i + 1, q) => InPlace(i, q)'
  <2>0. 1 .. i + 1 - 1 = 1 .. i /\ 1 \in 1 .. i /\ \A k \in 1 .. i - 1 : k \in 1 .. N - 1 /\ k + 1 \in 1 .. i
    BY <1>2
  <2>1. SentPart(i + 1, q) => SentPart(i, q)'
    <3> SUFFICES ASSUME SentPart(i + 1, q) PROVE SentPart(i, q)'
      OBVIOUS
    <3>1. CASE q \in bridge.types
      BY <3>1 DEF SentPart
    <3>2. CASE \E k \in 1 .. i : PartEvent(k, q)
      <4>1. PICK k \in 1 .. i : PartEvent(k, q)
        BY <3>2
      <4>2. CASE k = 1
        BY <4>1, <4>2 DEF PartEvent, SentPart
      <4>3. CASE k - 1 \in 1 .. i - 1 /\ stream'.events[k - 1] = stream.events[k]
        <5>1. PartEvent(k - 1, q)'
          BY <4>1, <4>3 DEF PartEvent
        <5> QED BY <4>3, <5>1 DEF SentPart
      <4> QED BY <1>4, <4>2, <4>3
    <3> QED BY <2>0, <3>1, <3>2 DEF SentPart
  <2>2. SentWords(i + 1, q) => SentWords(i, q)'
    <3> SUFFICES ASSUME SentWords(i + 1, q) PROVE SentWords(i, q)'
      OBVIOUS
    <3>1. CASE q \in bridge.closedParts \cup bridge.deltas
      BY <3>1 DEF SentWords
    <3>2. CASE \E k \in 1 .. i : DeltaEvent(k, q)
      <4>1. PICK k \in 1 .. i : DeltaEvent(k, q)
        BY <3>2
      <4>2. CASE k = 1
        BY <4>1, <4>2 DEF DeltaEvent, SentWords
      <4>3. CASE k - 1 \in 1 .. i - 1 /\ stream'.events[k - 1] = stream.events[k]
        <5>1. DeltaEvent(k - 1, q)'
          BY <4>1, <4>3 DEF DeltaEvent
        <5> QED BY <4>3, <5>1 DEF SentWords
      <4> QED BY <1>4, <4>2, <4>3
    <3> QED BY <2>0, <3>1, <3>2 DEF SentWords
  <2>3. SentEnd(i + 1, q) => SentEnd(i, q)'
    <3> SUFFICES ASSUME SentEnd(i + 1, q) PROVE SentEnd(i, q)'
      OBVIOUS
    <3>1. CASE q \in bridge.tools
      BY <3>1 DEF SentEnd
    <3>2. CASE \E k \in 1 .. i : EndEvent(k, q)
      <4>1. PICK k \in 1 .. i : EndEvent(k, q)
        BY <3>2
      <4>2. CASE k = 1
        BY <4>1, <4>2 DEF EndEvent, PartEvent, SentEnd
      <4>3. CASE k - 1 \in 1 .. i - 1 /\ stream'.events[k - 1] = stream.events[k]
        <5>1. EndEvent(k - 1, q)'
          BY <4>1, <4>3 DEF EndEvent, PartEvent
        <5> QED BY <4>3, <5>1 DEF SentEnd
      <4> QED BY <1>4, <4>2, <4>3
    <3> QED BY <2>0, <3>1, <3>2 DEF SentEnd
  <2>4. SentAll(i + 1, q) => SentAll(i, q)'
    BY <1>3, <2>1, <2>2 DEF SentAll
  <2>5. InPlace(i + 1, q) => InPlace(i, q)'
    <3> SUFFICES ASSUME InPlace(i + 1, q) PROVE InPlace(i, q)'
      OBVIOUS
    <3>1. (\A r \in bridge.types : r <= q) /\ \A k \in 1 .. i : stream.events[k].part <= q
      BY <2>0 DEF InPlace
    <3>2. e.part <= q
      BY <2>0, <3>1
    <3>3. \A k \in 1 .. i - 1 : stream'.events[k].part <= q
      BY <1>2, <2>0, <3>1
    <3> QED BY <3>1, <3>2, <3>3 DEF InPlace
  <2> QED BY <2>1, <2>2, <2>3, <2>4, <2>5
<1>6. SentInv'
  <2>1. SentInv /\ N \in 1 .. N /\ Len(stream'.events) + 1 = N
    BY <1>2 DEF TurnOrderInv
  <2>2. \A p \in DOMAIN opencode.parts : OfTurn(p) =>
           /\ SentPart(N, p)'
           /\ IsText(p) /\ ~(opencode.at = "text" /\ p = LastPart) => SentWords(N, p)'
           /\ opencode.parts[p].ended => SentEnd(N, p)'
    BY <1>1, <1>5, <2>1 DEF SentInv
  <2>3. ASSUME opencode.at = "idle", opencode.turn # 0
        PROVE  \E k \in DOMAIN stream'.events : stream'.events[k].type = "idle"
    <3>1. PICK k \in 1 .. N : stream.events[k].type = "idle"
      BY <1>2, <2>1, <2>3 DEF SentInv
    <3>2. k - 1 \in 1 .. N - 1 /\ stream'.events[k - 1] = stream.events[k]
      BY <1>4, <2>1, <3>1
    <3> QED BY <1>2, <3>1, <3>2
  <2>4. LastPart' = LastPart
    BY DEF LastPart
  <2> QED BY <1>3, <2>1, <2>2, <2>3, <2>4 DEF SentInv
<1>7. ASSUME NEW i \in 1 .. N - 1 PROVE HeardInOrder(i)'
  <2>1. i \in 1 .. N /\ i + 1 \in 1 .. N /\ stream'.events[i] = stream.events[i + 1]
    BY <1>2
  <2>2. HeardInOrder(i + 1)
    BY <1>2, <2>1 DEF TurnOrderInv
  <2>3. PICK x : x = stream.events[i + 1]
    OBVIOUS
  <2>4. /\ x.type = "idle" => opencode.at = "idle" /\ \A q \in DOMAIN opencode.parts : OfTurn(q) => SentAll(i + 1, q)
        /\ x.type # "idle" => /\ OfTurn(x.part)
                              /\ \A q \in DOMAIN opencode.parts : OfTurn(q) /\ q < x.part => SentAll(i + 1, q)
        /\ x.type \in {"delta", "ask"} => SentPart(i + 1, x.part)
        /\ x.type \in {"part", "ask"} /\ ~IsText(x.part) =>
              InPlace(i + 1, x.part) \/ (x.type = "part" /\ x.ended /\ SentEnd(i + 1, x.part))
    BY <2>2, <2>3 DEF HeardInOrder
  <2>5. x = stream'.events[i]
    BY <2>1, <2>3
  <2>6. /\ x.type = "idle" => opencode.at = "idle" /\ \A q \in DOMAIN opencode.parts : OfTurn(q) => SentAll(i, q)'
        /\ x.type # "idle" => /\ OfTurn(x.part)
                              /\ \A q \in DOMAIN opencode.parts : OfTurn(q) /\ q < x.part => SentAll(i, q)'
        /\ x.type \in {"delta", "ask"} => SentPart(i, x.part)'
        /\ x.type \in {"part", "ask"} /\ ~IsText(x.part) =>
              InPlace(i, x.part)' \/ (x.type = "part" /\ x.ended /\ SentEnd(i, x.part)')
    BY <1>5, <2>1, <2>4
  <2> QED BY <1>3, <2>5, <2>6 DEF HeardInOrder
<1>8. \A q \in bridge'.types : OfTurn(q)
  <2>1. 1 \in DOMAIN stream.events
    BY <1>2
  <2>2. OfTurn(e.part)
    BY <2>1 DEF TurnOrderInv, HeardInOrder
  <2> QED BY <2>2 DEF TurnOrderInv
<1> QED BY <1>2, <1>3, <1>6, <1>7, <1>8 DEF TurnOrderInv

(* Parts between two of the turn are of the turn. *)
LEMMA TurnIsOneRun ==
    ASSUME StreamTyped, AgentInv, NEW p, NEW q, OfTurn(p), OfTurn(q)
    PROVE  \A r \in p .. q : OfTurn(r)
<1>1. DOMAIN opencode.parts = 1 .. LastPart /\ LastPart \in Nat /\ p \in 1 .. LastPart /\ q \in 1 .. LastPart
  BY TypedParts DEF OfTurn
<1> SUFFICES ASSUME NEW r \in p .. q PROVE OfTurn(r)
  OBVIOUS
<1>2. r \in 1 .. LastPart
  BY <1>1
<1>3. CASE r = p
  BY <1>3
<1>4. CASE p < r
  <2>1. opencode.parts[p].turn <= opencode.parts[r].turn /\ opencode.parts[r].turn <= opencode.turn
    BY <1>1, <1>2, <1>4 DEF AgentInv
  <2>2. opencode.parts[r].turn \in Nat /\ opencode.turn \in Nat
    BY <1>1, <1>2, TypedParts
  <2>3. opencode.parts[p].turn = opencode.turn
    BY DEF OfTurn
  <2> QED BY <1>1, <1>2, <2>1, <2>2, <2>3 DEF OfTurn
<1> QED BY <1>1, <1>2, <1>3, <1>4

(* A part of the last run and what follows it. *)
LEMMA InTheRun ==
    ASSUME StreamTyped, NEW p \in LastRun(opencode.parts, opencode.turn)
    PROVE  /\ OfTurn(p) /\ IsText(p)
           /\ \A q : OfTurn(q) /\ IsText(q) /\ p <= q =>
                 q \in LastRun(opencode.parts, opencode.turn) /\ \A r \in p .. q : OfTurn(r) /\ IsText(r)
           /\ \A s, q : OfTurn(s) /\ ~IsText(s) /\ p < s /\ OfTurn(q) /\ IsText(q) => q < s
<1> DEFINE P == opencode.parts
           t == opencode.turn
<1>1. DOMAIN P = 1 .. LastPart /\ LastPart \in Nat
  BY TypedParts
<1>2. PICK e \in DOMAIN P : RunUpTo(P, t, p, e)
  BY DEF LastRun
<1>3. p \in DOMAIN P
  BY DEF LastRun
<1>4. \A q : TextOf(P, t, q) <=> OfTurn(q) /\ IsText(q)
  BY DEF TextOf, OfTurn, IsText
<1>5. /\ p <= e /\ \A q \in p .. e : OfTurn(q) /\ IsText(q)
      /\ \A q \in DOMAIN P : OfTurn(q) /\ IsText(q) => q <= e
  BY <1>2, <1>4 DEF RunUpTo
<1>6. p \in p .. e
  BY <1>1, <1>3, <1>5
<1>7. ASSUME NEW q, OfTurn(q), IsText(q), p <= q
      PROVE  q \in LastRun(P, t) /\ \A r \in p .. q : OfTurn(r) /\ IsText(r)
  <2>1. q \in 1 .. LastPart /\ q <= e
    BY <1>1, <1>5, <1>7 DEF OfTurn
  <2>2. \A r \in q .. e : r \in p .. e
    BY <1>1, <1>3, <1>7, <2>1
  <2>3. \A r \in p .. q : r \in p .. e
    BY <1>1, <1>3, <1>7, <2>1
  <2>4. RunUpTo(P, t, q, e)
    BY <1>2, <2>1, <2>2 DEF RunUpTo
  <2> QED BY <1>1, <1>5, <2>1, <2>3, <2>4 DEF LastRun
<1>8. ASSUME NEW s, NEW q, OfTurn(s), ~IsText(s), p < s, OfTurn(q), IsText(q)
      PROVE  q < s
  <2>1. s \in 1 .. LastPart /\ q \in 1 .. LastPart /\ q <= e
    BY <1>1, <1>5, <1>8 DEF OfTurn
  <2>2. s \notin p .. e
    BY <1>5, <1>8
  <2> QED BY <1>1, <1>3, <1>8, <2>1, <2>2
<1> QED BY <1>5, <1>6, <1>7, <1>8

(* What the buffer holds of the last run is the last run, and no bubble    *)
(* says it yet.                                                            *)
LEMMA BufferIsTheRun ==
    ASSUME StreamTyped, AgentInv, MemoryInv, TurnOrderInv, HeardInv, NEW s, OfTurn(s), ~IsText(s),
           \A q \in bridge.types : q <= s,
           \A q \in DOMAIN opencode.parts : OfTurn(q) /\ q < s => SentAll(1, q)
    PROVE  /\ \A p \in LastRun(opencode.parts, opencode.turn) :
                 p \in bridge.deltas => bridge.deltas = LastRun(opencode.parts, opencode.turn)
           /\ bridge.deltas # {} =>
                 \A c \in bridge.chat, p \in LastRun(opencode.parts, opencode.turn) : ~Says(c, p)
<1>1. DOMAIN opencode.parts = 1 .. LastPart /\ LastPart \in Nat /\ s \in 1 .. LastPart
  BY TypedParts DEF OfTurn
<1>2. /\ \A q \in bridge.deltas : q \in bridge.types /\ IsText(q) /\ q \notin bridge.closedParts
      /\ \A q \in bridge.types : OfTurn(q) /\ q \in 1 .. LastPart
      /\ \A q \in bridge.closedParts : q \in 1 .. LastPart
  BY <1>1 DEF MemoryInv, TurnOrderInv
<1>3. \A q \in 1 .. LastPart : OfTurn(q) /\ IsText(q) /\ q < s => q \in bridge.closedParts \cup bridge.deltas
  <2> SUFFICES ASSUME NEW q \in 1 .. LastPart, OfTurn(q), IsText(q), q < s PROVE q \in bridge.closedParts \cup bridge.deltas
    OBVIOUS
  <2>1. SentWords(1, q)
    BY <1>1 DEF SentAll
  <2>2. 1 .. 1 - 1 = {}
    OBVIOUS
  <2> QED BY <2>1, <2>2 DEF SentWords
<1>4. ASSUME NEW p \in LastRun(opencode.parts, opencode.turn), p \in bridge.closedParts PROVE bridge.deltas = {}
  <2>1. OfTurn(p) /\ IsText(p)
    BY <1>4, InTheRun
  <2>2. PICK r \in bridge.types : ~IsText(r) /\ p < r
    BY <1>4, <2>1 DEF HeardInv
  <2>3. \A q \in bridge.deltas : q < r
    BY <1>2, <1>4, <2>2, InTheRun
  <2>4. \A q \in bridge.deltas : q \in bridge.closedParts
    BY <1>1, <1>2, <2>2, <2>3 DEF HeardInv
  <2> QED BY <1>2, <2>4
<1>5. ASSUME NEW p \in LastRun(opencode.parts, opencode.turn), p \in bridge.deltas,
             NEW q \in LastRun(opencode.parts, opencode.turn)
      PROVE  q \in bridge.deltas
  <2>1. OfTurn(p) /\ IsText(p) /\ OfTurn(q) /\ IsText(q) /\ p \in 1 .. LastPart /\ q \in 1 .. LastPart
    BY <1>1, <1>5, InTheRun DEF OfTurn
  <2>2. p < s
    <3>1. p <= s /\ p # s
      BY <1>2, <1>5, <2>1
    <3> QED BY <1>1, <2>1, <3>1
  <2>3. q < s
    BY <1>5, <2>1, <2>2, InTheRun
  <2>4. q \in bridge.closedParts \cup bridge.deltas
    BY <1>3, <2>1, <2>3
  <2>5. q \notin bridge.closedParts
    BY <1>4, <1>5
  <2> QED BY <2>4, <2>5
<1>6. ASSUME NEW p \in LastRun(opencode.parts, opencode.turn), p \in bridge.deltas, NEW q \in bridge.deltas
      PROVE  q \in LastRun(opencode.parts, opencode.turn)
  <2>1. OfTurn(p) /\ IsText(p) /\ OfTurn(q) /\ IsText(q) /\ p \in 1 .. LastPart /\ q \in 1 .. LastPart
    BY <1>1, <1>2, <1>5, <1>6, InTheRun
  <2>2. CASE p <= q
    BY <1>6, <2>1, <2>2, InTheRun
  <2>3. CASE q < p
    <3>1. \A r \in q .. p : OfTurn(r)
      BY <2>1, TurnIsOneRun
    <3>2. \A r \in q .. p : IsText(r)
      <4> SUFFICES ASSUME NEW r \in q .. p, ~IsText(r) PROVE FALSE
        OBVIOUS
      <4>1. r # p /\ r # q
        BY <2>1
      <4>2. r \in 1 .. LastPart /\ q < r /\ r < p
        BY <1>1, <2>1, <4>1
      <4>3. r \in bridge.types
        BY <1>1, <1>2, <1>6, <3>1, <4>2 DEF HeardInv
      <4>4. q \in bridge.closedParts
        BY <1>1, <2>1, <4>2, <4>3 DEF HeardInv
      <4> QED BY <1>2, <1>6, <4>4
    <3>3. PICK e \in DOMAIN opencode.parts : RunUpTo(opencode.parts, opencode.turn, p, e)
      BY <1>6 DEF LastRun
    <3>4. RunUpTo(opencode.parts, opencode.turn, q, e)
      <4>1. \A r \in q .. e : r \in q .. p \/ r \in p .. e
        BY <1>1, <2>1, <2>3
      <4>2. \A r \in q .. p : TextOf(opencode.parts, opencode.turn, r)
        BY <3>1, <3>2 DEF TextOf, OfTurn, IsText
      <4>3. q <= e
        BY <1>1, <2>1, <2>3, <3>3 DEF RunUpTo
      <4> QED BY <3>3, <4>1, <4>2, <4>3 DEF RunUpTo
    <3> QED BY <1>1, <2>1, <3>4 DEF LastRun
  <2> QED BY <1>1, <2>1, <2>2, <2>3
<1>7. \A p \in LastRun(opencode.parts, opencode.turn) :
         p \in bridge.deltas => bridge.deltas = LastRun(opencode.parts, opencode.turn)
  <2> SUFFICES ASSUME NEW p \in LastRun(opencode.parts, opencode.turn), p \in bridge.deltas
               PROVE  bridge.deltas = LastRun(opencode.parts, opencode.turn)
    OBVIOUS
  <2>1. \A q : q \in bridge.deltas <=> q \in LastRun(opencode.parts, opencode.turn)
    BY <1>5, <1>6
  <2> QED BY <2>1
<1>8. ASSUME bridge.deltas # {}, NEW c \in bridge.chat, NEW p \in LastRun(opencode.parts, opencode.turn), Says(c, p)
      PROVE  FALSE
  <2>1. OfTurn(p) /\ p \in DOMAIN opencode.parts
    BY <1>8, InTheRun DEF OfTurn
  <2>2. p \in bridge.closedParts
    BY <1>8, <2>1 DEF HeardInv
  <2> QED BY <1>4, <1>8, <2>2
<1> QED BY <1>7, <1>8

(* What every event leaves: the rest follows from the bridge's memory.     *)
LEMMA EventKeeps ==
    ASSUME StreamInv, EventArrives, bridge' \in BridgeStates, IndicatorInv',
           stream.whole => /\ TextShownOnce' /\ MemoryInv' /\ ChatInv' /\ ReplyInv'
                           /\ opencode.at # "idle" => bridge'.open
                           /\ bridge'.open => TurnOrderInv' /\ HeardInv'
    PROVE  StreamInv'
<1>1. StreamTyped /\ EventInv /\ AgentInv
  BY DEF StreamInv
<1>2. /\ Shifted /\ stream'.whole = stream.whole /\ opencode' = opencode
      /\ stream' \in [events : Seq(AgentEvents), faults : Nat, whole : BOOLEAN]
  BY <1>1, EventIs
<1>3. EventInv' /\ AgentInv'
  BY <1>1, <1>2, EventsShift
<1>4. StreamTyped'
  BY <1>1, <1>2 DEF StreamTyped
<1>5. TextShownOnce'
  <2>1. CASE stream.whole
    BY <2>1
  <2>2. CASE ~stream.whole
    BY <1>2, <2>2 DEF TextShownOnce
  <2> QED BY <2>1, <2>2
<1>6. stream'.whole => WholeInv'
  BY <1>2 DEF WholeInv
<1> QED BY <1>3, <1>4, <1>5, <1>6 DEF StreamInv

(* A part of the turn that is no text closes the segment before it. *)
LEMMA ClosesKeeps ==
    ASSUME StreamTyped, AgentInv, MemoryInv, ChatInv, ReplyInv, TurnOrderInv, HeardInv, TextShownOnce,
           opencode' = opencode, stream'.whole => stream.whole, ClosesUp(bridge, bridge'),
           bridge \in BridgeStates, bridge' \in BridgeStates,
           NEW s, OfTurn(s), ~IsText(s), bridge'.types = bridge.types \cup {s},
           bridge'.tools \subseteq bridge.tools \cup {s}, bridge'.open,
           \A q \in bridge.types : q <= s,
           \A q \in DOMAIN opencode.parts : OfTurn(q) /\ q < s => SentAll(1, q)
    PROVE  MemoryInv' /\ ChatInv' /\ ReplyInv' /\ HeardInv' /\ TextShownOnce'
<1>1. DOMAIN opencode.parts = 1 .. LastPart /\ LastPart \in Nat /\ s \in 1 .. LastPart /\ opencode.parts \in Seq(AgentParts)
  BY TypedParts DEF OfTurn
<1>2. LastPart' = LastPart /\ \A q : (IsText(q) <=> IsText(q)') /\ (OfTurn(q) <=> OfTurn(q)')
  BY DEF LastPart, IsText, OfTurn
<1>3. /\ bridge'.closedParts = bridge.closedParts \cup bridge.openParts /\ bridge'.openParts = {} /\ bridge'.text = <<>>
      /\ bridge'.reply = 0 /\ bridge'.comment = 0
      /\ bridge.text = <<>> => bridge'.deltas = bridge.deltas /\ bridge'.recent = bridge.recent
      /\ bridge.text # <<>> => bridge'.deltas = {} /\ bridge'.recent.n # 0 /\ bridge'.recent.text = bridge.text
  BY DEF ClosesUp
<1>4. \A c \in bridge'.chat :
          \/ c \in bridge.chat \/ c.text \in CardTexts
          \/ bridge.text # <<>> /\ c = [key |-> Key("commentary", bridge'.recent.n), text |-> Last(Chunks(bridge.text))]
  BY DEF ClosesUp
<1>5. bridge'.deltas = {}
  BY <1>3 DEF MemoryInv
<1>6. /\ bridge.deltas \subseteq bridge.openParts /\ bridge.openParts \subseteq bridge.types
      /\ \A q \in bridge.types : OfTurn(q) /\ q \in 1 .. LastPart
      /\ \A q \in bridge.closedParts \cup bridge.openParts : q \in 1 .. LastPart /\ IsText(q)
      /\ bridge.openParts \cap bridge.closedParts = {}
  BY <1>1 DEF MemoryInv, TurnOrderInv
<1>7. bridge.text = Flat(opencode.parts, bridge.deltas) /\ bridge.text \in Seq(WordsOfParts)
      /\ \A a \in DOMAIN bridge.text : bridge.text[a][1] \in bridge.deltas
  <2>1. PICK S : S = bridge.deltas
    OBVIOUS
  <2>2. PICK T : T = Flat(opencode.parts, S)
    OBVIOUS
  <2>3. T \in Seq(WordsOfParts) /\ \A a \in DOMAIN T : T[a][1] \in S
    BY <1>1, <2>2, FlatOfParts
  <2>4. bridge.text = T
    BY <2>1, <2>2 DEF HeardInv
  <2> QED BY <2>1, <2>2, <2>3, <2>4
<1>8. ASSUME NEW c, bridge.text # <<>>, c.text = Last(Chunks(bridge.text))
      PROVE  /\ \A w \in ToSet(c.text) : w[1] \in bridge.deltas
             /\ \A p : Says(c, p) => p \in bridge.deltas
  <2>1. PICK T : T = bridge.text
    OBVIOUS
  <2>2. T \in Seq(WordsOfParts) /\ T # <<>> /\ c.text = Last(Chunks(T))
    BY <1>7, <1>8, <2>1
  <2>3. /\ Len(Chunks(T)) \in Nat \ {0} /\ DOMAIN Chunks(T) = 1 .. Len(Chunks(T))
        /\ Last(Chunks(T)) = Chunks(T)[Len(Chunks(T))]
        /\ \A i \in DOMAIN Chunks(T) : \A k \in DOMAIN Chunks(T)[i] : \E a \in DOMAIN T : Chunks(T)[i][k] = T[a]
    BY <2>2, ChunksOfText
  <2>4. Len(Chunks(T)) \in DOMAIN Chunks(T)
    BY <2>3
  <2>5. \A k \in DOMAIN c.text : \E a \in DOMAIN T : c.text[k] = T[a]
    BY <2>2, <2>3, <2>4
  <2>6. \A k \in DOMAIN c.text : c.text[k][1] \in bridge.deltas
    BY <1>7, <2>1, <2>5
  <2> QED BY <2>6 DEF ToSet, Says
<1>9. \A c \in bridge'.chat :
          \/ c \in bridge.chat
          \/ ToSet(c.text) \subseteq {EndMark} /\ \A p : Says(c, p) => p = 0
          \/ /\ bridge.text # <<>> /\ c = [key |-> Key("commentary", bridge'.recent.n), text |-> Last(Chunks(bridge.text))]
             /\ \A w \in ToSet(c.text) : w[1] \in bridge.deltas
             /\ \A p : Says(c, p) => p \in bridge.deltas
  <2> SUFFICES ASSUME NEW c \in bridge'.chat
               PROVE  \/ c \in bridge.chat
                      \/ ToSet(c.text) \subseteq {EndMark} /\ \A p : Says(c, p) => p = 0
                      \/ /\ bridge.text # <<>>
                         /\ c = [key |-> Key("commentary", bridge'.recent.n), text |-> Last(Chunks(bridge.text))]
                         /\ \A w \in ToSet(c.text) : w[1] \in bridge.deltas
                         /\ \A p : Says(c, p) => p \in bridge.deltas
    OBVIOUS
  <2>1. CASE c \in bridge.chat
    BY <2>1
  <2>2. CASE c.text \in CardTexts
    BY <2>2, CardSays
  <2>3. CASE bridge.text # <<>> /\ c = [key |-> Key("commentary", bridge'.recent.n), text |-> Last(Chunks(bridge.text))]
    <3>1. c.text = Last(Chunks(bridge.text))
      BY <2>3
    <3>2. (\A w \in ToSet(c.text) : w[1] \in bridge.deltas) /\ \A p : Says(c, p) => p \in bridge.deltas
      BY <1>8, <2>3, <3>1
    <3> QED BY <2>3, <3>2
  <2> QED BY <1>4, <2>1, <2>2, <2>3
<1>10. MemoryInv'
  <2>1. /\ bridge.types \cup bridge.closedParts \cup bridge.tools \subseteq DOMAIN opencode.parts
        /\ \A p \in bridge.types : IsText(p) => p \in bridge.openParts \cup bridge.closedParts
    BY DEF MemoryInv
  <2>2. bridge'.types \cup bridge'.closedParts \cup bridge'.tools \subseteq DOMAIN opencode.parts
    BY <1>1, <1>3, <1>6, <2>1
  <2>3. \A p \in bridge'.types : IsText(p) => p \in bridge'.closedParts
    BY <1>3, <2>1
  <2> QED BY <1>2, <1>3, <1>5, <1>6, <2>2, <2>3 DEF MemoryInv
<1>11. ChatInv'
  <2>1. ASSUME NEW c \in bridge'.chat, NEW p, Says(c, p) PROVE p \in 0 .. LastPart
    <3>1. CASE c \in bridge.chat
      BY <2>1, <3>1 DEF ChatInv
    <3>2. CASE p = 0
      BY <1>1, <3>2
    <3>3. CASE p \in bridge.deltas
      BY <1>1, <1>6, <3>3
    <3> QED BY <1>9, <2>1, <3>1, <3>2, <3>3
  <2> QED BY <1>2, <2>1 DEF ChatInv, Says
<1>12. HeardInv'
  <2>1. \A q \in 1 .. LastPart : OfTurn(q) /\ q < s =>
           q \in bridge.types /\ (IsText(q) => q \in bridge'.closedParts)
    <3> SUFFICES ASSUME NEW q \in 1 .. LastPart, OfTurn(q), q < s
                 PROVE  q \in bridge.types /\ (IsText(q) => q \in bridge'.closedParts)
      OBVIOUS
    <3>1. SentPart(1, q) /\ (IsText(q) => SentWords(1, q))
      BY <1>1 DEF SentAll
    <3>2. 1 .. 1 - 1 = {}
      OBVIOUS
    <3> QED BY <1>3, <1>6, <3>1, <3>2 DEF SentPart, SentWords
  <2>2. (\A p \in bridge.types, q \in DOMAIN opencode.parts : OfTurn(q) /\ q < p => q \in bridge.types)'
    BY <1>1, <1>2, <2>1 DEF HeardInv
  <2>3. (\A r \in bridge.types, q \in DOMAIN opencode.parts :
          ~IsText(r) /\ OfTurn(q) /\ IsText(q) /\ q < r => q \in bridge.closedParts)'
    BY <1>1, <1>2, <1>3, <2>1 DEF HeardInv
  <2>4. (\A p \in bridge.closedParts : OfTurn(p) => \E r \in bridge.types : ~IsText(r) /\ p < r)'
    <3> SUFFICES ASSUME NEW p \in bridge'.closedParts, OfTurn(p) PROVE \E r \in bridge'.types : ~IsText(r) /\ p < r
      BY <1>2
    <3>1. CASE p \in bridge.closedParts
      BY <3>1 DEF HeardInv
    <3>2. CASE p \in bridge.openParts
      <4>1. p <= s /\ p # s /\ p \in 1 .. LastPart
        BY <1>6, <3>2
      <4>2. p < s
        BY <1>1, <4>1
      <4> QED BY <4>2
    <3> QED BY <1>3, <3>1, <3>2
  <2>5. bridge'.text = Flat(opencode'.parts, bridge'.deltas)
    BY <1>1, <1>3, <1>5, FlatOfNone
  <2>6. (\A c \in bridge.chat, p \in DOMAIN opencode.parts : OfTurn(p) /\ Says(c, p) => p \in bridge.closedParts)'
    <3> SUFFICES ASSUME NEW c \in bridge'.chat, NEW p \in DOMAIN opencode.parts, OfTurn(p), Says(c, p)
                 PROVE  p \in bridge'.closedParts
      BY <1>2 DEF Says
    <3>1. CASE c \in bridge.chat
      BY <1>3, <3>1 DEF HeardInv
    <3>2. CASE p \in bridge.deltas
      BY <1>3, <1>6, <3>2
    <3>3. p # 0
      BY <1>1
    <3> QED BY <1>9, <3>1, <3>2, <3>3
  <2> QED BY <1>5, <2>2, <2>3, <2>4, <2>5, <2>6 DEF HeardInv
<1>13. ReplyInv'
  <2>1. PICK R : R = LastRun(opencode.parts, opencode.turn)
    OBVIOUS
  <2>2. PICK T : T = Flat(opencode.parts, R)
    OBVIOUS
  <2>3. SUFFICES ASSUME opencode.http = "waiting", NEW c \in bridge'.chat, NEW p \in R, Says(c, p)
                 PROVE  /\ bridge'.recent.n # 0 /\ c.key = Key("commentary", bridge'.recent.n) /\ bridge'.recent.text = T
    BY <2>1, <2>2 DEF ReplyInv, Says, Key
  <2>4. p # 0
    BY <1>1, <2>1 DEF LastRun
  <2>5. /\ p \in bridge.deltas => bridge.deltas = R
        /\ bridge.deltas # {} => ~(c \in bridge.chat)
    BY <2>1, <2>3, BufferIsTheRun
  <2>6. CASE bridge.text = <<>>
    <3>1. c \in bridge.chat /\ bridge'.recent = bridge.recent
      BY <1>3, <1>9, <2>3, <2>4, <2>6
    <3> QED BY <2>1, <2>2, <2>3, <3>1 DEF ReplyInv
  <2>7. CASE bridge.text # <<>>
    <3>1. bridge.deltas # {}
      BY <1>1, <1>7, <2>7, FlatOfNone
    <3>2. p \in bridge.deltas /\ c = [key |-> Key("commentary", bridge'.recent.n), text |-> Last(Chunks(bridge.text))]
      BY <1>9, <2>3, <2>4, <2>5, <3>1
    <3>3. bridge.text = T
      BY <1>7, <2>2, <2>5, <3>2
    <3> QED BY <1>3, <2>7, <3>2, <3>3
  <2> QED BY <2>6, <2>7
<1>14. TextShownOnce'
  <2> SUFFICES ASSUME stream.whole, NEW c \in bridge'.chat, NEW d \in bridge'.chat, c # d,
                      NEW w \in ToSet(c.text), w \in ToSet(d.text)
               PROVE  w = EndMark
    BY DEF TextShownOnce, EndMark
  <2>1. ASSUME NEW a \in bridge.chat, w \in ToSet(a.text), w[1] \in bridge.deltas PROVE FALSE
    <3>1. Says(a, w[1])
      BY <2>1 DEF ToSet, Says
    <3>2. OfTurn(w[1]) /\ w[1] \in DOMAIN opencode.parts
      BY <1>1, <1>6, <2>1
    <3>3. w[1] \in bridge.closedParts
      BY <2>1, <3>1, <3>2 DEF HeardInv
    <3> QED BY <1>6, <2>1, <3>3
  <2>2. CASE c \in bridge.chat /\ d \in bridge.chat
    BY <2>2 DEF TextShownOnce
  <2>3. CASE ToSet(c.text) \subseteq {EndMark} \/ ToSet(d.text) \subseteq {EndMark}
    BY <2>3
  <2> QED BY <1>9, <2>1, <2>2, <2>3
<1> QED BY <1>10, <1>11, <1>12, <1>13, <1>14

(* The first event of a whole stream while a turn is open. *)
LEMMA FirstIs ==
    ASSUME StreamInv, stream.whole, bridge.open, EventArrives, NEW e, e = stream.events[1], e.type # "idle"
    PROVE  /\ MemoryInv /\ ChatInv /\ ReplyInv /\ TurnOrderInv /\ HeardInv /\ TextShownOnce
           /\ OfTurn(e.part)
           /\ \A q \in DOMAIN opencode.parts : OfTurn(q) /\ q < e.part => SentAll(1, q)
           /\ e.type \in {"delta", "ask"} => e.part \in bridge.types
           /\ e.type \in {"part", "ask"} /\ ~IsText(e.part) =>
                 (\A q \in bridge.types : q <= e.part) \/ (e.type = "part" /\ e.ended /\ e.part \in bridge.tools)
<1>1. WholeInv /\ TurnOrderInv /\ TextShownOnce /\ StreamTyped
  BY DEF StreamInv, WholeInv
<1>2. 1 \in DOMAIN stream.events
  BY <1>1, EventIs DEF Shifted
<1>3. HeardInOrder(1)
  BY <1>1, <1>2 DEF TurnOrderInv
<1>4. /\ OfTurn(e.part)
      /\ \A q \in DOMAIN opencode.parts : OfTurn(q) /\ q < e.part => SentAll(1, q)
      /\ e.type \in {"delta", "ask"} => SentPart(1, e.part)
      /\ e.type \in {"part", "ask"} /\ ~IsText(e.part) =>
            InPlace(1, e.part) \/ (e.type = "part" /\ e.ended /\ SentEnd(1, e.part))
  BY <1>3 DEF HeardInOrder
<1>5. 1 .. 1 - 1 = {}
  OBVIOUS
<1>6. (SentPart(1, e.part) => e.part \in bridge.types) /\ (SentEnd(1, e.part) => e.part \in bridge.tools)
  BY <1>5 DEF SentPart, SentEnd
<1>7. InPlace(1, e.part) => \A q \in bridge.types : q <= e.part
  BY DEF InPlace
<1> QED BY <1>1, <1>4, <1>6, <1>7 DEF WholeInv

(* An event the bridge does not act on. *)
LEMMA NotHeard ==
    ASSUME StreamInv, EventArrives, bridge' = bridge, NEW e, e = stream.events[1], e.type # "idle",
           stream.whole /\ bridge.open =>
              /\ e.type = "part" => e.part \in bridge.types /\ (e.ended => e.part \in bridge.tools)
              /\ e.type = "delta" => e.part \in bridge.closedParts \cup bridge.deltas
    PROVE  StreamInv'
<1>1. StreamTyped /\ AgentInv /\ EventInv /\ bridge \in BridgeStates
  BY TypedAgent DEF StreamInv
<1>2. Shifted /\ stream'.whole = stream.whole /\ opencode' = opencode
  BY <1>1, EventIs
<1>3. LastPart' = LastPart /\ \A q : (IsText(q) <=> IsText(q)') /\ (OfTurn(q) <=> OfTurn(q)')
  BY <1>1, <1>2, EventsShift
<1>4. IndicatorInv'
  BY DEF StreamInv, IndicatorInv
<1>5. ASSUME stream.whole
      PROVE  /\ TextShownOnce' /\ MemoryInv' /\ ChatInv' /\ ReplyInv'
             /\ opencode.at # "idle" => bridge'.open
             /\ bridge'.open => TurnOrderInv' /\ HeardInv'
  <2>1. WholeInv /\ MemoryInv /\ ChatInv /\ ReplyInv /\ TextShownOnce
    BY <1>5 DEF StreamInv, WholeInv
  <2>2. TextShownOnce'
    BY <1>2, <2>1 DEF TextShownOnce
  <2>3. MemoryInv' /\ ChatInv'
    BY <1>2, <1>3, <2>1 DEF MemoryInv, ChatInv, Says
  <2>4. ReplyInv'
    BY <1>2, <2>1 DEF ReplyInv, Says, Key
  <2>5. ASSUME bridge.open PROVE TurnOrderInv' /\ HeardInv'
    <3>1. TurnOrderInv /\ HeardInv
      BY <2>1, <2>5 DEF WholeInv
    <3>2. HeardInv'
      BY <1>2, <1>3, <3>1 DEF HeardInv, Says
    <3>3. \A q \in bridge.closedParts \cup bridge.tools : OfTurn(q) => q \in bridge.types
      BY <3>1 DEF TurnOrderInv
    <3>4. TurnOrderInv'
      BY <1>1, <1>2, <1>5, <2>5, <3>1, <3>3, OrderShifts
    <3> QED BY <3>2, <3>4
  <2> QED BY <2>1, <2>2, <2>3, <2>4, <2>5 DEF WholeInv
<1> QED BY <1>1, <1>4, <1>5, EventKeeps

LEMMA DeltaArrives ==
    ASSUME StreamInv, EventArrives, NEW e, e = stream.events[1], e.type = "delta"
    PROVE  StreamInv'
<1>1. StreamTyped /\ AgentInv /\ EventInv /\ bridge \in BridgeStates
  BY TypedAgent DEF StreamInv
<1>2. Shifted /\ stream'.whole = stream.whole /\ opencode' = opencode /\ Head(stream.events) = e
  BY <1>1, EventIs
<1>3. LastPart' = LastPart /\ \A q : (IsText(q) <=> IsText(q)') /\ (OfTurn(q) <=> OfTurn(q)')
  BY <1>1, <1>2, EventsShift
<1>4. DOMAIN opencode.parts = 1 .. LastPart /\ LastPart \in Nat /\ opencode.parts \in Seq(AgentParts)
  BY <1>1, TypedParts
<1>5. PICK p : p = e.part
  OBVIOUS
<1>6. p \in DOMAIN opencode.parts /\ IsText(p)
  <2>1. 1 \in DOMAIN stream.events
    BY <1>2 DEF Shifted
  <2> QED BY <1>1, <1>5, <2>1 DEF EventInv
<1>7. bridge' = DeltaAdded(bridge, p)
  BY <1>2, <1>5 DEF EventArrives
<1>8. PICK d : d = bridge'
  OBVIOUS
<1>9. /\ d \in BridgeStates /\ SameMood(bridge, d) /\ SameTalk(bridge, d)
      /\ d.types = bridge.types /\ d.openParts = bridge.openParts /\ d.closedParts = bridge.closedParts /\ d.tools = bridge.tools
      /\ \/ d = bridge /\ (p \in bridge.closedParts \/ p \notin bridge.types \/ p \in bridge.deltas)
         \/ /\ p \notin bridge.closedParts /\ p \in bridge.types /\ p \notin bridge.deltas
            /\ d.deltas = bridge.deltas \cup {p} /\ d.text = bridge.text \o WordsIn(opencode.parts, p)
  BY <1>1, <1>4, <1>6, <1>7, <1>8, DeltaIs
<1>10. CASE d = bridge /\ (p \in bridge.closedParts \/ p \notin bridge.types \/ p \in bridge.deltas)
  <2>1. stream.whole /\ bridge.open => p \in bridge.types
    BY <1>5, FirstIs
  <2> QED BY <1>5, <1>8, <1>10, <2>1, NotHeard
<1>11. CASE /\ p \notin bridge.closedParts /\ p \in bridge.types /\ p \notin bridge.deltas
            /\ d.deltas = bridge.deltas \cup {p} /\ d.text = bridge.text \o WordsIn(opencode.parts, p)
  <2>1. /\ bridge'.deltas = bridge.deltas \cup {p} /\ bridge'.types = bridge.types /\ bridge'.openParts = bridge.openParts
        /\ bridge'.closedParts = bridge.closedParts /\ bridge'.tools = bridge.tools
        /\ bridge'.text = bridge.text \o WordsIn(opencode.parts, p)
        /\ bridge'.open = bridge.open /\ bridge'.thinking = bridge.thinking /\ bridge'.typing = bridge.typing
        /\ bridge'.reply = bridge.reply /\ bridge'.comment = bridge.comment /\ bridge'.recent = bridge.recent
        /\ bridge'.chat = bridge.chat
    BY <1>8, <1>9, <1>11 DEF SameMood, SameTalk
  <2>2. IndicatorInv'
    BY <2>1 DEF StreamInv, IndicatorInv
  <2>3. ASSUME stream.whole
        PROVE  /\ TextShownOnce' /\ MemoryInv' /\ ChatInv' /\ ReplyInv'
               /\ opencode.at # "idle" => bridge'.open
               /\ bridge'.open => TurnOrderInv' /\ HeardInv'
    <3>1. WholeInv /\ MemoryInv /\ ChatInv /\ ReplyInv /\ TextShownOnce
      BY <2>3 DEF StreamInv, WholeInv
    <3>2. bridge.open
      BY <1>11, <3>1 DEF MemoryInv
    <3>3. TextShownOnce'
      BY <1>2, <2>1, <3>1 DEF TextShownOnce
    <3>4. MemoryInv'
      <4>1. p \in bridge.openParts
        BY <1>6, <1>11, <3>1 DEF MemoryInv
      <4>2. bridge'.text # <<>>
        <5>1. PICK w : w = WordsIn(opencode.parts, p)
          OBVIOUS
        <5>2. w \in Seq(WordsOfParts) /\ w # <<>> /\ bridge.text \in Seq(WordsOfParts)
          BY <1>1, <1>4, <1>6, <5>1, WordsOfPart DEF IsText, BridgeStates
        <5> QED BY <2>1, <5>1, <5>2, ConcatProperties, EmptySeq
      <4> QED BY <1>2, <1>3, <2>1, <3>1, <3>2, <4>1, <4>2 DEF MemoryInv
    <3>5. ChatInv'
      BY <1>3, <2>1, <3>1 DEF ChatInv, Says
    <3>6. ReplyInv'
      BY <1>2, <2>1, <3>1 DEF ReplyInv, Says, Key
    <3>7. TurnOrderInv /\ HeardInv /\ \A q \in DOMAIN opencode.parts : OfTurn(q) /\ q < p => SentAll(1, q)
      BY <1>5, <2>3, <3>2, FirstIs
    <3>8. OfTurn(p)
      BY <1>5, <2>3, <3>2, FirstIs
    <3>9. TurnOrderInv'
      <4>1. \A q \in bridge'.closedParts \cup bridge'.tools : OfTurn(q) => q \in bridge'.types
        BY <2>1, <3>7 DEF TurnOrderInv
      <4>2. bridge.closedParts \cup bridge.deltas \subseteq bridge'.closedParts \cup bridge'.deltas
        BY <2>1
      <4>3. e.type # "idle" /\ e.type # "part"
        OBVIOUS
      <4>4. e.part \in bridge'.closedParts \cup bridge'.deltas
        BY <1>5, <2>1
      <4> QED BY <1>1, <1>2, <2>1, <3>7, <4>1, <4>2, <4>3, <4>4, OrderShifts
    <3>10. HeardInv'
      <4>1. \A q \in DOMAIN opencode.parts : OfTurn(q) /\ IsText(q) /\ q < p => q \in bridge.closedParts \cup bridge.deltas
        <5>1. 1 .. 1 - 1 = {}
          OBVIOUS
        <5> QED BY <3>7, <5>1 DEF SentAll, SentWords
      <4>2. \A q \in bridge.deltas : q < p
        <5> SUFFICES ASSUME NEW q \in bridge.deltas PROVE q < p
          OBVIOUS
        <5>1. q \in 1 .. LastPart /\ p \in 1 .. LastPart /\ q # p
          BY <1>4, <1>6, <1>11, <3>1 DEF MemoryInv
        <5>2. ~(p < q)
          BY <1>6, <1>11, <3>7, <3>8 DEF HeardInv
        <5> QED BY <1>4, <5>1, <5>2
      <4>3. Flat(opencode.parts, bridge.deltas \cup {p}) = Flat(opencode.parts, bridge.deltas) \o WordsIn(opencode.parts, p)
        <5>1. PICK S : S = bridge.deltas
          OBVIOUS
        <5>2. Flat(opencode.parts, S \cup {p}) = Flat(opencode.parts, S) \o WordsIn(opencode.parts, p)
          BY <1>4, <1>6, <1>11, <4>2, <5>1, FlatGrows
        <5> QED BY <5>1, <5>2
      <4>4. bridge'.text = Flat(opencode'.parts, bridge'.deltas)
        <5>1. bridge.text = Flat(opencode.parts, bridge.deltas)
          BY <3>7 DEF HeardInv
        <5> QED BY <1>2, <2>1, <4>3, <5>1
      <4>5. (\A r \in bridge.deltas, q \in DOMAIN opencode.parts :
              OfTurn(q) /\ IsText(q) /\ q < r => q \in bridge.closedParts \cup bridge.deltas)'
        BY <1>2, <1>3, <2>1, <3>7, <4>1 DEF HeardInv
      <4>6. (\A c \in bridge.chat, q \in DOMAIN opencode.parts : OfTurn(q) /\ Says(c, q) => q \in bridge.closedParts)'
        BY <1>2, <1>3, <2>1, <3>7 DEF HeardInv, Says
      <4> QED BY <1>2, <1>3, <2>1, <3>7, <4>4, <4>5, <4>6 DEF HeardInv
    <3> QED BY <2>1, <3>1, <3>2, <3>3, <3>4, <3>5, <3>6, <3>9, <3>10
  <2> QED BY <1>8, <1>9, <2>2, <2>3, EventKeeps
<1> QED BY <1>9, <1>10, <1>11

(* A snapshot that is heard, in the bridge's next state. *)
LEMMA HeardPart ==
    ASSUME bridge \in BridgeStates, opencode.parts \in Seq(AgentParts),
           NEW p \in DOMAIN opencode.parts, NEW ended \in BOOLEAN, TextHeard(bridge, p, ended),
           NEW d, d = PartUpdated(bridge, p, ended)
    PROVE  /\ d \in BridgeStates /\ d.open = bridge.open
           /\ ((bridge.typing => bridge.thinking) => (d.typing => d.thinking))
           /\ d.types = bridge.types \cup {p} /\ d.tools = IF ended THEN bridge.tools \cup {p} ELSE bridge.tools
           /\ IsText(p) => /\ d.openParts = bridge.openParts \cup {p} /\ d.closedParts = bridge.closedParts
                           /\ d.deltas = bridge.deltas /\ d.text = bridge.text /\ SameTalk(bridge, d)
           /\ ~IsText(p) => ClosesUp(bridge, d)
<1>1. PICK b : b = bridge
  OBVIOUS
<1>2. b \in BridgeStates /\ TextHeard(b, p, ended) /\ d = PartUpdated(b, p, ended)
  BY <1>1
<1>3. LET x == PartUpdated(b, p, ended)
      IN /\ x \in BridgeStates /\ x.open = b.open /\ ((b.typing => b.thinking) => (x.typing => x.thinking))
         /\ x.types = b.types \cup {p} /\ x.tools = IF ended THEN b.tools \cup {p} ELSE b.tools
         /\ IsText(p) => /\ x.openParts = b.openParts \cup {p} /\ x.closedParts = b.closedParts
                         /\ x.deltas = b.deltas /\ x.text = b.text /\ SameTalk(b, x)
         /\ ~IsText(p) => ClosesUp(b, x)
  BY <1>2, PartIs, Zenon
<1> QED BY <1>1, <1>2, <1>3, Zenon

(* A text begins. *)
LEMMA TextBegins ==
    ASSUME StreamInv, EventArrives, NEW e, e = stream.events[1], e.type = "part", IsText(e.part),
           TextHeard(bridge, e.part, e.ended)
    PROVE  StreamInv'
<1>1. StreamTyped /\ AgentInv /\ EventInv /\ bridge \in BridgeStates
  BY TypedAgent DEF StreamInv
<1>2. Shifted /\ stream'.whole = stream.whole /\ opencode' = opencode /\ Head(stream.events) = e /\ e \in AgentEvents
  BY <1>1, EventIs
<1>3. LastPart' = LastPart /\ \A q : (IsText(q) <=> IsText(q)') /\ (OfTurn(q) <=> OfTurn(q)')
  BY <1>1, <1>2, EventsShift
<1>4. DOMAIN opencode.parts = 1 .. LastPart /\ LastPart \in Nat /\ opencode.parts \in Seq(AgentParts)
  BY <1>1, TypedParts
<1>5. PICK p : p = e.part
  OBVIOUS
<1>6. PICK ended : ended = e.ended
  OBVIOUS
<1>7. p \in DOMAIN opencode.parts /\ ended \in BOOLEAN /\ IsText(p) /\ TextHeard(bridge, p, ended) /\ ended = FALSE
  <2>1. 1 \in DOMAIN stream.events
    BY <1>2 DEF Shifted
  <2>2. e.ended \in BOOLEAN
    BY <1>2, Zenon DEF AgentEvents
  <2>3. e.ended => IsTool(e.part)
    BY <1>1, <2>1 DEF EventInv
  <2>4. ~e.ended
    BY <2>3 DEF IsTool, IsText, TextKinds, ToolKinds
  <2> QED BY <1>1, <1>5, <1>6, <2>1, <2>2, <2>4 DEF EventInv
<1>8. bridge' = PartUpdated(bridge, p, ended)
  BY <1>2, <1>5, <1>6 DEF EventArrives
<1>9. PICK d : d = bridge'
  OBVIOUS
<1>10. /\ d \in BridgeStates /\ d.open = bridge.open
       /\ ((bridge.typing => bridge.thinking) => (d.typing => d.thinking))
       /\ d.types = bridge.types \cup {p} /\ d.tools = IF ended THEN bridge.tools \cup {p} ELSE bridge.tools
       /\ IsText(p) => /\ d.openParts = bridge.openParts \cup {p} /\ d.closedParts = bridge.closedParts
                       /\ d.deltas = bridge.deltas /\ d.text = bridge.text /\ SameTalk(bridge, d)
       /\ ~IsText(p) => ClosesUp(bridge, d)
  BY <1>1, <1>4, <1>7, <1>8, <1>9, HeardPart, ZenonT(60)
<1>11. bridge.open /\ p \notin bridge.closedParts
  BY <1>7 DEF TextHeard
<1>12. /\ bridge'.open /\ bridge'.types = bridge.types \cup {p} /\ bridge'.tools = bridge.tools
       /\ bridge'.openParts = bridge.openParts \cup {p} /\ bridge'.closedParts = bridge.closedParts
       /\ bridge'.deltas = bridge.deltas /\ bridge'.text = bridge.text
       /\ bridge'.reply = bridge.reply /\ bridge'.comment = bridge.comment /\ bridge'.recent = bridge.recent
       /\ bridge'.chat = bridge.chat
  BY <1>7, <1>9, <1>10, <1>11 DEF SameTalk
<1>13. IndicatorInv'
  BY <1>9, <1>10, <1>12, Zenon DEF StreamInv, IndicatorInv
<1>14. ASSUME stream.whole
       PROVE  /\ TextShownOnce' /\ MemoryInv' /\ ChatInv' /\ ReplyInv'
              /\ opencode.at # "idle" => bridge'.open
              /\ bridge'.open => TurnOrderInv' /\ HeardInv'
  <2>1. MemoryInv /\ ChatInv /\ ReplyInv /\ TurnOrderInv /\ HeardInv /\ TextShownOnce /\ OfTurn(p)
        /\ \A q \in DOMAIN opencode.parts : OfTurn(q) /\ q < p => SentAll(1, q)
    BY <1>5, <1>11, <1>14, FirstIs
  <2>2. TextShownOnce'
    BY <1>2, <1>12, <2>1 DEF TextShownOnce
  <2>3. MemoryInv'
    BY <1>2, <1>3, <1>7, <1>11, <1>12, <2>1 DEF MemoryInv
  <2>4. ChatInv'
    BY <1>3, <1>12, <2>1 DEF ChatInv, Says
  <2>5. ReplyInv'
    BY <1>2, <1>12, <2>1 DEF ReplyInv, Says, Key
  <2>6. TurnOrderInv'
    <3>1. \A q \in bridge'.closedParts \cup bridge'.tools : OfTurn(q) => q \in bridge'.types
      BY <1>12, <2>1 DEF TurnOrderInv
    <3>2. /\ e.type # "idle" /\ e.type # "delta" /\ ~e.ended
          /\ bridge.types \subseteq bridge'.types
          /\ \A q \in bridge'.types : q \in bridge.types \/ q = e.part
          /\ bridge.closedParts \cup bridge.deltas \subseteq bridge'.closedParts \cup bridge'.deltas
          /\ bridge.tools \subseteq bridge'.tools /\ e.part \in bridge'.types
      BY <1>5, <1>6, <1>7, <1>12
    <3> QED BY <1>1, <1>2, <2>1, <3>1, <3>2, OrderShifts
  <2>7. HeardInv'
    <3>1. \A q \in DOMAIN opencode.parts : OfTurn(q) /\ q < p => q \in bridge.types
      <4>1. 1 .. 1 - 1 = {}
        OBVIOUS
      <4> QED BY <2>1, <4>1 DEF SentAll, SentPart
    <3>2. (\A r \in bridge.types, q \in DOMAIN opencode.parts : OfTurn(q) /\ q < r => q \in bridge.types)'
      BY <1>2, <1>3, <1>12, <2>1, <3>1 DEF HeardInv
    <3>3. (\A s \in bridge.types, q \in DOMAIN opencode.parts :
          ~IsText(s) /\ OfTurn(q) /\ IsText(q) /\ q < s => q \in bridge.closedParts)'
      BY <1>2, <1>3, <1>7, <1>12, <2>1 DEF HeardInv
    <3>4. (\A r \in bridge.closedParts : OfTurn(r) => \E s \in bridge.types : ~IsText(s) /\ r < s)'
      BY <1>3, <1>12, <2>1 DEF HeardInv
    <3>5. (bridge.text = Flat(opencode.parts, bridge.deltas))'
      BY <1>2, <1>12, <2>1 DEF HeardInv
    <3> QED BY <1>2, <1>3, <1>12, <2>1, <3>2, <3>3, <3>4, <3>5 DEF HeardInv, Says
  <2> QED BY <1>12, <2>2, <2>3, <2>4, <2>5, <2>6, <2>7
<1> QED BY <1>9, <1>10, <1>13, <1>14, EventKeeps

(* Another part begins or goes on, or the agent asks. *)
LEMMA OtherBegins ==
    ASSUME StreamInv, EventArrives, NEW e, e = stream.events[1], e.type \in {"part", "ask"}, ~IsText(e.part),
           bridge.open, ~(e.type = "part" /\ e.ended /\ e.part \in bridge.tools),
           bridge' \in BridgeStates, bridge'.open, bridge'.typing => bridge'.thinking, ClosesUp(bridge, bridge'),
           bridge'.types = IF e.type = "part" THEN bridge.types \cup {e.part} ELSE bridge.types,
           bridge'.tools = IF e.type = "part" /\ e.ended THEN bridge.tools \cup {e.part} ELSE bridge.tools
    PROVE  StreamInv'
<1>1. StreamTyped /\ AgentInv /\ EventInv /\ bridge \in BridgeStates
  BY TypedAgent DEF StreamInv
<1>2. Shifted /\ stream'.whole = stream.whole /\ opencode' = opencode
  BY <1>1, EventIs
<1>3. IndicatorInv'
  BY DEF IndicatorInv
<1>4. ASSUME stream.whole
      PROVE  /\ TextShownOnce' /\ MemoryInv' /\ ChatInv' /\ ReplyInv' /\ TurnOrderInv' /\ HeardInv'
  <2>1. e.type # "idle" /\ e.type # "delta" /\ (e.type = "ask" => e.type \in {"delta", "ask"})
    OBVIOUS
  <2>2. /\ MemoryInv /\ ChatInv /\ ReplyInv /\ TurnOrderInv /\ HeardInv /\ TextShownOnce /\ OfTurn(e.part)
        /\ \A q \in DOMAIN opencode.parts : OfTurn(q) /\ q < e.part => SentAll(1, q)
        /\ e.type = "ask" => e.part \in bridge.types
        /\ \A q \in bridge.types : q <= e.part
    BY <1>4, <2>1, FirstIs
  <2>3. bridge'.types = bridge.types \cup {e.part} /\ bridge'.tools \subseteq bridge.tools \cup {e.part}
    BY <2>2
  <2>4. MemoryInv' /\ ChatInv' /\ ReplyInv' /\ HeardInv' /\ TextShownOnce'
    BY <1>1, <1>2, <2>2, <2>3, ClosesKeeps
  <2>5. TurnOrderInv'
    <3>1. bridge'.closedParts = bridge.closedParts \cup bridge.openParts
      BY DEF ClosesUp
    <3>2. bridge.deltas \subseteq bridge.openParts /\ bridge.openParts \subseteq bridge.types
      BY <2>2 DEF MemoryInv
    <3>3. \A q \in bridge'.closedParts \cup bridge'.tools : OfTurn(q) => q \in bridge'.types
      BY <2>2, <2>3, <3>1, <3>2 DEF TurnOrderInv
    <3>4. /\ bridge.types \subseteq bridge'.types
          /\ \A q \in bridge'.types : q \in bridge.types \/ q = e.part
          /\ bridge.closedParts \cup bridge.deltas \subseteq bridge'.closedParts \cup bridge'.deltas
          /\ bridge.tools \subseteq bridge'.tools /\ e.part \in bridge'.types
          /\ e.type = "part" /\ e.ended => e.part \in bridge'.tools
      BY <2>3, <3>1, <3>2
    <3> QED BY <1>1, <1>2, <2>1, <2>2, <3>3, <3>4, OrderShifts
  <2> QED BY <2>4, <2>5
<1> QED BY <1>3, <1>4, EventKeeps

LEMMA PartArrives ==
    ASSUME StreamInv, EventArrives, NEW e, e = stream.events[1], e.type = "part"
    PROVE  StreamInv'
<1>1. StreamTyped /\ AgentInv /\ EventInv /\ bridge \in BridgeStates /\ (bridge.typing => bridge.thinking)
  BY TypedAgent DEF StreamInv, IndicatorInv
<1>2. Shifted /\ Head(stream.events) = e /\ e \in AgentEvents
  BY <1>1, EventIs
<1>3. opencode.parts \in Seq(AgentParts)
  BY <1>1, TypedParts
<1>4. e.part \in DOMAIN opencode.parts /\ e.ended \in BOOLEAN /\ (e.ended => IsTool(e.part))
  <2>1. 1 \in DOMAIN stream.events
    BY <1>2 DEF Shifted
  <2>2. e.ended \in BOOLEAN
    BY <1>2, Zenon DEF AgentEvents
  <2> QED BY <1>1, <2>1, <2>2 DEF EventInv
<1>5. bridge' = PartUpdated(bridge, e.part, e.ended)
  BY <1>2 DEF EventArrives
<1>6. CASE ~TextHeard(bridge, e.part, e.ended)
  <2>1. bridge' = bridge
    BY <1>5, <1>6 DEF PartUpdated
  <2>2. ASSUME stream.whole, bridge.open PROVE e.part \in bridge.types /\ (e.ended => e.part \in bridge.tools)
    <3>1. TurnOrderInv /\ OfTurn(e.part) /\ MemoryInv
      BY <2>2, FirstIs
    <3>2. CASE e.ended /\ e.part \in bridge.tools
      BY <3>1, <3>2 DEF TurnOrderInv
    <3>3. CASE e.part \in bridge.closedParts
      <4>1. IsText(e.part) /\ e.part \in bridge.types
        BY <3>1, <3>3 DEF TurnOrderInv, MemoryInv
      <4>2. ~e.ended
        BY <1>4, <4>1 DEF IsTool, IsText, TextKinds, ToolKinds
      <4> QED BY <4>1, <4>2
    <3> QED BY <1>6, <2>2, <3>2, <3>3 DEF TextHeard
  <2> QED BY <2>1, <2>2, NotHeard
<1>7. CASE TextHeard(bridge, e.part, e.ended) /\ IsText(e.part)
  BY <1>7, TextBegins
<1>8. CASE TextHeard(bridge, e.part, e.ended) /\ ~IsText(e.part)
  <2>1. PICK p : p = e.part
    OBVIOUS
  <2>2. PICK ended : ended = e.ended
    OBVIOUS
  <2>3. PICK d : d = bridge'
    OBVIOUS
  <2>4. /\ d \in BridgeStates /\ d.open = bridge.open
        /\ ((bridge.typing => bridge.thinking) => (d.typing => d.thinking))
        /\ d.types = bridge.types \cup {p} /\ d.tools = IF ended THEN bridge.tools \cup {p} ELSE bridge.tools
        /\ IsText(p) => /\ d.openParts = bridge.openParts \cup {p} /\ d.closedParts = bridge.closedParts
                        /\ d.deltas = bridge.deltas /\ d.text = bridge.text /\ SameTalk(bridge, d)
        /\ ~IsText(p) => ClosesUp(bridge, d)
    <3>1. p \in DOMAIN opencode.parts /\ ended \in BOOLEAN /\ TextHeard(bridge, p, ended)
          /\ d = PartUpdated(bridge, p, ended)
      BY <1>4, <1>5, <1>8, <2>1, <2>2, <2>3
    <3>2. bridge \in BridgeStates
      BY <1>1
    <3>3. p \in DOMAIN opencode.parts
      BY <3>1
    <3>4. ended \in BOOLEAN
      BY <3>1
    <3>5. TextHeard(bridge, p, ended)
      BY <3>1
    <3>6. d = PartUpdated(bridge, p, ended)
      BY <3>1
    <3> QED BY <1>3, <3>2, <3>3, <3>4, <3>5, <3>6, HeardPart, ZenonT(60)
  <2>5. bridge.open /\ ~(e.ended /\ e.part \in bridge.tools)
    BY <1>8 DEF TextHeard
  <2>6. ClosesUp(bridge, bridge') /\ bridge' \in BridgeStates
    BY <1>8, <2>1, <2>3, <2>4
  <2>7. bridge'.typing => bridge'.thinking
    BY <1>1, <2>3, <2>4, Zenon
  <2>8. bridge'.open /\ bridge'.types = bridge.types \cup {e.part}
    BY <2>1, <2>3, <2>4, <2>5
  <2>9. bridge'.tools = IF e.type = "part" /\ e.ended THEN bridge.tools \cup {e.part} ELSE bridge.tools
    BY <2>1, <2>2, <2>3, <2>4
  <2> QED BY <1>8, <2>5, <2>6, <2>7, <2>8, <2>9, OtherBegins
<1> QED BY <1>6, <1>7, <1>8

LEMMA AskArrives ==
    ASSUME StreamInv, EventArrives, NEW e, e = stream.events[1], e.type = "ask"
    PROVE  StreamInv'
<1>1. StreamTyped /\ AgentInv /\ EventInv /\ bridge \in BridgeStates /\ (bridge.typing => bridge.thinking)
  BY TypedAgent DEF StreamInv, IndicatorInv
<1>2. Shifted /\ Head(stream.events) = e
  BY <1>1, EventIs
<1>3. e.part \in DOMAIN opencode.parts /\ IsTool(e.part)
  <2>1. 1 \in DOMAIN stream.events
    BY <1>2 DEF Shifted
  <2> QED BY <1>1, <2>1 DEF EventInv
<1>4. bridge' = AskedFor(bridge, e.part)
  BY <1>2 DEF EventArrives
<1>5. CASE ~bridge.open
  <2>1. bridge' = bridge
    BY <1>4, <1>5 DEF AskedFor
  <2> QED BY <1>5, <2>1, NotHeard
<1>6. CASE bridge.open
  <2>1. PICK p : p = e.part
    OBVIOUS
  <2>2. p \in Nat
    BY <1>1, <1>3, <2>1, TypedParts
  <2>3. PICK d : d = bridge'
    OBVIOUS
  <2>4. d = AskedFor(bridge, p)
    BY <1>4, <2>1, <2>3
  <2>5. /\ d \in BridgeStates /\ d.open = bridge.open
        /\ ((bridge.typing => bridge.thinking) => (d.typing => d.thinking))
        /\ d.types = bridge.types /\ d.tools = bridge.tools /\ ClosesUp(bridge, d)
    BY <1>1, <1>6, <2>2, <2>4, AskedIs
  <2>6. bridge'.typing => bridge'.thinking
    BY <1>1, <2>3, <2>5, Zenon
  <2>7. ~IsText(e.part)
    BY <1>3 DEF IsTool, IsText, TextKinds, ToolKinds
  <2> QED BY <1>6, <2>3, <2>5, <2>6, <2>7, OtherBegins
<1> QED BY <1>5, <1>6

(* At the end of a whole turn every text has been shown. *)
LEMMA NothingLeft ==
    ASSUME StreamInv, stream.whole, EventArrives, stream.events[1].type = "idle"
    PROVE  bridge.text = <<>>
<1>1. StreamTyped /\ AgentInv /\ WholeInv /\ MemoryInv
  BY DEF StreamInv, WholeInv
<1>2. CASE ~bridge.open
  BY <1>1, <1>2 DEF MemoryInv
<1>3. CASE bridge.open
  <2>1. TurnOrderInv /\ HeardInv
    BY <1>1, <1>3 DEF WholeInv
  <2>2. 1 \in DOMAIN stream.events
    BY <1>1, EventIs DEF Shifted
  <2>3. opencode.at = "idle" /\ \A q \in DOMAIN opencode.parts : OfTurn(q) => SentAll(1, q)
    BY <2>1, <2>2 DEF TurnOrderInv, HeardInOrder
  <2>4. DOMAIN opencode.parts = 1 .. LastPart /\ LastPart \in Nat /\ opencode.parts \in Seq(AgentParts)
    BY <1>1, TypedParts
  <2>5. ASSUME NEW q \in bridge.deltas PROVE FALSE
    <3>1. q \in 1 .. LastPart /\ OfTurn(q) /\ IsText(q) /\ q \notin bridge.closedParts
      BY <1>1, <2>1, <2>4 DEF MemoryInv, TurnOrderInv
    <3>2. OfTurn(LastPart)
      <4>1. CASE q = LastPart
        BY <3>1, <4>1
      <4>2. CASE q < LastPart
        <5>1. opencode.parts[q].turn <= opencode.parts[LastPart].turn /\ opencode.parts[LastPart].turn <= opencode.turn
          BY <1>1, <2>4, <3>1, <4>2 DEF AgentInv
        <5>2. opencode.parts[LastPart].turn \in Nat /\ opencode.turn \in Nat /\ opencode.parts[q].turn = opencode.turn
          BY <1>1, <2>4, <3>1, TypedParts DEF OfTurn
        <5> QED BY <2>4, <3>1, <5>1, <5>2 DEF OfTurn
      <4> QED BY <2>4, <3>1, <4>1, <4>2
    <3>3. ~IsText(LastPart)
      BY <1>1, <2>3, <3>2 DEF AgentInv
    <3>4. LastPart \in bridge.types
      <4>1. 1 .. 1 - 1 = {}
        OBVIOUS
      <4>2. SentPart(1, LastPart)
        BY <2>3, <2>4, <3>1, <3>2 DEF SentAll
      <4> QED BY <4>1, <4>2 DEF SentPart
    <3>5. q < LastPart
      <4>1. q # LastPart
        BY <3>1, <3>3
      <4> QED BY <2>4, <3>1, <4>1
    <3> QED BY <2>1, <2>4, <3>1, <3>3, <3>4, <3>5 DEF HeardInv
  <2>6. bridge.deltas = {}
    BY <2>5
  <2> QED BY <2>1, <2>4, <2>6, FlatOfNone DEF HeardInv
<1> QED BY <1>2, <1>3

LEMMA IdleArrives ==
    ASSUME StreamInv, EventArrives, NEW e, e = stream.events[1], e.type = "idle"
    PROVE  StreamInv'
<1>1. StreamTyped /\ AgentInv /\ EventInv /\ bridge \in BridgeStates /\ (bridge.typing => bridge.thinking)
  BY TypedAgent DEF StreamInv, IndicatorInv
<1>2. Shifted /\ stream'.whole = stream.whole /\ opencode' = opencode /\ Head(stream.events) = e
  BY <1>1, EventIs
<1>3. LastPart' = LastPart /\ \A q : (IsText(q) <=> IsText(q)') /\ (OfTurn(q) <=> OfTurn(q)')
  BY <1>1, <1>2, EventsShift
<1>4. bridge' = WentIdle(bridge)
  BY <1>2 DEF EventArrives
<1>5. PICK k : k = Thinking(bridge, FALSE)
  OBVIOUS
<1>6. /\ k \in BridgeStates /\ SameTexts(bridge, k) /\ SameTalk(bridge, k) /\ k.open = bridge.open
      /\ ((bridge.typing => bridge.thinking) => (k.typing => FALSE))
  <2>1. bridge \in BridgeStates
    BY <1>1
  <2>2. /\ k \in BridgeStates /\ SameTexts(bridge, k) /\ SameTalk(bridge, k) /\ k.open = bridge.open
        /\ k.thinking = FALSE /\ ((bridge.typing => bridge.thinking) => (k.typing => FALSE))
    BY <1>5, <2>1, ThinkingIs
  <2> QED BY <2>2, Zenon
<1>7. ~k.typing
  BY <1>1, <1>6, Zenon
<1>8. PICK r : r = IF bridge.text # <<>> /\ bridge.meta THEN TextReplied(k, bridge.text) ELSE k
  OBVIOUS
<1>9. r \in BridgeStates /\ ~r.typing /\ (bridge.text = <<>> => r = k)
  <2>1. CASE bridge.text # <<>> /\ bridge.meta
    <3>1. PICK text : text = bridge.text
      OBVIOUS
    <3>2. text \in Seq(WordsOfParts) /\ text # <<>> /\ r = TextReplied(k, text)
      BY <1>1, <1>8, <2>1, <3>1 DEF BridgeStates
    <3>3. r \in BridgeStates /\ r.typing = FALSE
      BY <1>6, <3>2, RepliedIs
    <3> QED BY <2>1, <3>3
  <2>2. CASE ~(bridge.text # <<>> /\ bridge.meta)
    <3>1. r = k
      BY <1>8, <2>2
    <3> QED BY <1>6, <1>7, <3>1
  <2> QED BY <2>1, <2>2
<1>10. PICK d : d = bridge'
  OBVIOUS
<1>11. d = TurnClosed(r)
  BY <1>4, <1>5, <1>8, <1>10 DEF WentIdle
<1>12. /\ d \in BridgeStates /\ d.open = FALSE /\ d.typing = r.typing
       /\ d.types = {} /\ d.text = <<>> /\ d.deltas = {} /\ d.openParts = {}
       /\ d.closedParts = r.closedParts \cup r.openParts /\ d.tools = r.tools
       /\ d.reply = 0 /\ d.comment = 0 /\ d.recent = r.recent /\ d.chat = r.chat
  BY <1>9, <1>11, ClosedIs
<1>13. IndicatorInv'
  BY <1>9, <1>10, <1>12 DEF IndicatorInv
<1>14. ASSUME stream.whole
       PROVE  /\ TextShownOnce' /\ MemoryInv' /\ ChatInv' /\ ReplyInv'
              /\ opencode.at # "idle" => bridge'.open
              /\ bridge'.open => TurnOrderInv' /\ HeardInv'
  <2>1. WholeInv /\ MemoryInv /\ ChatInv /\ ReplyInv /\ TextShownOnce
    BY <1>14 DEF StreamInv, WholeInv
  <2>2. r = k
    BY <1>9, <1>14, NothingLeft
  <2>3. /\ bridge'.open = FALSE /\ bridge'.types = {} /\ bridge'.text = <<>> /\ bridge'.deltas = {} /\ bridge'.openParts = {}
        /\ bridge'.closedParts = bridge.closedParts \cup bridge.openParts /\ bridge'.tools = bridge.tools
        /\ bridge'.reply = 0 /\ bridge'.comment = 0 /\ bridge'.recent = bridge.recent /\ bridge'.chat = bridge.chat
    BY <1>6, <1>10, <1>12, <2>2 DEF SameTexts, SameTalk
  <2>4. TextShownOnce'
    BY <1>2, <2>1, <2>3 DEF TextShownOnce
  <2>5. MemoryInv'
    BY <1>2, <1>3, <2>1, <2>3 DEF MemoryInv
  <2>6. ChatInv'
    BY <1>3, <2>1, <2>3 DEF ChatInv, Says
  <2>7. ReplyInv'
    BY <1>2, <2>1, <2>3 DEF ReplyInv, Says, Key
  <2>8. opencode.at = "idle"
    <3>1. CASE ~bridge.open
      BY <2>1, <3>1 DEF WholeInv
    <3>2. CASE bridge.open
      <4>1. 1 \in DOMAIN stream.events /\ TurnOrderInv
        BY <1>2, <2>1, <3>2 DEF Shifted, WholeInv
      <4> QED BY <4>1 DEF TurnOrderInv, HeardInOrder
    <3> QED BY <3>1, <3>2
  <2> QED BY <2>3, <2>4, <2>5, <2>6, <2>7, <2>8
<1> QED BY <1>10, <1>12, <1>13, <1>14, EventKeeps

LEMMA EventArrivesKeeps == ASSUME StreamInv, EventArrives PROVE StreamInv'
<1>1. PICK e : e = stream.events[1]
  OBVIOUS
<1>2. StreamTyped
  BY DEF StreamInv
<1>3. e.type \in {"part", "delta", "ask", "idle"}
  BY <1>1, <1>2, EventIs, TypedEvents DEF Shifted
<1> QED BY <1>1, <1>3, PartArrives, DeltaArrives, AskArrives, IdleArrives

LEMMA StreamStarts == ASSUME StreamInit PROVE StreamInv
<1>1. /\ opencode.turn = 0 /\ opencode.at = "idle" /\ opencode.http = "none" /\ opencode.parts = <<>>
      /\ opencode \in AgentStates
  <2>1. PICK t : t = <<>>
    OBVIOUS
  <2>2. t \in Seq(AgentParts) /\ opencode = [turn |-> 0, at |-> "idle", http |-> "none", parts |-> t]
    BY <2>1 DEF StreamInit
  <2> QED BY <2>1, <2>2 DEF AgentStates
<1>2. /\ stream.events = <<>> /\ stream \in [events : Seq(AgentEvents), faults : Nat, whole : BOOLEAN]
  <2>1. PICK t : t = <<>>
    OBVIOUS
  <2>2. t \in Seq(AgentEvents) /\ stream = [events |-> t, faults |-> 0, whole |-> TRUE]
    BY <2>1 DEF StreamInit
  <2> QED BY <2>1, <2>2
<1>3. bridge \in BridgeStates
  <2>1. PICK t : t = <<>>
    OBVIOUS
  <2>2. PICK r : r = [text |-> t, n |-> 0]
    OBVIOUS
  <2>3. t \in Seq(WordsOfParts) /\ r \in [text : Seq(WordsOfParts), n : Nat]
    BY <2>1, <2>2
  <2>4. bridge = [open |-> TRUE, meta |-> FALSE, text |-> t, types |-> {}, deltas |-> {},
                 openParts |-> {}, closedParts |-> {}, tools |-> {},
                 thinking |-> FALSE, typing |-> FALSE, todo |-> {}, links |-> {},
                 reply |-> 0, comment |-> 0, recent |-> r,
                 replies |-> 0, comments |-> 0, chat |-> {}]
    BY <2>1, <2>2 DEF StreamInit
  <2> QED BY <2>3, <2>4 DEF BridgeStates
<1>4. /\ bridge.text = <<>> /\ bridge.types = {} /\ bridge.deltas = {} /\ bridge.openParts = {} /\ bridge.closedParts = {}
      /\ bridge.tools = {} /\ bridge.typing = FALSE /\ bridge.reply = 0 /\ bridge.comment = 0 /\ bridge.chat = {}
      /\ bridge.open
  BY DEF StreamInit
<1>5. StreamTyped
  BY <1>1, <1>2, <1>3 DEF StreamTyped, AgentStates
<1>6. DOMAIN opencode.parts = {} /\ DOMAIN stream.events = {} /\ opencode.parts \in Seq(AgentParts)
  BY <1>1, <1>2, <1>5, TypedParts
<1>7. \A p : ~OfTurn(p)
  BY <1>6 DEF OfTurn
<1>8. AgentInv
  BY <1>1, <1>6, <1>7 DEF AgentInv
<1>9. EventInv /\ IndicatorInv /\ TextShownOnce
  BY <1>4, <1>6 DEF EventInv, IndicatorInv, TextShownOnce
<1>10. MemoryInv /\ ChatInv /\ ReplyInv
  BY <1>4 DEF MemoryInv, ChatInv, ReplyInv
<1>11. TurnOrderInv
  BY <1>1, <1>4, <1>6, <1>7 DEF TurnOrderInv, SentInv
<1>12. HeardInv
  BY <1>4, <1>6, FlatOfNone DEF HeardInv
<1> QED BY <1>1, <1>5, <1>8, <1>9, <1>10, <1>11, <1>12 DEF StreamInv, WholeInv

LEMMA StreamGoesOn == ASSUME StreamInv, [StreamNext]_streaming PROVE StreamInv'
<1>1. CASE UNCHANGED streaming
  <2>1. opencode' = opencode /\ stream' = stream /\ bridge' = bridge
    BY <1>1 DEF streaming
  <2>2. StreamTyped' /\ AgentInv' /\ EventInv' /\ IndicatorInv' /\ TextShownOnce'
    BY <2>1 DEF StreamInv, StreamTyped, AgentInv, EventInv, IndicatorInv, TextShownOnce, IsText, IsTool, OfTurn, LastPart
  <2>3. ASSUME stream.whole PROVE WholeInv'
    <3>1. WholeInv
      BY <2>3 DEF StreamInv
    <3>2. \A q : (IsText(q) <=> IsText(q)') /\ (OfTurn(q) <=> OfTurn(q)')
      BY <2>1 DEF IsText, OfTurn
    <3>3. LastPart' = LastPart
      BY <2>1 DEF LastPart
    <3>4. MemoryInv' /\ ChatInv'
      BY <2>1, <3>1, <3>2, <3>3 DEF WholeInv, MemoryInv, ChatInv, Says
    <3>5. ReplyInv'
      BY <2>1, <3>1 DEF WholeInv, ReplyInv, Says, Key
    <3>6. bridge.open => TurnOrderInv'
      BY <2>1, <3>1, OrderSame DEF WholeInv
    <3>7. bridge.open => HeardInv'
      BY <2>1, <3>1, <3>2 DEF WholeInv, HeardInv, Says
    <3> QED BY <2>1, <3>1, <3>4, <3>5, <3>6, <3>7 DEF WholeInv
  <2> QED BY <2>1, <2>2, <2>3 DEF StreamInv
<1>2. CASE StreamNext
  BY <1>2, TurnStartedKeeps, PartBeginsKeeps, TextArrivesKeeps, ToolAsksKeeps, ToolEndsKeeps, TurnDoneKeeps,
     HttpAnsweredKeeps, HttpFailedKeeps, EventArrivesKeeps, EventRepeatsKeeps, StreamBreaksKeeps, LinkReadyKeeps
     DEF StreamNext
<1> QED BY <1>1, <1>2

LEMMA StreamReads == ASSUME StreamInv PROVE ChatReadsWell
BY DEF StreamInv, IndicatorInv, ChatReadsWell, QuietBetweenTurns

=============================================================================
