------------------------------ MODULE StreamingTurn ------------------------------
(***************************************************************************)
(* How a turn of one OpenCode session reaches Telegram (the streaming      *)
(* bridges, telegram-outbox.service.ts).  A turn speaks over two channels  *)
(* that know nothing of each other: server-sent events, which the runtime  *)
(* bridge turns into commentary, cards and questions, and the HTTP answer, *)
(* which the events bridge turns into the final reply.                     *)
(*                                                                         *)
(* A text is a sequence of words <<part, n>>; a message holds two words.   *)
(* Both bridges run synchronously on each event.                           *)
(***************************************************************************)
EXTENDS Naturals, Sequences, SequencesExt

CONSTANTS
    PartKinds,  \* bound: the kinds of parts OpenCode creates
    MaxTurns,   \* bound: turns
    MaxParts,   \* bound: message parts OpenCode creates
    MaxEvents,  \* bound: events on their way
    MaxFaults   \* bound: events that arrive twice, and reconnects

ASSUME StreamBounds ==
    /\ PartKinds \subseteq {"text", "long", "bash", "todo", "file", "reasoning", "step"}
    /\ {MaxTurns, MaxParts, MaxEvents, MaxFaults} \subseteq Nat

PartIds == 1 .. MaxParts
TextKinds == {"text", "long"}
ToolKinds == {"bash", "todo", "file"}

VARIABLES
    opencode, \* the agent: turns started, its work, its HTTP answer, its parts
    stream,   \* events on their way, and the faults so far
    bridge    \* memory of the bridges and the outbox service; the chat

streaming == <<opencode, stream, bridge>>

(* A bubble of the chat is an outbox key; key 0 of a kind is a plain item. *)
Key(kind, n) == [kind |-> kind, n |-> n]

StreamInit ==
    /\ opencode = [turn |-> 0, at |-> "idle", http |-> "none", parts |-> <<>>]
    /\ stream = [events |-> <<>>, faults |-> 0, whole |-> TRUE]
    /\ bridge = [open |-> TRUE, meta |-> FALSE, text |-> <<>>, types |-> {}, deltas |-> {},
                 openParts |-> {}, closedParts |-> {}, tools |-> {},
                 thinking |-> FALSE, typing |-> FALSE, todo |-> {}, links |-> {},
                 reply |-> 0, comment |-> 0, recent |-> [text |-> <<>>, n |-> 0],
                 replies |-> 0, comments |-> 0, chat |-> {}]

-----------------------------------------------------------------------------
(* Texts and the chat *)

Words(p) == CASE opencode.parts[p].kind = "text" -> <<<<p, 1>>>>
              [] opencode.parts[p].kind = "long" -> <<<<p, 1>>, <<p, 2>>, <<p, 3>>>>
              [] OTHER -> <<>>

(* What a card shows once its command has ended. *)
EndMark == <<0, 1>>

(* splitTelegramText *)
Chunks(text) == IF Len(text) <= 2 THEN <<text>>
                ELSE [i \in 1 .. (Len(text) + 1) \div 2 |->
                         SubSeq(text, 2 * i - 1, IF 2 * i < Len(text) THEN 2 * i ELSE Len(text))]

(* A replace item: the bubble of its key shows the newest text only. *)
Put(b, key, text) ==
    [b EXCEPT !.chat = {c \in @ : c.key # key} \cup {[key |-> key, text |-> text]}]

Post(b, texts) == [b EXCEPT !.chat = @ \cup {[key |-> Key("plain", 0), text |-> t] : t \in texts}]

(* extractFinalOpenCodeText: the last run of text parts of the turn. *)
FinalText ==
    LET P == opencode.parts
        isText(p) == P[p].kind \in TextKinds /\ P[p].turn = opencode.turn
        ends == {p \in DOMAIN P : isText(p) /\ \A q \in DOMAIN P : isText(q) => q <= p}
        run == {p \in DOMAIN P : \E e \in ends : \A q \in p .. e : p <= e /\ isText(q)}
    IN FlattenSeq([p \in DOMAIN P |-> IF p \in run THEN Words(p) ELSE <<>>])

(* enqueueAssistantCommentary: every chunk takes the segment's bubble. *)
Commented(b, text) ==
    LET n == IF b.comment # 0 THEN b.comment ELSE b.comments + 1
    IN Put([b EXCEPT !.comment = n, !.comments = IF b.comment # 0 THEN @ ELSE n,
                     !.recent = [text |-> text, n |-> n]],
           Key("commentary", n), Last(Chunks(text)))

(* enqueueAssistantReply: the last commentary's bubble when it says the    *)
(* same, else the response's own; further chunks are plain.                *)
TextReplied(b, text) ==
    LET same == b.recent.n # 0 /\ b.recent.text = text
        n == IF b.reply # 0 THEN b.reply ELSE b.replies + 1
        chunks == Chunks(text)
        next == [b EXCEPT !.typing = FALSE, !.reply = 0, !.comment = 0,
                          !.replies = IF same \/ b.reply # 0 THEN @ ELSE n,
                          !.recent = [text |-> <<>>, n |-> 0]]
    IN Post(Put(next, IF same THEN Key("commentary", b.recent.n) ELSE Key("reply", n), chunks[1]),
            {chunks[i] : i \in 2 .. Len(chunks)})

-----------------------------------------------------------------------------
(* The runtime bridge's memory *)

(* setThinking: a control is enqueued on transitions only. *)
Thinking(b, on) == IF b.thinking = on THEN b ELSE [b EXCEPT !.thinking = on, !.typing = on]

(* Faulty variant: a closed segment forgets its parts. *)
PartsForgotten(b) == [b EXCEPT !.openParts = {}]

(* closeOpenTextParts *)
PartsClosed(b) == [b EXCEPT !.closedParts = @ \cup b.openParts, !.openParts = {}]

(* closeAssistantStreamSegment *)
SegmentClosed(b) ==
    LET flushed == IF b.text = <<>> THEN b ELSE Commented(b, b.text)
        closed == [PartsClosed(flushed) EXCEPT !.reply = 0, !.comment = 0]
    IN IF b.text = <<>> THEN closed ELSE [closed EXCEPT !.text = <<>>, !.deltas = {}]

(* clearSessionRuntimeState, behind closeTurn *)
TurnClosed(b) == [PartsClosed(b) EXCEPT !.open = FALSE, !.reply = 0, !.comment = 0, !.text = <<>>,
                                        !.meta = FALSE, !.types = {}, !.deltas = {}, !.todo = {}]

(* handleIdleSession: buffered text becomes the final reply. *)
WentIdle(b) ==
    LET quiet == Thinking(b, FALSE)
    IN TurnClosed(IF b.text # <<>> /\ b.meta THEN TextReplied(quiet, b.text) ELSE quiet)

(* The card of a tool part: a bash command edits one message; a todo list  *)
(* is sent when it is new to the turn; file links follow later.            *)
Card(b, p, ended) ==
    CASE opencode.parts[p].kind = "bash" -> Put(b, Key("bash", p), IF ended THEN <<EndMark>> ELSE <<>>)
      [] opencode.parts[p].kind = "todo" /\ ended /\ p \notin b.todo ->
             Put([b EXCEPT !.todo = @ \cup {p}], Key("todo", p), <<>>)
      [] opencode.parts[p].kind = "file" /\ ended -> [b EXCEPT !.links = @ \cup {p}]
      [] OTHER -> b

(* Faulty variant: the turn's fence is not looked at. *)
HeardAlways(b, p, ended) == ~(ended /\ p \in b.tools) /\ p \notin b.closedParts

(* What handlePartUpdated lets pass: an open turn, tools that have not     *)
(* been reported as ended, text parts that are not closed.                 *)
TextHeard(b, p, ended) == b.open /\ ~(ended /\ p \in b.tools) /\ p \notin b.closedParts

(* handlePartUpdated *)
PartUpdated(b, p, ended) ==
    LET kind == opencode.parts[p].kind
        known == [b EXCEPT !.types = @ \cup {p},
                           !.tools = IF ended THEN @ \cup {p} ELSE @,
                           !.openParts = IF kind \in TextKinds THEN @ \cup {p} ELSE @]
        calm == CASE kind = "reasoning" -> Thinking(SegmentClosed(known), TRUE)
                  [] kind \in ToolKinds -> Thinking(SegmentClosed(known), FALSE)
                  [] kind = "step" -> SegmentClosed(known)
                  [] OTHER -> Thinking(known, FALSE)
    IN IF TextHeard(b, p, ended) THEN Card(calm, p, ended) ELSE b

(* A question or a permission request ends a segment too. *)
AskedFor(b, p) ==
    IF b.open THEN Put(SegmentClosed(Thinking(b, FALSE)), Key("ask", p), <<>>) ELSE b

(* handleMessagePartDelta: no look at the fence, but at the part. *)
DeltaAdded(b, p) ==
    IF p \in b.closedParts \/ p \notin b.types \/ p \in b.deltas THEN b
    ELSE [b EXCEPT !.deltas = @ \cup {p}, !.text = @ \o Words(p)]

-----------------------------------------------------------------------------
(* OpenCode and its channels *)

Sent(type, p, ended) ==
    /\ Len(stream.events) < MaxEvents
    /\ stream' = [stream EXCEPT !.events = Append(@, [type |-> type, part |-> p, ended |-> ended])]

(* onSessionResolved publishes opencode.turn.started before the POST; the  *)
(* queue starts a turn when the one before has answered or failed.         *)
TurnStarted ==
    /\ opencode.http \in {"none", "answered"} /\ opencode.at = "idle"
    /\ opencode.turn < MaxTurns
    /\ opencode' = [opencode EXCEPT !.turn = @ + 1, !.at = "working", !.http = "waiting"]
    /\ stream' = [stream EXCEPT !.whole = @ /\ stream.events = <<>>]
    /\ bridge' = [bridge EXCEPT !.open = TRUE, !.meta = TRUE, !.todo = {}]

(* The agent creates a part; a text arrives as a delta behind it and is    *)
(* always followed by another part, at least the end of the step.          *)
PartBegins(kind) ==
    /\ opencode.at \in {"working", "said"} /\ Len(opencode.parts) < MaxParts
    /\ opencode' = [opencode EXCEPT
          !.parts = Append(@, [kind |-> kind, turn |-> opencode.turn, ended |-> FALSE]),
          !.at = CASE kind \in TextKinds -> "text" [] kind \in ToolKinds -> "tool"
                   [] OTHER -> "working"]
    /\ Sent("part", Len(opencode.parts) + 1, FALSE)
    /\ UNCHANGED bridge

TextArrives ==
    /\ opencode.at = "text"
    /\ opencode' = [opencode EXCEPT !.at = "said"]
    /\ Sent("delta", Len(opencode.parts), FALSE)
    /\ UNCHANGED bridge

(* A running tool asks the user. *)
ToolAsks ==
    /\ opencode.at = "tool"
    /\ Sent("ask", Len(opencode.parts), FALSE)
    /\ UNCHANGED <<opencode, bridge>>

ToolEnds ==
    /\ opencode.at = "tool"
    /\ opencode' = [opencode EXCEPT !.parts[Len(opencode.parts)].ended = TRUE, !.at = "working"]
    /\ Sent("part", Len(opencode.parts), TRUE)
    /\ UNCHANGED bridge

TurnDone ==
    /\ opencode.at = "working"
    /\ opencode' = [opencode EXCEPT !.at = "idle"]
    /\ Sent("idle", 0, FALSE)
    /\ UNCHANGED bridge

(* opencode.message: the final reply, then finalizeAssistantReply.  A turn *)
(* without a text, and a failed request, publish nothing.                  *)
HttpAnswered ==
    /\ opencode.http = "waiting" /\ opencode.at = "idle"
    /\ opencode' = [opencode EXCEPT !.http = "answered"]
    /\ bridge' = IF FinalText = <<>> THEN bridge ELSE TurnClosed(TextReplied(bridge, FinalText))
    /\ UNCHANGED stream

HttpFailed ==
    /\ opencode.http = "waiting"
    /\ opencode' = [opencode EXCEPT !.http = "answered"]
    /\ UNCHANGED <<stream, bridge>>

-----------------------------------------------------------------------------
(* The event stream *)

EventArrives ==
    /\ stream.events # <<>>
    /\ stream' = [stream EXCEPT !.events = Tail(@)]
    /\ LET e == Head(stream.events)
       IN bridge' = CASE e.type = "part" -> PartUpdated(bridge, e.part, e.ended)
                      [] e.type = "delta" -> DeltaAdded(bridge, e.part)
                      [] e.type = "ask" -> AskedFor(bridge, e.part)
                      [] e.type = "idle" -> WentIdle(bridge)
    /\ UNCHANGED opencode

(* What the bridge knows again when it comes twice: texts and tools of the *)
(* turn under way, and what no newer part follows.                         *)
KnownAgain(p) ==
    /\ opencode.parts[p].turn = opencode.turn
    /\ opencode.parts[p].kind \in TextKinds \cup ToolKinds \/ p = Len(opencode.parts)

(* A part's snapshot, or a delta that was sent, arrives once more. *)
EventRepeats ==
    /\ stream.faults < MaxFaults /\ Len(stream.events) < MaxEvents
    /\ \E p \in DOMAIN opencode.parts, type \in {"part", "delta"} :
           /\ type = "delta" => opencode.parts[p].kind \in TextKinds /\ opencode.at # "text"
           /\ stream' = [stream EXCEPT !.faults = @ + 1, !.events = Append(@,
                 [type |-> type, part |-> p, ended |-> opencode.parts[p].ended]),
                 !.whole = @ /\ KnownAgain(p)]
    /\ UNCHANGED <<opencode, bridge>>

(* The connection breaks: what was on its way is lost. *)
StreamBreaks ==
    /\ stream.faults < MaxFaults /\ stream.events # <<>>
    /\ stream' = [stream EXCEPT !.events = <<>>, !.faults = @ + 1, !.whole = FALSE]
    /\ UNCHANGED <<opencode, bridge>>

(* emitFromToolPart has its link: getMe, the preview store. *)
LinkReady ==
    /\ bridge.links # {}
    /\ \E p \in bridge.links :
           bridge' = Put([bridge EXCEPT !.links = @ \ {p}], Key("file", p), <<>>)
    /\ UNCHANGED <<opencode, stream>>

StreamNext ==
    \/ TurnStarted \/ \E kind \in PartKinds : PartBegins(kind)
    \/ TextArrives \/ ToolAsks \/ ToolEnds \/ TurnDone
    \/ HttpAnswered \/ HttpFailed
    \/ EventArrives \/ EventRepeats \/ StreamBreaks \/ LinkReady

StreamSpec == StreamInit /\ [][StreamNext]_streaming

-----------------------------------------------------------------------------
(* Properties *)

(* The bridge's sets hold parts of OpenCode; a part is open or closed, and *)
(* each bubble has one text.                                               *)
StreamTypeOK ==
    /\ opencode.turn \in 0 .. MaxTurns /\ opencode.at \in {"idle", "working", "text", "said", "tool"}
    /\ bridge.types \cup bridge.openParts \cup bridge.closedParts \cup bridge.tools
           \subseteq DOMAIN opencode.parts
    /\ bridge.openParts \cap bridge.closedParts = {}
    /\ \A c, d \in bridge.chat : c.key = d.key /\ c.key.kind # "plain" => c = d
    /\ stream.faults <= MaxFaults

(* The indicator is off when no turn is open. *)
QuietBetweenTurns == ~bridge.open => ~bridge.typing

(* While the event stream keeps up with the turns, no text of the agent    *)
(* appears in two messages: not by repeated snapshots and deltas, not as   *)
(* commentary and as the final reply, in either order of the last events   *)
(* and the HTTP answer (runtime bridge:162, :307, :420; outbox service:448).*)
TextShownOnce ==
    stream.whole =>
        \A c, d \in bridge.chat :
            c # d => ToSet(c.text) \cap ToSet(d.text) \subseteq {EndMark}

(* "Final answer phase must hide thinking indicator": between two turns no *)
(* control leaves the indicator on, whatever late events still arrive      *)
(* (telegram-outbox.service.ts:184, runtime bridge:147, :386); and the     *)
(* chat reads each text once.                                              *)
ChatReadsWell == QuietBetweenTurns /\ TextShownOnce

=============================================================================
