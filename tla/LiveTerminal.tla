------------------------------ MODULE LiveTerminal ------------------------------
(***************************************************************************)
(* The shared shell of a project and the terminal tab that shows it        *)
(* (project-terminal.service.ts, miniapp use-terminal-events.ts).  Output  *)
(* reaches the tab over the WebSocket, which replays nothing, and as a     *)
(* snapshot over HTTP, asked for once per selected project.  A transcript  *)
(* is a sequence of characters <<project, n, text>>, shorter than the      *)
(* limit at which both sides cut it: the text is all the tab has to tell   *)
(* them apart, project and n say where they come from.  A longer chunk is  *)
(* several in a row.                                                       *)
(***************************************************************************)
EXTENDS EventHub, FiniteSets

CONSTANTS
    Symbols,      \* what a character may be
    MaxChunks,    \* bound: characters a shell prints
    MaxCalls,     \* bound: requests that need the shell, per project
    MaxSelects,   \* bound: selections of a project in the Mini App
    MaxBreaks     \* bound: lost connections, failed requests

ASSUME TerminalBounds == {MaxChunks, MaxCalls, MaxSelects, MaxBreaks} \subseteq Nat

VARIABLES
    shell,   \* per project: PTYs spawned, whether one is on its way or ready,
             \* its transcript, and the requests waiting in ensure
    wire,    \* the tab's WebSocket
    tab,     \* the hook's effect for the selected project
    usage   \* selections, broken connections; whether the tab has lost output

terminal == <<shell, wire, tab, usage>>

NoShell == [spawned |-> 0, at |-> "none", output |-> <<>>, callers |-> 0]
NoWire == [at |-> "off", frames |-> <<>>]
NoTab == [project |-> NoProject, shown |-> <<>>, tail |-> <<>>, hydrated |-> FALSE,
          asked |-> FALSE, answer |-> "none", snapshot |-> <<>>]

TerminalInit ==
    /\ shell = [p \in Projects |-> NoShell]
    /\ wire = NoWire
    /\ tab = NoTab
    /\ usage = [selects |-> 0, breaks |-> 0, lost |-> FALSE]

-----------------------------------------------------------------------------
(* ProjectTerminalService *)

(* Faulty variant: a shell that is still starting is not waited for. *)
MissingOrStarting(p) == shell[p].at \in {"none", "starting"}

(* ensure creates a session when there is none and none is on its way. *)
Missing(p) == shell[p].at = "none"

(* The calls: a project is selected, its terminal is read or written.      *)
Ensure(p) ==
    /\ shell[p].callers < MaxCalls
    /\ shell' = [shell EXCEPT ![p].callers = @ + 1,
                              ![p].at = IF Missing(p) THEN "starting" ELSE @,
                              ![p].spawned = IF Missing(p) THEN @ + 1 ELSE @]
    /\ UNCHANGED <<wire, tab, usage>>

(* The prompt is printed, or 100 ms have passed. *)
ShellReady(p) ==
    /\ shell[p].at = "starting"
    /\ shell' = [shell EXCEPT ![p].at = "ready"]
    /\ UNCHANGED <<wire, tab, usage>>

(* The opencode container is not running: pending callers fail. *)
ShellFails(p) ==
    /\ shell[p].at = "starting" /\ shell[p].output = <<>>
    /\ shell' = [shell EXCEPT ![p] = NoShell]
    /\ tab' = IF tab.project = p /\ tab.answer = "asked" THEN [tab EXCEPT !.answer = "failed"] ELSE tab
    /\ UNCHANGED <<wire, usage>>

(* proc.onData: the transcript, then the sockets.  A tab that has its      *)
(* snapshot and no connection misses the chunk.                            *)
Prints(p, text) ==
    /\ shell[p].at \in {"starting", "ready"} /\ Len(shell[p].output) < MaxChunks
    /\ LET chunk == <<p, Len(shell[p].output) + 1, text>>
           heard == wire.at = "open" /\ Matches("terminal", tab.project,
                                               [topic |-> "terminal", project |-> p], FALSE)
       IN /\ shell' = [shell EXCEPT ![p].output = Append(@, chunk), ![p].at = "ready"]
          /\ wire' = IF heard THEN [wire EXCEPT !.frames = Append(@, chunk)] ELSE wire
          /\ usage' = [usage EXCEPT !.lost = @ \/ (p = tab.project /\ ~heard /\ tab.answer = "read")]
    /\ UNCHANGED tab

-----------------------------------------------------------------------------
(* useTerminalEvents *)

(* selectProject: the effect of the project before is torn down; its       *)
(* snapshot, when it comes, finds itself disposed.                         *)
Selects(p) ==
    /\ p # tab.project /\ usage.selects < MaxSelects
    /\ tab' = [NoTab EXCEPT !.project = p]
    /\ wire' = [NoWire EXCEPT !.at = "asking"]
    /\ usage' = [usage EXCEPT !.selects = @ + 1, !.lost = FALSE]
    /\ UNCHANGED shell

(* A second click on Select: the transcript is cleared again, the           *)
(* effect of the first goes on.                                            *)
SelectsAgain ==
    /\ tab.project # NoProject /\ usage.selects < MaxSelects
    /\ tab' = [tab EXCEPT !.shown = <<>>]
    /\ usage' = [usage EXCEPT !.selects = @ + 1, !.lost = TRUE]
    /\ UNCHANGED <<shell, wire>>

(* onopen: the snapshot is asked for when there is none. *)
Opened ==
    /\ wire.at = "asking"
    /\ wire' = [wire EXCEPT !.at = "open"]
    /\ tab' = IF tab.hydrated \/ tab.asked THEN tab
              ELSE [tab EXCEPT !.asked = TRUE, !.answer = "asked"]
    /\ UNCHANGED <<shell, usage>>

Break(lost) ==
    /\ usage.breaks < MaxBreaks
    /\ usage' = [usage EXCEPT !.breaks = @ + 1, !.lost = @ \/ lost]

(* Frames on their way are lost; a snapshot taken before does not help. *)
Closed ==
    /\ wire.at \in {"asking", "open"}
    /\ Break(wire.frames # <<>> /\ tab.answer = "read")
    /\ wire' = [NoWire EXCEPT !.at = "waiting"]
    /\ UNCHANGED <<shell, tab>>

Retries ==
    /\ wire.at = "waiting"
    /\ wire' = [wire EXCEPT !.at = "asking"]
    /\ UNCHANGED <<shell, tab, usage>>

(* Faulty variant: output before the snapshot is dropped. *)
PushedLate(t, chunk) == IF t.hydrated THEN [t EXCEPT !.shown = Append(@, chunk)] ELSE t

(* pushChunk *)
PushChunk(t, chunk) ==
    IF t.hydrated THEN [t EXCEPT !.shown = Append(@, chunk)] ELSE [t EXCEPT !.tail = Append(@, chunk)]

FrameHeard ==
    /\ wire.frames # <<>>
    /\ wire' = [wire EXCEPT !.frames = Tail(@)]
    /\ tab' = PushChunk(tab, Head(wire.frames))
    /\ UNCHANGED <<shell, usage>>

(* GET terminal: ensure, then the transcript so far. *)
SnapshotRead ==
    /\ tab.answer = "asked"
    /\ LET s == shell[tab.project] IN
       IF s.at = "none"
       THEN /\ shell' = [shell EXCEPT ![tab.project].at = "starting", ![tab.project].spawned = @ + 1]
            /\ UNCHANGED tab
       ELSE /\ s.at = "ready"
            /\ tab' = [tab EXCEPT !.answer = "read", !.snapshot = s.output]
            /\ UNCHANGED shell
    /\ UNCHANGED <<wire, usage>>

SnapshotFails ==
    /\ tab.answer = "asked"
    /\ Break(FALSE)
    /\ tab' = [tab EXCEPT !.answer = "failed"]
    /\ UNCHANGED <<shell, wire>>

(* mergeTerminalTranscript: the longest end of the snapshot that reads     *)
(* like the beginning of the live tail is not repeated.                    *)
Overlap(snapshot, tail) ==
    LET overlaps == {k \in 0 .. Len(tail) : k <= Len(snapshot)
                        /\ \A i \in 1 .. k : snapshot[Len(snapshot) - k + i][3] = tail[i][3]}
    IN CHOOSE k \in overlaps : \A l \in overlaps : l <= k

Merged(snapshot, tail) == snapshot \o SubSeq(tail, Overlap(snapshot, tail) + 1, Len(tail))

(* What is not repeated only reads like the end of the snapshot: the tail  *)
(* loses output that the snapshot has not.                                 *)
Mistaken(snapshot, tail) ==
    LET k == Overlap(snapshot, tail)
    IN \E i \in 1 .. k : snapshot[Len(snapshot) - k + i] # tail[i]

(* hydrateSnapshot's result *)
Hydrated ==
    /\ tab.answer \in {"read", "failed"} /\ ~tab.hydrated
    /\ tab' = [tab EXCEPT !.hydrated = TRUE, !.asked = FALSE, !.tail = <<>>,
                          !.shown = IF tab.answer = "read" THEN Merged(tab.snapshot, tab.tail)
                                    ELSE IF tab.tail # <<>> THEN tab.tail ELSE @]
    /\ usage' = [usage EXCEPT !.lost = @ \/ tab.answer = "failed" \/ Mistaken(tab.snapshot, tab.tail)]
    /\ UNCHANGED <<shell, wire>>

TerminalNext ==
    \/ \E p \in Projects : Ensure(p) \/ ShellReady(p) \/ ShellFails(p) \/ Selects(p)
    \/ \E p \in Projects, text \in Symbols : Prints(p, text)
    \/ SelectsAgain \/ Opened \/ Closed \/ Retries \/ FrameHeard \/ SnapshotRead \/ SnapshotFails \/ Hydrated

TerminalSpec == TerminalInit /\ [][TerminalNext]_terminal

-----------------------------------------------------------------------------
(* Properties *)

(* A transcript is in order; frames are of the tab's project. *)
TerminalTypeOK ==
    /\ \A p \in Projects : \A i \in DOMAIN shell[p].output : shell[p].output[i] \in {p} \X {i} \X Symbols
    /\ \A i \in DOMAIN wire.frames : wire.frames[i][1] = tab.project
    /\ tab.hydrated => tab.tail = <<>>

(* "Create a terminal only once per project", "Project switches should     *)
(* never show stale output", "preserve already-received live chunks        *)
(* instead of dropping terminal output on the floor": one shell per        *)
(* project, and a tab that has its snapshot and no frame to read shows all *)
(* that its project's shell has printed and nothing of another, however    *)
(* output, snapshot and reconnects before the snapshot interleave, unless  *)
(* the connection broke after it, no snapshot was to be had, live output   *)
(* only read like the end of the snapshot and was taken for it, or the     *)
(* user cleared it by selecting the project again                          *)
(* (project-terminal.service.ts:36, use-terminal-events.ts:31, :43,        *)
(* terminal-output.ts:50).                                                 *)
TerminalIsWhole ==
    /\ \A p \in Projects : shell[p].spawned <= 1
    /\ \A i \in DOMAIN tab.shown : tab.shown[i][1] = tab.project
    /\ tab.hydrated /\ wire.frames = <<>> /\ ~usage.lost
           => ToSet(shell[tab.project].output) \subseteq ToSet(tab.shown)

=============================================================================
