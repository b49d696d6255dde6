-------------------------------- MODULE EventHub --------------------------------
(***************************************************************************)
(* The backend's event hub and its WebSocket gateway (events.service.ts,   *)
(* event-buffer.ts, events.gateway.ts): a ring of the last events, and     *)
(* which of them a subscription is sent, live or as a replay when it       *)
(* connects.  Events addressed to another admin are left out.              *)
(***************************************************************************)
EXTENDS Naturals, Sequences, SequencesExt

CONSTANTS
    Projects,    \* project slugs
    NoProject,   \* an event or a subscription without a project
    BufferSize   \* config.eventBufferSize

ASSUME HubBounds == NoProject \notin Projects /\ BufferSize \in Nat \ {0}

Scopes == Projects \cup {NoProject}

(* EventBuffer.push *)
Pushed(buffer, event) ==
    IF Len(buffer) < BufferSize THEN Append(buffer, event) ELSE Append(Tail(buffer), event)

(* Faulty variant: board events are not replayed either. *)
LiveOnly(topic, scope, event, replayed) ==
    /\ event.topic = topic /\ ~replayed
    /\ scope = NoProject \/ event.project \in {NoProject, scope}

(* EventsGateway.matches for a subscription to one topic.  Only board      *)
(* events are replayed; terminal output always has a project.              *)
Matches(topic, scope, event, replayed) ==
    /\ event.topic = topic
    /\ topic # "kanban" => ~replayed
    /\ \/ topic # "terminal" /\ scope = NoProject
       \/ topic # "terminal" /\ event.project = NoProject
       \/ event.project = scope

(* What handleConnection sends first: the events that match, in order. *)
Replay(buffer, topic, scope) ==
    LET wanted == {k \in DOMAIN buffer : Matches(topic, scope, buffer[k], TRUE)}
        upTo[n \in 0 .. Len(buffer)] ==
          IF n = 0 THEN <<>> ELSE IF n \in wanted THEN Append(upTo[n - 1], buffer[n]) ELSE upTo[n - 1]
    IN upTo[Len(buffer)]

=============================================================================
