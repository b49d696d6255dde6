-------------------------------- MODULE BoardStore --------------------------------
(***************************************************************************)
(* The file behind the kanban board (kanban.store.ts, json-file.ts).       *)
(* Transactions read, change and rewrite the whole file; each of the three *)
(* steps yields, and a queue of promises keeps them apart.  Backups of a   *)
(* completed task go through a queue of their own.  A temporary file that  *)
(* a crash leaves behind is never read.  The other stores on json-file.ts  *)
(* read and write synchronously in one step.                               *)
(***************************************************************************)
EXTENDS Naturals, Sequences, SequencesExt

CONSTANTS
    Clients,      \* requests, agents, the runner
    MaxBackups,   \* MAX_BACKUP_FILES
    MaxCommits,   \* bound: transactions that change the file
    MaxCopies,    \* bound: backups ever written
    MaxStoreCrashes    \* bound: backend crashes

ASSUME StoreBounds == {MaxBackups, MaxCommits, MaxCopies, MaxStoreCrashes} \subseteq Nat

VARIABLES
    file,     \* kanban.tasks.json: the clients that changed it, in order
    backups,  \* the backup folder, by name
    queue,    \* "write": writeQueue, "backup": backupQueue
    call,     \* per client: the call under way
    spent     \* crashes, backups

store == <<file, backups, queue, call, spent>>

NoCallYet == [kind |-> "none", at |-> "idle", ahead |-> {}, draft |-> <<>>]

StoreInit ==
    /\ file = <<>> /\ backups = <<>>
    /\ queue = [q \in {"write", "backup"} |-> <<>>]
    /\ call = [c \in Clients |-> NoCallYet]
    /\ spent = [crashes |-> 0, copies |-> 0]

-----------------------------------------------------------------------------
(* The promise queues *)

(* Faulty variant: a call does not wait for those before it. *)
IsThere(q, c) == c \in ToSet(queue[q])

(* The promise of the call before has settled. *)
HasTurn(q, c) == queue[q] # <<>> /\ Head(queue[q]) = c

Joins(q, c) == queue' = [queue EXCEPT ![q] = Append(@, c)]

(* c's call, which is the first, settles, whether it succeeds or not. *)
Settles(q, c) ==
    /\ queue' = [queue EXCEPT ![q] = Tail(@)]
    /\ call' = [d \in Clients |-> IF d = c THEN NoCallYet
                                  ELSE IF q = "write" THEN [call[d] EXCEPT !.ahead = @ \ {c}] ELSE call[d]]

Goes(c, at) == call' = [call EXCEPT ![c].at = at]

-----------------------------------------------------------------------------
(* transact *)

Transact(c) ==
    /\ call[c] = NoCallYet /\ Len(file) + Len(queue["write"]) < MaxCommits
    /\ Joins("write", c)
    /\ call' = [call EXCEPT ![c] = [NoCallYet EXCEPT !.kind = "transact", !.at = "queued"]]
    /\ UNCHANGED <<file, backups, spent>>

ReadRaw(c) ==
    /\ call[c].kind = "transact" /\ call[c].at = "queued" /\ HasTurn("write", c)
    /\ call' = [call EXCEPT ![c].at = "operating", ![c].draft = file]
    /\ UNCHANGED <<file, backups, queue, spent>>

(* The operation has changed the draft; the temporary file is begun. *)
Operated(c) ==
    /\ call[c].at = "operating"
    /\ Goes(c, "writing")
    /\ UNCHANGED <<file, backups, queue, spent>>

(* The rename of writeJsonFileAsyncAtomic *)
Renamed(c) ==
    /\ call[c].kind = "transact" /\ call[c].at = "writing"
    /\ file' = Append(call[c].draft, c)
    /\ Goes(c, "renamed")
    /\ UNCHANGED <<backups, queue, spent>>

TransactEnds(c) ==
    /\ call[c].at = "renamed"
    /\ Settles("write", c)
    /\ UNCHANGED <<file, backups, spent>>

(* The operation throws, or the disk is full. *)
TransactFails(c) ==
    /\ call[c].kind = "transact" /\ call[c].at \in {"operating", "writing"}
    /\ Settles("write", c)
    /\ UNCHANGED <<file, backups, spent>>

-----------------------------------------------------------------------------
(* read and writeTaskCompletionBackup wait for the transactions of that    *)
(* moment, and for no later one.                                           *)

Ahead == ToSet(queue["write"])

Read(c) ==
    /\ call[c] = NoCallYet
    /\ call' = [call EXCEPT ![c] = [NoCallYet EXCEPT !.kind = "read", !.at = "waiting", !.ahead = Ahead]]
    /\ UNCHANGED <<file, backups, queue, spent>>

WriteTaskCompletionBackup(c) ==
    /\ call[c] = NoCallYet /\ spent.copies < MaxCopies
    /\ Joins("backup", c)
    /\ call' = [call EXCEPT ![c] = [NoCallYet EXCEPT !.kind = "backup", !.at = "queued"]]
    /\ spent' = [spent EXCEPT !.copies = @ + 1]
    /\ UNCHANGED <<file, backups>>

BackupBegins(c) ==
    /\ call[c].kind = "backup" /\ call[c].at = "queued" /\ HasTurn("backup", c)
    /\ call' = [call EXCEPT ![c].at = "waiting", ![c].ahead = Ahead]
    /\ UNCHANGED <<file, backups, queue, spent>>

Looks(c) ==
    /\ call[c].at = "waiting" /\ call[c].ahead = {}
    /\ call' = [call EXCEPT ![c].at = "looked", ![c].draft = file]
    /\ UNCHANGED <<file, backups, queue, spent>>

ReadEnds(c) ==
    /\ call[c].kind = "read" /\ call[c].at = "looked"
    /\ call' = [call EXCEPT ![c] = NoCallYet]
    /\ UNCHANGED <<file, backups, queue, spent>>

(* Names begin with the time at which they are built. *)
BackupWritten(c) ==
    /\ call[c].kind = "backup" /\ call[c].at = "looked"
    /\ backups' = Append(backups, call[c].draft)
    /\ Goes(c, "pruning")
    /\ UNCHANGED <<file, queue, spent>>

Newest(n) == SubSeq(backups, IF Len(backups) > n THEN Len(backups) - n + 1 ELSE 1, Len(backups))

PruneOldBackups(c) ==
    /\ call[c].at = "pruning"
    /\ backups' = Newest(MaxBackups)
    /\ Settles("backup", c)
    /\ UNCHANGED <<file, spent>>

(* The folder cannot be written or listed. *)
BackupFails(c) ==
    /\ call[c].kind = "backup" /\ call[c].at \in {"looked", "pruning"}
    /\ Settles("backup", c)
    /\ UNCHANGED <<file, backups, spent>>

Crashes ==
    /\ spent.crashes < MaxStoreCrashes
    /\ spent' = [spent EXCEPT !.crashes = @ + 1]
    /\ queue' = [q \in {"write", "backup"} |-> <<>>]
    /\ call' = [c \in Clients |-> NoCallYet]
    /\ UNCHANGED <<file, backups>>

StoreNext ==
    \/ \E c \in Clients :
           \/ Transact(c) \/ ReadRaw(c) \/ Operated(c) \/ Renamed(c) \/ TransactEnds(c)
           \/ TransactFails(c) \/ Read(c) \/ Looks(c) \/ ReadEnds(c)
           \/ WriteTaskCompletionBackup(c) \/ BackupBegins(c) \/ BackupWritten(c)
           \/ PruneOldBackups(c) \/ BackupFails(c)
    \/ Crashes

StoreSpec == StoreInit /\ [][StoreNext]_store

-----------------------------------------------------------------------------
(* Properties *)

(* Who waits in a queue has a call of that kind. *)
StoreTypeOK ==
    /\ file \in Seq(Clients)
    /\ Len(file) <= MaxCommits /\ spent.crashes <= MaxStoreCrashes /\ spent.copies <= MaxCopies
    /\ \A c \in Clients :
          /\ c \in ToSet(queue["write"]) <=> call[c].kind = "transact"
          /\ c \in ToSet(queue["backup"]) <=> call[c].kind = "backup"
          /\ call[c].ahead \subseteq ToSet(queue["write"])

(* "Multiple agents cannot clobber the same JSON file", "read-after-write  *)
(* consistency for the UI and agents": although a transaction and a read   *)
(* yield between their steps, each behaves as one step between its call    *)
(* and its end, also when it fails or the backend crashes                  *)
(* (kanban.store.ts:99, :91).                                              *)
CallState(c) ==
    [at |-> CASE call[c].kind = "none" -> "idle"
              [] call[c].kind = "transact" -> IF call[c].at = "renamed" THEN "wrote" ELSE "write"
              [] OTHER -> IF call[c].at \in {"looked", "pruning"} THEN "saw" ELSE "read",
     seen |-> IF call[c].kind = "transact" THEN <<>> ELSE call[c].draft]

Atomic == INSTANCE AtomicBoard WITH content <- file, calls <- [c \in Clients |-> CallState(c)]

(* "The backup always captures the latest committed kanban snapshot": a    *)
(* backup is never older than one of an earlier name, whichever order the  *)
(* requests came in, so that pruning by name removes the oldest boards     *)
(* (kanban.store.ts:124, :186).                                            *)
BackupsGrow ==
    \A i, j \in DOMAIN backups : i <= j => IsPrefix(backups[i], backups[j])

(* The store is an atomic board with backups that grow. *)
KeepsBoard == Atomic!AtomicSpec /\ []BackupsGrow

=============================================================================
