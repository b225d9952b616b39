----------------------------- MODULE StoreWriter -----------------------------
(***************************************************************************)
(* The store's single writer goroutine (internal/store/store.go).          *)
(*                                                                         *)
(* Every change of the database is a closure.  WriteAsync queues one and   *)
(* never blocks; WriteSync queues one and waits until it has run; Close    *)
(* makes the writer drain its queue and then closes the database, while    *)
(* callers may still be in the middle of either.  A call of the model is   *)
(* one call of WriteSync or WriteAsync, named by the closure it carries.   *)
(***************************************************************************)
EXTENDS Integers, Sequences

CONSTANTS
  SyncCalls,         \* calls of WriteSync
  AsyncCalls,        \* calls of WriteAsync
  Closers,           \* calls of Close
  writerQueueDepth,  \* capacity of writerCh
  None               \* no closure

ASSUME CallsAssumption == /\ SyncCalls \cap AsyncCalls = {}
                          /\ None \notin SyncCalls \cup AsyncCalls
ASSUME DepthAssumption == writerQueueDepth \in Nat \ {0}

VARIABLES
  writerCh,   \* the queued closures, oldest first
  closing,    \* the channel closing has been closed
  writer,     \* where writerLoop is: "select", "drain" or "done" (writerDone closed)
  current,    \* the closure the writer is running, or None
  done,       \* the WriteSync calls whose done channel is closed
  pc,         \* where each call is
  runs,       \* how often each closure has run
  log,        \* the closures in the order their writes reached the database
  durable,    \* how much of log a power cut leaves
  dropped,    \* the writes a full queue has refused
  once,       \* closeOnce: "free", "busy" or "done"
  closer,     \* where each call of Close is
  dbOpen,     \* the database handle is open
  ahead,      \* history: the closures already queued or run when a call started
  owed        \* history: the saves whose checkpoint fell short, none having been complete since

writerVars == <<writerCh, closing, writer, current, done, pc, runs, log, durable,
                dropped, once, closer, dbOpen, ahead, owed>>

Calls == SyncCalls \cup AsyncCalls

CallStates == {"idle", "checked", "sent", "refused",       \* WriteAsync
               "waiting", "late", "after", "returned"}     \* WriteSync

WriterTypeOK ==
  /\ writerCh \in Seq(Calls) /\ Len(writerCh) <= writerQueueDepth
  /\ closing \in BOOLEAN
  /\ writer \in {"select", "drain", "done"}
  /\ current \in Calls \cup {None}
  /\ done \in SUBSET SyncCalls
  /\ pc \in [Calls -> CallStates]
  /\ runs \in [Calls -> Nat]
  /\ log \in Seq(Calls)
  /\ durable \in Nat
  /\ dropped \in Nat
  /\ once \in {"free", "busy", "done"}
  /\ closer \in [Closers -> {"idle", "waiting", "drained", "closed"}]
  /\ dbOpen \in BOOLEAN
  /\ ahead \in [Calls -> SUBSET Calls]
  /\ owed \in SUBSET SyncCalls

WriterInit ==
  /\ writerCh = << >>
  /\ closing = FALSE
  /\ writer = "select"
  /\ current = None
  /\ done = {}
  /\ pc = [c \in Calls |-> "idle"]
  /\ runs = [c \in Calls |-> 0]
  /\ log = << >>
  /\ durable = 0
  /\ dropped = 0
  /\ once = "free"
  /\ closer = [k \in Closers |-> "idle"]
  /\ dbOpen = TRUE
  /\ ahead = [c \in Calls |-> {}]
  /\ owed = {}

-----------------------------------------------------------------------------
(* What running a closure does: its write lands while the database is open *)
(* and is an error of the closure's own otherwise.                         *)

Apply(c) ==
  /\ runs' = [runs EXCEPT ![c] = @ + 1]
  /\ log' = IF dbOpen THEN Append(log, c) ELSE log

Start(c, state) == pc' = [pc EXCEPT ![c] = state]

\* The calls that have handed their closure to the queue so far.
Accepted == {c \in Calls : pc[c] \in {"sent", "waiting"}}

Note(c) == ahead' = [ahead EXCEPT ![c] = Accepted]

Enqueue(c) ==
  /\ Len(writerCh) < writerQueueDepth
  /\ writerCh' = Append(writerCh, c)

-----------------------------------------------------------------------------
(* WriteAsync: the test of closing and the send are two steps, between     *)
(* which Close may run to its end.                                         *)

AsyncCheck(c) ==
  /\ pc[c] = "idle"
  /\ Start(c, IF closing THEN "refused" ELSE "checked")
  /\ Note(c)
  /\ UNCHANGED <<writerCh, closing, writer, current, done, runs, log, durable,
                 owed,
                 dropped, once, closer, dbOpen>>

AsyncSend(c) ==
  /\ pc[c] = "checked"
  /\ \/ Enqueue(c) /\ Start(c, "sent") /\ UNCHANGED dropped
     \/ /\ Len(writerCh) = writerQueueDepth
        /\ Start(c, "refused")
        /\ dropped' = dropped + 1
        /\ UNCHANGED writerCh
  /\ UNCHANGED <<closing, writer, current, done, runs, log, durable, owed, once,
                 closer, dbOpen, ahead>>

-----------------------------------------------------------------------------
(* WriteSync.  Both of its selects may see closing and the other case      *)
(* ready at once, and then take either.                                    *)

SyncSend(c) ==
  /\ pc[c] = "idle"
  /\ Note(c)
  /\ \/ Enqueue(c) /\ Start(c, "waiting")
     \/ closing /\ Start(c, "after") /\ UNCHANGED writerCh
  /\ UNCHANGED <<closing, writer, current, done, runs, log, durable, owed,
                 dropped,
                 once, closer, dbOpen>>

SyncDone(c) ==
  /\ pc[c] = "waiting"
  /\ c \in done
  /\ Start(c, "returned")
  /\ UNCHANGED <<writerCh, closing, writer, current, done, runs, log, durable,
                 owed,
                 dropped, once, closer, dbOpen, ahead>>

\* With no case for closing a closure stranded in the queue is waited for
\* for ever; without the second look at done it is taken to have run.
SyncLateNever(c) == FALSE
AfterDrainSkips(c) == "returned"

AfterDrain(c) == IF c \in done THEN "returned" ELSE "after"

\* The second select took closing: wait for the writer, then look at done.
SyncLate(c) ==
  /\ pc[c] = "waiting"
  /\ closing
  /\ writer = "done"
  /\ Start(c, AfterDrain(c))
  /\ UNCHANGED <<writerCh, closing, writer, current, done, runs, log, durable,
                 owed,
                 dropped, once, closer, dbOpen, ahead>>

AfterCloseBegin(c) ==
  /\ pc[c] = "after"
  /\ writer = "done"
  /\ Start(c, "late")
  /\ UNCHANGED <<writerCh, closing, writer, current, done, runs, log, durable,
                 owed,
                 dropped, once, closer, dbOpen, ahead>>

\* ... and the closure's write happens, with no checkpoint after it.
AfterCloseRun(c) ==
  /\ pc[c] = "late"
  /\ Apply(c)
  /\ Start(c, "returned")
  /\ UNCHANGED <<writerCh, closing, writer, current, done, durable, owed,
                 dropped,
                 once, closer, dbOpen, ahead>>

-----------------------------------------------------------------------------
(* writerLoop.                                                             *)

\* The closure the writer takes, and what it leaves in the queue.
PopNewest == [fn |-> writerCh[Len(writerCh)],
              rest |-> SubSeq(writerCh, 1, Len(writerCh) - 1)]

Pop == [fn |-> Head(writerCh), rest |-> Tail(writerCh)]

Take ==
  /\ writer \in {"select", "drain"}
  /\ current = None
  /\ writerCh # << >>
  /\ current' = Pop.fn
  /\ writerCh' = Pop.rest
  /\ UNCHANGED <<closing, writer, done, pc, runs, log, durable, owed, dropped,
                 once,
                 closer, dbOpen, ahead>>

\* A checkpoint copies all that has been written, or less of it while a reader
\* holds an older snapshot, or nothing when it fails.  The callers whose saves
\* it was for are not told.
CheckpointOf(written, saves) ==
  \E reach \in durable .. written :
    /\ durable' = reach
    /\ owed' = IF reach = written THEN {} ELSE owed \cup saves

\* The bug of a checkpoint before the write it is for.
CheckpointFirst(saves) == CheckpointOf(Len(log), saves)

Checkpoint(saves) == CheckpointOf(Len(log'), saves)

\* A WriteSync's closure checkpoints after its write and then closes done,
\* whatever became of the checkpoint.
RunCurrent ==
  /\ current # None
  /\ Apply(current)
  /\ IF current \in SyncCalls
       THEN /\ Checkpoint({current})
            /\ done' = done \cup {current}
       ELSE UNCHANGED <<durable, owed, done>>
  /\ current' = None
  /\ UNCHANGED <<writerCh, closing, writer, pc, dropped, once, closer, dbOpen,
                 ahead>>

BeginDrain ==
  /\ writer = "select"
  /\ current = None
  /\ closing
  /\ writer' = "drain"
  /\ UNCHANGED <<writerCh, closing, current, done, pc, runs, log, durable, owed,
                 dropped, once, closer, dbOpen, ahead>>

EndDrain ==
  /\ writer = "drain"
  /\ current = None
  /\ writerCh = << >>
  /\ writer' = "done"
  /\ UNCHANGED <<writerCh, closing, current, done, pc, runs, log, durable, owed,
                 dropped, once, closer, dbOpen, ahead>>

-----------------------------------------------------------------------------
(* Close: the first caller closes closing and waits for the writer inside  *)
(* closeOnce, where any other waits for it; then each closes the database. *)

CloseBegin(k) ==
  /\ closer[k] = "idle"
  /\ once = "free"
  /\ once' = "busy"
  /\ closing' = TRUE
  /\ closer' = [closer EXCEPT ![k] = "waiting"]
  /\ UNCHANGED <<writerCh, writer, current, done, pc, runs, log, durable, owed,
                 dropped, dbOpen, ahead>>

DrainAwaited == writer = "done"

CloseDrained(k) ==
  /\ closer[k] = "waiting"
  /\ DrainAwaited
  /\ once' = "done"
  /\ closer' = [closer EXCEPT ![k] = "drained"]
  /\ UNCHANGED <<writerCh, closing, writer, current, done, pc, runs, log,
                 durable, owed, dropped, dbOpen, ahead>>

CloseAgain(k) ==
  /\ closer[k] = "idle"
  /\ once = "done"
  /\ closer' = [closer EXCEPT ![k] = "drained"]
  /\ UNCHANGED <<writerCh, closing, writer, current, done, pc, runs, log,
                 durable, owed, dropped, once, dbOpen, ahead>>

\* Closing the last handle checkpoints what the log file still holds, if it can.
CloseDb(k) ==
  /\ closer[k] = "drained"
  /\ dbOpen' = FALSE
  /\ IF dbOpen THEN CheckpointOf(Len(log), {}) ELSE UNCHANGED <<durable, owed>>
  /\ closer' = [closer EXCEPT ![k] = "closed"]
  /\ UNCHANGED <<writerCh, closing, writer, current, done, pc, runs, log,
                 dropped, once, ahead>>

-----------------------------------------------------------------------------

AsyncStep(c) == AsyncCheck(c) \/ AsyncSend(c)

SyncStep(c) == \/ SyncSend(c) \/ SyncDone(c) \/ SyncLate(c)
               \/ AfterCloseBegin(c) \/ AfterCloseRun(c)

WriterStep == Take \/ RunCurrent \/ BeginDrain \/ EndDrain

CloseStep(k) == CloseBegin(k) \/ CloseDrained(k) \/ CloseAgain(k) \/ CloseDb(k)

\* Nothing is left to do: every call is over and the database is closed.
Finished == /\ \A c \in Calls : pc[c] \in {"sent", "refused", "returned"}
            /\ \A k \in Closers : closer[k] = "closed"
            /\ UNCHANGED writerVars

WriterNext == \/ \E c \in AsyncCalls : AsyncStep(c)
        \/ \E c \in SyncCalls : SyncStep(c)
        \/ WriterStep
        \/ \E k \in Closers : CloseStep(k)
        \/ Finished

\* The writer and a caller that has begun are goroutines the runtime runs on;
\* nobody has to call, and nobody has to close.
Fairness == /\ WF_writerVars(WriterStep)
            /\ \A c \in AsyncCalls : WF_writerVars(AsyncSend(c))
            /\ \A c \in SyncCalls : WF_writerVars(SyncStep(c))
            /\ \A k \in Closers : WF_writerVars(CloseDrained(k)) /\ WF_writerVars(CloseDb(k))

WriterSpec == WriterInit /\ [][WriterNext]_writerVars /\ Fairness

-----------------------------------------------------------------------------
(* Properties *)

\* A WriteSync's closure runs once, and has run when the call returns,
\* whichever of the four ways through its selects and the drain it took:
\* "skipping it leaves the caller's error nil, which reads as success".
ExactlyOnce ==
  \A c \in Calls : /\ runs[c] <= 1
                   /\ pc[c] = "returned" => runs[c] = 1

\* Only one closure at a time is in the database as far as the writer is
\* concerned: no caller runs its own before the writer has stopped.
WriterAlone ==
  \A c \in SyncCalls : pc[c] = "late" => writer = "done" /\ current = None

\* The drain ends before the database is closed under it, so the writer never
\* runs a closure against a closed handle.
WriterHasDatabase == current # None => dbOpen

\* WriteSync is a barrier (hydratePeerTables calls it with an empty closure for
\* this): when it returns, every write queued before it was called has run.
\* Only a send that slipped past Close into the drained queue is left out.
Barrier ==
  \A c \in SyncCalls : pc[c] = "returned" =>
    \A a \in ahead[c] : runs[a] = 1 \/ writer = "done"

\* The writes reach the database in the order the queue took them: a write that
\* was ahead of another one's call is ahead of it in the database too, which is
\* what gives a trigger's reply a row id above the message it answers.
Fifo ==
  \A i, j \in 1 .. Len(log) :
    i < j /\ log[j] \in AsyncCalls \cup done => log[j] \notin ahead[log[i]]

\* What a WriteSync that the writer served has written survives a power cut when
\* its caller is told, or from the first checkpoint on that is complete: only a
\* read of an older snapshot, or a checkpoint that fails, puts a save at risk,
\* and no longer than until the next complete one (the comment at store.go:176).
SavedIsDurable ==
  \A c \in done : pc[c] = "returned" /\ c \notin owed => \E i \in 1 .. durable : log[i] = c

\* Every WriteSync and every Close that has been called returns, whatever the
\* others do meanwhile and however many callers keep sending.
CallsReturn ==
  /\ \A c \in SyncCalls : (pc[c] # "idle") ~> (pc[c] = "returned")
  /\ \A k \in Closers : (closer[k] = "waiting") ~> (closer[k] = "closed")
=============================================================================
