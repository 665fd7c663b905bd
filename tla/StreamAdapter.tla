----------------------------- MODULE StreamAdapter -----------------------------
(***************************************************************************)
(* One stream of stream.adapter.ts: StreamLifecycle with the signal that   *)
(* the runtime watches, ReadableBridge and WritableBridge between the      *)
(* native halves and the Web Streams given to the application, and the     *)
(* receive, send and bidirectional adapters over them.                     *)
(*                                                                         *)
(* Abstracted: the bytes, the mapping of errors except whether isSession-  *)
(* Termination() holds of a reason, and how an operation on the native     *)
(* half settles, which only matters for close().  Errors and callbacks of  *)
(* the Web Streams follow their standard: close() of the controller of a   *)
(* stream that is no longer readable throws.                               *)
(***************************************************************************)
EXTENDS Integers, FiniteSets

CONSTANT Others  \* the driver's other open streams
ASSUME OthersAreOpen == Others \in Nat

VARIABLES
    halves,         \* {} before the stream is there, then its halves
    closed,         \* lifecycle.closed and signal.aborted
    reason,         \* why the signal has aborted
    remaining,      \* lifecycle.remainingParts
    active,         \* the driver's metric streams.active
    finishedHalves, \* the halves whose bridge has finished
    over,           \* the halves the application has closed, cancelled or seen fail
    readPending,    \* a read() of the native reader is under way
    op              \* the operations on the native halves: each is called once

streamVars == <<halves, closed, reason, remaining, active, finishedHalves, over, readPending, op>>

Ops == {"stop", "cancel", "close", "reset", "abort"}
HalfOf(o) == IF o \in {"stop", "cancel"} THEN "read" ELSE "write"

StreamTypeOK ==
    /\ halves \subseteq {"read", "write"} /\ finishedHalves \subseteq halves /\ over \subseteq halves
    /\ {closed, readPending} \subseteq BOOLEAN
    /\ reason \in {"none", "ended", "session", "reset", "error"}
    /\ remaining \in 0..2 /\ active \in Nat
    /\ op \in [Ops -> {"none", "pending", "done"}]

StreamInit ==
    /\ halves = {} /\ closed = FALSE /\ reason = "none" /\ remaining = 0 /\ active = Others
    /\ finishedHalves = {} /\ over = {} /\ readPending = FALSE
    /\ op = [o \in Ops |-> "none"]

-----------------------------------------------------------------------------
(* StreamLifecycle and what its signal does to the bridges *)

\* Mutant: counted down again on each call.
CloseTwice(because) == /\ closed' = TRUE /\ reason' = because
                       /\ active' = IF active > 0 THEN active - 1 ELSE 0

\* What StreamLifecycle.abort() does once.
CloseOnce(because) ==
    /\ closed' = TRUE
    /\ reason' = IF closed THEN reason ELSE because
    /\ active' = IF closed THEN active ELSE IF active > 0 THEN active - 1 ELSE 0

Closing(ops) == ops["close"] # "none"

\* Mutants: the application's close() that is under way is not looked at; the
\* writable bridge has no listener; a receive stream has a writable bridge.
ListensWhileClosing(fin, ops) == "write" \in halves \ fin
ListensNever(fin, ops) == FALSE
ListensAlways(fin, ops) == "write" \notin fin

\* The writable bridge still reacts to the signal.
WriterListens(fin, ops) == "write" \in halves \ fin /\ ~Closing(ops)

\* Nothing has to be sent: a reset was already sent, or there is no session.
FinishedBySignal(ops, because) == ops["reset"] # "none" \/ because = "session"

\* The abort listeners of the two bridges: cancel the reader, reset the writer.
AfterSignal(ops, fin, because, o) ==
    CASE o = "stop" /\ "read" \in halves \ fin /\ ops["stop"] = "none" -> "pending"
      [] o = "reset" /\ WriterListens(fin, ops) /\ ~FinishedBySignal(ops, because) -> "pending"
      [] OTHER -> ops[o]

\* lifecycle.abort() when the bridges in fin have finished and the operations
\* are ops; the bridges in also finish right after it.
AbortLifecycle(because, fin, ops, also) ==
    /\ CloseOnce(because)
    /\ IF closed
       THEN op' = ops /\ finishedHalves' = fin \cup also /\ over' = over \cup also
       ELSE /\ op' = [o \in Ops |-> AfterSignal(ops, fin, because, o)]
            /\ finishedHalves' = fin \cup also \cup
                 (IF WriterListens(fin, ops) /\ FinishedBySignal(ops, because)
                  THEN {"write"} ELSE {})
            /\ over' = halves
    /\ UNCHANGED remaining

\* Mutant: the last part does not end the stream.
LastPartSilent == FALSE

LastPart == remaining = 1

\* finish() of the bridge of a half: its part is counted once.
FinishHalf(half) ==
    IF half \in finishedHalves
    THEN UNCHANGED <<finishedHalves, remaining, closed, reason, active>>
    ELSE /\ finishedHalves' = finishedHalves \cup {half}
         /\ IF closed
            THEN UNCHANGED <<remaining, closed, reason, active>>
            ELSE /\ remaining' = remaining - 1
                 /\ IF LastPart THEN CloseOnce("ended") ELSE UNCHANGED <<closed, reason, active>>

\* The constructors; the session may have ended before.
Create(parts, parentAborted) ==
    /\ halves = {} /\ parts # {}
    /\ halves' = parts /\ remaining' = Cardinality(parts)
    /\ IF parentAborted
       THEN /\ closed' = TRUE /\ reason' = "session" /\ UNCHANGED active
            /\ over' = parts /\ finishedHalves' = parts \ {"read"}
            /\ op' = [op EXCEPT !["stop"] = IF "read" \in parts THEN "pending" ELSE "none"]
       ELSE active' = active + 1 /\ UNCHANGED <<closed, reason, finishedHalves, over, op>>
    /\ UNCHANGED <<readPending>>

\* The signal of the session aborts.
SessionEnds ==
    /\ halves # {} /\ ~closed
    /\ AbortLifecycle("session", finishedHalves, op, {})
    /\ UNCHANGED <<halves, readPending>>

-----------------------------------------------------------------------------
(* ReadableBridge *)

\* pull() is called, reads, and gets a chunk.
PullReadable == /\ "read" \in halves \ over /\ ~readPending /\ readPending' = TRUE
        /\ UNCHANGED <<halves, closed, reason, remaining, active, finishedHalves, over, op>>

Chunk == /\ readPending /\ op["stop"] = "none" /\ op["cancel"] = "none" /\ readPending' = FALSE
         /\ UNCHANGED <<halves, closed, reason, remaining, active, finishedHalves, over, op>>

\* The read finds the end: sent by the peer, or because the reader was
\* cancelled.  If the application's stream is not readable any more then
\* controller.close() throws, and the catch block of pull() ends the stream.
ReadDone ==
    /\ readPending /\ readPending' = FALSE
    /\ IF "read" \in over
       THEN AbortLifecycle("error", finishedHalves, op, {"read"})
       ELSE over' = over \cup {"read"} /\ FinishHalf("read") /\ UNCHANGED op
    /\ UNCHANGED <<halves>>

\* The native readable fails: reader.closed rejects, and a read with it.
ReadFails(because) ==
    /\ "read" \in halves \ finishedHalves /\ op["stop"] = "none" /\ op["cancel"] = "none"
    /\ readPending' = FALSE
    /\ AbortLifecycle(because, finishedHalves \cup {"read"}, op, {"read"})
    /\ UNCHANGED halves

\* The application cancels its readable.
CancelReadable ==
    /\ "read" \in halves \ over
    /\ over' = over \cup {"read"} /\ op' = [op EXCEPT !["cancel"] = "pending"]
    /\ UNCHANGED <<halves, closed, reason, remaining, active, finishedHalves, readPending>>

\* reader.cancel() settles; a read that was under way has ended by then.
ReaderCancelled(o) ==
    /\ HalfOf(o) = "read" /\ op[o] = "pending" /\ ~readPending
    /\ op' = [op EXCEPT ![o] = "done"]
    /\ FinishHalf("read")
    /\ UNCHANGED <<halves, over, readPending>>

-----------------------------------------------------------------------------
(* WritableBridge *)

\* A write fails, or writer.closed rejects.
WriteFails(because) ==
    /\ "write" \in halves \ finishedHalves
    /\ \A o \in {"close", "reset", "abort"} : op[o] = "none"
    /\ AbortLifecycle(because, finishedHalves, op, {"write"})
    /\ UNCHANGED <<halves, readPending>>

\* The application closes or aborts its writable.
EndWriting(o) ==
    /\ o \in {"close", "abort"} /\ "write" \in halves \ over
    /\ over' = over \cup {"write"} /\ op' = [op EXCEPT ![o] = "pending"]
    /\ UNCHANGED <<halves, closed, reason, remaining, active, finishedHalves, readPending>>

\* writer.close() or writer.abort() settles.
WriterSettles(o) ==
    /\ HalfOf(o) = "write" /\ op[o] = "pending"
    /\ op' = [op EXCEPT ![o] = "done"]
    /\ FinishHalf("write")
    /\ UNCHANGED <<halves, over, readPending>>

\* writer.close() rejects.
CloseFails(because) ==
    /\ op["close"] = "pending"
    /\ AbortLifecycle(because, finishedHalves, [op EXCEPT !["close"] = "done"], {"write"})
    /\ UNCHANGED <<halves, readPending>>

-----------------------------------------------------------------------------
\* stop() or reset() of the adapter: both bridges, then the signal.  A close()
\* that is under way is waited for instead of being turned into a reset.
Reset ==
    /\ halves # {}
    /\ LET begin(o, half) ==
               IF half \in halves /\ op[o] = "none" /\ ~(half = "write" /\ Closing(op))
               THEN IF half \in finishedHalves THEN "done" ELSE "pending"
               ELSE op[o]
       IN  AbortLifecycle("reset", finishedHalves,
               [op EXCEPT !["stop"] = begin("stop", "read"), !["reset"] = begin("reset", "write")], {})
    /\ UNCHANGED <<halves, readPending>>

Reasons == {"session", "error"}

StreamNext ==
    \/ \E parts \in SUBSET {"read", "write"}, parentAborted \in BOOLEAN : Create(parts, parentAborted)
    \/ SessionEnds \/ PullReadable \/ Chunk \/ ReadDone \/ CancelReadable \/ Reset
    \/ \E because \in Reasons : ReadFails(because) \/ WriteFails(because) \/ CloseFails(because)
    \/ \E o \in Ops : ReaderCancelled(o) \/ EndWriting(o) \/ WriterSettles(o)

StreamSpec == StreamInit /\ [][StreamNext]_streamVars

\* Operations on the native halves settle, and so does a read whose reader was
\* cancelled.
LiveStreamSpec ==
    /\ StreamSpec
    /\ WF_streamVars((op["stop"] # "none" \/ op["cancel"] # "none") /\ ReadDone)
    /\ \A o \in Ops : WF_streamVars(ReaderCancelled(o)) /\ WF_streamVars(WriterSettles(o))

-----------------------------------------------------------------------------
(* Properties *)

\* The driver's metric counts the stream from its creation to the abort of its
\* signal, by whatever it ends.
MetricExact == active = Others + (IF halves # {} /\ ~closed THEN 1 ELSE 0)

\* As long as the signal has not aborted the lifecycle waits for exactly the
\* halves that are not finished, and there is one: a stream whose halves have
\* both finished, in whatever way, does not stay counted by the runtime.
PartsExact ==
    halves # {} /\ ~closed =>
        remaining = Cardinality(halves \ finishedHalves) /\ finishedHalves # halves

\* An end of the session, a reset or an error of the other half never turns a
\* close() under way into a reset, and nothing is sent in a session that ended.
NoNeedlessReset ==
    [][op'["reset"] # op["reset"] /\ op'["reset"] = "pending" =>
         ~Closing(op) /\ reason' # "session"]_streamVars

\* After the signal both halves come to their end and release the native locks.
SignalReleasesHalves == closed ~> finishedHalves = halves

\* The lifecycle of the stream counts what is there.
PartsCounted == StreamTypeOK /\ MetricExact /\ PartsExact
=============================================================================
