---------------------------- MODULE SessionAdapter -----------------------------
(***************************************************************************)
(* One session of session.adapter.ts and its streams: the bridge between a *)
(* native collection of incoming streams and the one the application       *)
(* reads, the streams the application opens, close(), and finish(), which  *)
(* ends the session and everything in it.                                  *)
(*                                                                         *)
(* Abstracted: what happens inside a stream (see StreamAdapter), the       *)
(* datagrams, and one of the two collections, which work alike.  A read of *)
(* the native collection resolves in one turn and is looked at in a later  *)
(* one.  A stream adapter may refuse a native stream: its constructor      *)
(* throws on an id it cannot use, or on two halves that differ.            *)
(***************************************************************************)
CONSTANTS Incoming, Outgoing  \* the streams that the peer and this side open

ASSUME DistinctStreams == Incoming \cap Outgoing = {}

Places == {"none", "queued", "read", "opening", "handed", "discarded", "dropped", "failed"}

VARIABLES
    current,  \* the adapter's state; its signal has aborted in CLOSED
    closing,  \* where close() is
    native,   \* the native session
    finished, \* the bridge's flag
    reading,  \* the application's collection is readable
    pulling,  \* pull() waits for a read of the native collection
    where,    \* what became of each stream: "dropped" when its adapter refused
              \* it, "failed" when there never was one
    ended     \* streams whose signal has aborted

vars == <<current, closing, native, finished, reading, pulling, where, ended>>

Streams == Incoming \cup Outgoing
At(place) == {s \in Streams : where[s] = place}

TypeOK ==
    /\ current \in {"CONNECTED", "CLOSING", "CLOSED"} /\ closing \in {"none", "pending", "settled"}
    /\ native \in {"open", "closed", "failed"}
    /\ finished \in BOOLEAN /\ reading \in BOOLEAN /\ pulling \in BOOLEAN
    /\ where \in [Streams -> Places]
    /\ ended \subseteq At("handed")
    /\ \A s, t \in At("read") : s = t /\ pulling

Init ==
    /\ current = "CONNECTED" /\ closing = "none" /\ native = "open"
    /\ finished = FALSE /\ reading = TRUE /\ pulling = FALSE
    /\ where = [s \in Streams |-> "none"] /\ ended = {}

-----------------------------------------------------------------------------
(* mapIncomingStream() *)

\* Mutant: the lock is released, the flag forgotten.
ReleaseLockOnly == UNCHANGED finished

\* release(): the bridge is done with the native collection.
Release == finished' = TRUE

\* The bridge let go of the native collection without cancelling it, because a
\* stream of it could not be adapted.
Unadapted == At("dropped") \cap Incoming # {}

\* The native collection delivers to a waiting read, or keeps the stream; once
\* it is cancelled it discards it.
Arrives(s) ==
    /\ s \in Incoming /\ where[s] = "none" /\ native = "open"
    /\ where' = [where EXCEPT ![s] =
           IF finished /\ ~Unadapted THEN "discarded"
           ELSE IF pulling /\ At("read") = {} THEN "read" ELSE "queued"]
    /\ UNCHANGED <<current, closing, native, finished, reading, pulling, ended>>

\* The application reads.  A reader that was released makes the pull fail, one
\* that is being cancelled ends it without a result.
Pull ==
    /\ reading /\ ~pulling
    /\ IF finished
       THEN reading' \in BOOLEAN /\ UNCHANGED <<pulling, where>>
       ELSE /\ pulling' = TRUE
            /\ IF At("queued") = {} THEN UNCHANGED where
               ELSE \E s \in At("queued") : where' = [where EXCEPT ![s] = "read"]
            /\ UNCHANGED reading
    /\ UNCHANGED <<current, closing, native, finished, ended>>

\* Mutants: the flag is not looked at again after the read; a stream that
\* comes too late is dropped as it is.
AdoptedAlways(s) == "handed"
AdoptedOrDropped(s) == IF finished THEN "none" ELSE "handed"

\* A stream that was read after the bridge has finished is discarded.
Adopted(s) == IF finished THEN "discarded" ELSE "handed"

\* The read has resolved with a stream, which is adopted or discarded.
PullDelivers(s) ==
    /\ where[s] = "read"
    /\ where' = [where EXCEPT ![s] = Adopted(s)] /\ pulling' = FALSE
    /\ UNCHANGED <<current, closing, native, finished, reading, ended>>

\* Its adapter refuses the stream: the application's collection fails, and
\* release() gives up the native one as it is.
AdaptFails(s) ==
    /\ where[s] = "read" /\ ~finished
    /\ where' = [where EXCEPT ![s] = "dropped"]
    /\ pulling' = FALSE /\ reading' = FALSE /\ Release
    /\ UNCHANGED <<current, closing, native, ended>>

\* The read finds the end of the native collection, or fails with it.
PullEnds ==
    /\ pulling /\ At("read") = {} /\ (finished \/ native # "open")
    /\ pulling' = FALSE
    /\ reading' = (reading /\ finished /\ native # "failed") /\ Release
    /\ UNCHANGED <<current, closing, native, where, ended>>

\* Mutant: the streams that nobody has read are left alone.
CancelledKept == where

\* A native collection that is cancelled or fails discards what it keeps.
Emptied == [s \in Streams |-> IF where[s] = "queued" THEN "discarded" ELSE where[s]]

\* cancel() of the bridge: nothing once it has finished.
Cancelled == IF finished THEN where ELSE Emptied

\* The application cancels its collection.
Cancel ==
    /\ reading /\ reading' = FALSE
    /\ finished' = TRUE /\ where' = Cancelled
    /\ UNCHANGED <<current, closing, native, pulling, ended>>

-----------------------------------------------------------------------------
(* createBidirectionalStream() and createUnidirectionalStream() *)

Open(s) ==
    /\ s \in Outgoing /\ where[s] = "none" /\ current = "CONNECTED"
    /\ where' = [where EXCEPT ![s] = "opening"]
    /\ UNCHANGED <<current, closing, native, finished, reading, pulling, ended>>

\* Mutant: subscribe() only adds the listener.
SubscribedLate(s) == ended

\* The constructor of a stream subscribes: with a session that has ended its
\* signal aborts at once.
Subscribed(s) == IF current = "CLOSED" THEN ended \cup {s} ELSE ended

\* The native stream is there, whatever the session has become meanwhile.
Opened(s) ==
    /\ where[s] = "opening"
    /\ where' = [where EXCEPT ![s] = "handed"] /\ ended' = Subscribed(s)
    /\ UNCHANGED <<current, closing, native, finished, reading, pulling>>

\* The native stream is there, but its adapter refuses it: the call rejects and
\* nobody discards the stream.
OpenedUnadapted(s) ==
    /\ where[s] = "opening"
    /\ where' = [where EXCEPT ![s] = "dropped"]
    /\ UNCHANGED <<current, closing, native, finished, reading, pulling, ended>>

\* There is no native stream.
OpenFails(s) ==
    /\ where[s] = "opening"
    /\ where' = [where EXCEPT ![s] = "failed"]
    /\ UNCHANGED <<current, closing, native, finished, reading, pulling, ended>>

\* A stream ends by itself.
StreamEnds(s) ==
    /\ s \in At("handed") \ ended
    /\ ended' = ended \cup {s}
    /\ UNCHANGED <<current, closing, native, finished, reading, pulling, where>>

-----------------------------------------------------------------------------
(* The end of the session *)

\* The streams that listen to the session.
Listeners == At("handed")

\* finish(), the first time: the listeners run, the collections are cancelled.
Finish ==
    /\ current # "CLOSED" /\ current' = "CLOSED"
    /\ ended' = ended \cup Listeners
    /\ finished' = TRUE /\ where' = Cancelled

\* close(), the first time: the native close() may throw.
Close ==
    /\ closing = "none" /\ current = "CONNECTED"
    /\ \/ /\ closing' = "pending" /\ current' = "CLOSING"
          /\ UNCHANGED <<ended, finished, where>>
       \/ closing' = "settled" /\ Finish
    /\ UNCHANGED <<native, reading, pulling>>

\* The native session ends.  What its collections keep can still be read,
\* unless it has failed.
NativeEnds(how) ==
    /\ native = "open"
    /\ native' = how /\ where' = IF how = "failed" THEN Emptied ELSE where
    /\ UNCHANGED <<current, closing, finished, reading, pulling, ended>>

\* native.closed settles, or native.ready rejects.
EndSeen ==
    /\ native # "open"
    /\ Finish
    /\ UNCHANGED <<closing, native, reading, pulling>>

\* close() waits for closedPromise.
CloseSettles ==
    /\ closing = "pending" /\ current = "CLOSED"
    /\ closing' = "settled"
    /\ UNCHANGED <<current, native, finished, reading, pulling, where, ended>>

-----------------------------------------------------------------------------
Next ==
    \/ Pull \/ PullEnds \/ Cancel \/ Close \/ EndSeen \/ CloseSettles
    \/ \E how \in {"closed", "failed"} : NativeEnds(how)
    \/ \E s \in Streams :
          \/ Arrives(s) \/ PullDelivers(s) \/ AdaptFails(s)
          \/ Open(s) \/ Opened(s) \/ OpenedUnadapted(s) \/ OpenFails(s) \/ StreamEnds(s)

Spec == Init /\ [][Next]_vars

\* Promises settle; a native session that is asked to close does so.
LiveSpec ==
    /\ Spec
    /\ WF_vars(CloseSettles) /\ WF_vars(closing = "pending" /\ NativeEnds("closed"))
    /\ WF_vars(PullEnds) /\ WF_vars(EndSeen)
    /\ \A s \in Streams :
          /\ WF_vars(PullDelivers(s) \/ AdaptFails(s))
          /\ WF_vars(Opened(s) \/ OpenedUnadapted(s) \/ OpenFails(s))

-----------------------------------------------------------------------------
(* Properties *)

\* The signal of every stream has aborted once the session is closed, also of
\* one that was opened before the close and came after it.
StreamsFollowSession == current = "CLOSED" => At("handed") \subseteq ended

\* Nothing that has arrived stays behind with nobody to read it, unless a stream
\* before it could not be adapted: the bridge then lets go of the native
\* collection without cancelling it.
NothingLeftBehind == finished /\ ~Unadapted => At("queued") = {}

\* In that case the application has been told: its collection has failed, and
\* no read that could still lose a stream is under way.
FailureIsTold == Unadapted => finished /\ ~reading /\ ~pulling

\* A stream is handed over only to a collection that the application still
\* reads, and of a session that is not over: otherwise nobody would end it.
HandedToReader ==
    [][\A s \in Incoming : where[s] # "handed" /\ where'[s] = "handed" =>
         reading /\ current # "CLOSED"]_vars

\* Every stream that was read or asked for ends up with the application or is
\* discarded, or an error tells that it was refused or could not be opened; and
\* close() settles.
NothingPends ==
    /\ \A s \in Streams :
          where[s] \in {"read", "opening"} ~> where[s] \in {"handed", "discarded", "dropped", "failed"}
    /\ closing = "pending" ~> closing = "settled"

\* No stream escapes the end of its session, handed over or not, but those that
\* a failed adapter left to the native session.
NoStreamEscapes == StreamsFollowSession /\ NothingLeftBehind /\ FailureIsTold
=============================================================================
