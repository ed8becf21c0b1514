--------------------------- MODULE ScReceiverLoop ---------------------------
(***************************************************************************)
(* The looping side-channel receiver (tools/sc_receiver_loop.py): two      *)
(* asyncio tasks that share a trigger and a queue.  The collector sends a  *)
(* request through the man-in-the-middle port, sets the trigger until the  *)
(* answer has come, and stores what the reader recorded in the meantime.   *)
(* The reader throws the side channel's data away until it sees the        *)
(* trigger set, and records until it sees it cleared.                      *)
(*                                                                         *)
(* Tasks give up the event loop only where an await has to wait: `running` *)
(* is the task that has it, `ready` those that were woken, first come      *)
(* first served.  Sockets and timers are looked at between two tasks.      *)
(* A chunk is what arrives of the side channel at once, and is known by    *)
(* the number of traces that had been stored then; one read(1024) returns  *)
(* one or more of them.                                                    *)
(*                                                                         *)
(* Operators named X_likeThis are X with a mistake in it (see module SSS). *)
(***************************************************************************)
EXTENDS Naturals, Sequences, FiniteSets

CONSTANTS
    ntraces,       \* the argument of that name
    Backlog,       \* chunks that fit in the stream's buffer
    MaxForeign     \* messages on the air besides the target's answers

ASSUME LoopAssumption ==
    ntraces \in Nat \ {0} /\ Backlog \in Nat \ {0} /\ MaxForeign \in Nat

None    == "none"
Foreign == 0          \* stands for the request of a message that is no answer

VARIABLES
    running, ready,
    readPc,      \* read_trace: which of its reads it is at
    chunks,      \* rsc_sock's buffer
    scEof,       \* the side channel's port has hung up
    buf,         \* the chunks recorded
    queue,       \* traces handed over
    trigger,
    collPc, i,   \* collect_traces: its place and the number of the request
    response,    \* the body it has read
    inbox,       \* rsock's buffer: headers and bodies of messages
    mmEof,       \* the man-in-the-middle port has hung up
    dsets,       \* the file
    asked,       \* requests the target has not answered
    coming,      \* pieces of messages on their way to rsock
    foreign,     \* messages that were no answers
    timely       \* a chunk has come since the request and before any message

reader    == <<readPc, buf, queue>>
collector == <<trigger, collPc, i, response, dsets>>
streams   == <<chunks, scEof, inbox, mmEof>>
world     == <<asked, coming, foreign>>
vars == <<running, ready, readPc, chunks, scEof, buf, queue, trigger, collPc, i,
          response, inbox, mmEof, dsets, asked, coming, foreign, timely>>

Requests == 1..ntraces
Piece == (Requests \cup {Foreign}) \X {"header", "body"}
Chunk == 0..ntraces

TypeOK ==
    /\ running \in {"reader", "collector", None}
    /\ ready \in {<<>>, <<"reader">>, <<"collector">>,
                  <<"reader", "collector">>, <<"collector", "reader">>}
    /\ readPc \in {"discard", "record", "spin"}
    /\ chunks \in Seq(Chunk) /\ Len(chunks) <= Backlog
    /\ buf \in SUBSET Chunk
    /\ queue \in {<<>>} \cup {<<t>> : t \in SUBSET Chunk}
    /\ {trigger, scEof, mmEof, timely} \subseteq BOOLEAN
    /\ collPc \in {"send", "header", "body", "get", "sleep", "done", "failed"}
    /\ i \in 1..(ntraces + 1)
    /\ response \in Piece /\ inbox \in Seq(Piece) /\ coming \in Seq(Piece)
    /\ Len(dsets) <= ntraces
    /\ \A k \in DOMAIN dsets : dsets[k].trace \subseteq Chunk /\ dsets[k].output \in Piece
    /\ asked \in Seq(Requests)
    /\ foreign \in 0..MaxForeign

\* main has connected both sockets, created the reader and called the collector.
Init ==
    /\ running = None /\ ready = <<"collector", "reader">>
    /\ readPc = "discard" /\ buf = {} /\ queue = <<>>
    /\ chunks = <<>> /\ scEof = FALSE /\ inbox = <<>> /\ mmEof = FALSE
    /\ trigger = FALSE /\ collPc = "send" /\ i = 1
    /\ response = <<Foreign, "body">> /\ dsets = <<>>
    /\ asked = <<>> /\ coming = <<>> /\ foreign = 0 /\ timely = FALSE

-----------------------------------------------------------------------------
(* The event loop.                                                         *)

Sleeping(task) == running # task /\ task \notin {ready[k] : k \in DOMAIN ready}

\* The futures a sleeping task waits on have been set: it is put in line.
WakeIf_again(task, cond) ==
    ready' = IF cond /\ running # task THEN Append(ready, task) ELSE ready
WakeIf(task, cond) ==
    ready' = IF cond /\ Sleeping(task) THEN Append(ready, task) ELSE ready

Idle == running = None

Run ==
    /\ Idle /\ ready # <<>>
    /\ running' = Head(ready) /\ ready' = Tail(ready)
    /\ UNCHANGED <<reader, collector, streams, world, timely>>

Await == running' = None /\ UNCHANGED ready
Goes(task) == running = task

-----------------------------------------------------------------------------
(* read_trace.                                                             *)

\* One read(1024) returns the first n chunks.
Read(n) ==
    /\ chunks' = SubSeq(chunks, n + 1, Len(chunks))
    /\ UNCHANGED <<collector, running, scEof, inbox, mmEof, world, timely>>
taken(n) == {chunks[k] : k \in 1..n}

\* What the first read returns is thrown away in any case, and only then is the
\* trigger looked at.
Discard ==
    /\ Goes("reader") /\ readPc = "discard"
    /\ \E n \in DOMAIN chunks : Read(n)
    /\ readPc' = IF trigger THEN "record" ELSE "discard"
    /\ UNCHANGED <<buf, queue, ready>>

\* What shows the trigger to be cleared still belongs to the trace.
Record_keepsBuf ==
    /\ Goes("reader") /\ readPc = "record"
    /\ \E n \in DOMAIN chunks :
          /\ Read(n)
          /\ buf' = buf \cup taken(n)
          /\ queue' = IF trigger THEN queue ELSE Append(queue, buf \cup taken(n))
    /\ readPc' = IF trigger THEN "record" ELSE "discard"
    /\ WakeIf("collector", ~trigger /\ collPc = "get")
Record ==
    /\ Goes("reader") /\ readPc = "record"
    /\ \E n \in DOMAIN chunks :
          /\ Read(n)
          /\ buf' = IF trigger THEN buf \cup taken(n) ELSE {}
          /\ queue' = IF trigger THEN queue ELSE Append(queue, buf \cup taken(n))
    /\ readPc' = IF trigger THEN "record" ELSE "discard"
    /\ WakeIf("collector", ~trigger /\ collPc = "get")

\* read waits while there is nothing ...
ReaderWaits ==
    /\ Goes("reader") /\ chunks = <<>> /\ ~scEof
    /\ Await
    /\ UNCHANGED <<reader, collector, streams, world, timely>>

\* ... but returns nothing, at once and for ever, at the end of the stream: the
\* task never gives the event loop back.
ReaderSpins ==
    /\ Goes("reader") /\ readPc # "spin" /\ chunks = <<>> /\ scEof
    /\ readPc' = "spin"
    /\ queue' = IF readPc = "record" /\ ~trigger THEN Append(queue, buf) ELSE queue
    /\ UNCHANGED <<buf, collector, running, ready, streams, world, timely>>

ReadTrace == Discard \/ Record \/ ReaderWaits \/ ReaderSpins

-----------------------------------------------------------------------------
(* collect_traces.                                                         *)

SendRequest_noTrigger ==
    /\ Goes("collector") /\ collPc = "send" /\ i <= ntraces
    /\ asked' = Append(asked, i)
    /\ collPc' = "header"
    /\ timely' = FALSE
    /\ UNCHANGED <<trigger, reader, running, ready, i, response, dsets, streams, coming, foreign>>
SendRequest ==
    /\ Goes("collector") /\ collPc = "send" /\ i <= ntraces
    /\ trigger' = TRUE
    /\ asked' = Append(asked, i)
    /\ collPc' = "header"
    /\ timely' = FALSE
    /\ UNCHANGED <<reader, running, ready, i, response, dsets, streams, coming, foreign>>

ReadHeader ==
    /\ Goes("collector") /\ collPc = "header" /\ inbox # <<>>
    /\ inbox' = Tail(inbox)
    /\ collPc' = "body"
    /\ UNCHANGED <<reader, running, ready, trigger, i, response, dsets, chunks, scEof,
                   mmEof, world, timely>>

\* Whatever message it is: its addresses are not looked at.
ReadBody_keepsTrigger ==
    /\ Goes("collector") /\ collPc = "body" /\ inbox # <<>>
    /\ response' = Head(inbox) /\ inbox' = Tail(inbox)
    /\ collPc' = "get"
    /\ UNCHANGED <<reader, running, ready, trigger, i, dsets, chunks, scEof, mmEof, world, timely>>
ReadBody_leavesIt ==
    /\ Goes("collector") /\ collPc = "body" /\ inbox # <<>>
    /\ response' = Head(inbox) /\ UNCHANGED inbox
    /\ trigger' = FALSE
    /\ collPc' = "get"
    /\ UNCHANGED <<reader, running, ready, i, dsets, chunks, scEof, mmEof, world, timely>>
ReadBody ==
    /\ Goes("collector") /\ collPc = "body" /\ inbox # <<>>
    /\ response' = Head(inbox) /\ inbox' = Tail(inbox)
    /\ trigger' = FALSE
    /\ collPc' = "get"
    /\ UNCHANGED <<reader, running, ready, i, dsets, chunks, scEof, mmEof, world, timely>>

\* The trace is written with its attributes, and the collector sleeps.
StoreTrace ==
    /\ Goes("collector") /\ collPc = "get" /\ queue # <<>>
    /\ dsets' = Append(dsets, [trace |-> Head(queue), output |-> response])
    /\ queue' = Tail(queue)
    /\ collPc' = "sleep"
    /\ Await
    /\ UNCHANGED <<readPc, buf, trigger, i, response, streams, world, timely>>

\* readexactly and get wait for what is not there yet.
CollectorWaits ==
    /\ Goes("collector")
    /\ \/ collPc \in {"header", "body"} /\ inbox = <<>> /\ ~mmEof
       \/ collPc = "get" /\ queue = <<>>
    /\ Await
    /\ UNCHANGED <<reader, collector, streams, world, timely>>

\* The for loop's end: main cancels the reader, whose CancelledError gather
\* passes on; or an IncompleteReadError.  Either way the program ends.
CollectorEnds ==
    /\ Goes("collector")
    /\ \/ collPc = "send" /\ i > ntraces /\ collPc' = "done"
       \/ collPc \in {"header", "body"} /\ inbox = <<>> /\ mmEof /\ collPc' = "failed"
    /\ running' = None /\ ready' = <<>>
    /\ UNCHANGED <<reader, trigger, i, response, dsets, streams, world, timely>>

CollectTraces ==
    \/ SendRequest \/ ReadHeader \/ ReadBody \/ StoreTrace
    \/ CollectorWaits \/ CollectorEnds

-----------------------------------------------------------------------------
(* What the event loop hears of, between two tasks.                        *)

Listening == Idle /\ collPc \notin {"done", "failed"}

SleepOver ==
    /\ Listening /\ collPc = "sleep"
    /\ collPc' = "send" /\ i' = i + 1
    /\ WakeIf("collector", TRUE)
    /\ UNCHANGED <<running, reader, trigger, response, dsets, streams, world, timely>>

FeedChunk ==
    /\ Listening /\ ~scEof /\ Len(chunks) < Backlog
    /\ chunks' = Append(chunks, Len(dsets))
    /\ timely' = (timely \/ (collPc = "header" /\ Sleeping("collector")))
    /\ WakeIf("reader", TRUE)
    /\ UNCHANGED <<running, reader, collector, scEof, inbox, mmEof, world>>

ScHangUp ==
    /\ Listening /\ ~scEof
    /\ scEof' = TRUE
    /\ WakeIf("reader", TRUE)
    /\ UNCHANGED <<running, reader, collector, chunks, inbox, mmEof, world, timely>>

FeedMessage ==
    /\ Listening /\ ~mmEof /\ coming # <<>>
    /\ inbox' = Append(inbox, Head(coming)) /\ coming' = Tail(coming)
    /\ WakeIf("collector", collPc \in {"header", "body"})
    /\ UNCHANGED <<running, reader, collector, chunks, scEof, mmEof, asked, foreign, timely>>

MmHangUp ==
    /\ Listening /\ ~mmEof
    /\ mmEof' = TRUE
    /\ WakeIf("collector", collPc \in {"header", "body"})
    /\ UNCHANGED <<running, reader, collector, chunks, scEof, inbox, world, timely>>

\* The target answers the first request it has not answered; any SED may send
\* a message of its own.
Messages(r) == <<<<r, "header">>, <<r, "body">>>>
Answer ==
    /\ Listening /\ asked # <<>>
    /\ coming' = coming \o Messages(Head(asked)) /\ asked' = Tail(asked)
    /\ UNCHANGED <<running, ready, reader, collector, streams, foreign, timely>>
ForeignMessage ==
    /\ Listening /\ foreign < MaxForeign
    /\ coming' = coming \o Messages(Foreign) /\ foreign' = foreign + 1
    /\ UNCHANGED <<running, ready, reader, collector, streams, asked, timely>>

World == FeedChunk \/ ScHangUp \/ FeedMessage \/ MmHangUp \/ Answer \/ ForeignMessage

Next == Run \/ ReadTrace \/ CollectTraces \/ SleepOver \/ World

Spec == Init /\ [][Next]_vars

\* Tasks run.  The loop looks at its timers and sockets again and again, never
\* while a task runs.  The side channel goes on and the target answers: without
\* them there is nothing to collect.
Fairness ==
    /\ WF_vars(Run) /\ WF_vars(ReadTrace) /\ WF_vars(CollectTraces)
    /\ SF_vars(SleepOver) /\ SF_vars(FeedMessage)
    /\ SF_vars(FeedChunk) /\ SF_vars(Answer)

FairSpec == Spec /\ Fairness

-----------------------------------------------------------------------------
(* Properties.                                                             *)

\* A trace holds nothing of what came before the trace in front of it was
\* stored: the reader, which throws the backlog away, always gets its turn
\* between two requests (tools/sc_receiver_loop.py:25-33).
FreshTraces ==
    \A k \in DOMAIN dsets : dsets[k].trace \subseteq {k - 1}

\* The k-th output stored is the body of the k-th message that came, whatever
\* it was an answer to: each message that was no answer makes all outputs
\* after it one request late, and none is lost or taken twice (lines 50-65).
OutputsShift ==
    \A k \in DOMAIN dsets :
        LET strays == {j \in 1..k : dsets[j].output[1] = Foreign} IN
        dsets[k].output \in {<<Foreign, "body">>, <<k - Cardinality(strays), "body">>}

\* The answer came before the reader saw the trigger: nobody will set it again,
\* and the collector waits for ever (lines 26-29 and 55-58).
Missed == collPc = "get" /\ queue = <<>> /\ ~trigger /\ readPc = "discard"

\* That happens only if no side-channel data came while the collector was
\* waiting for an answer.
MissedOnlyLate == Missed => ~timely

\* Every request ends in a stored trace, unless the reader missed the trigger
\* or either port hung up.
Collected ==
    \A k \in Requests :
        (collPc = "header" /\ i = k) ~> (Len(dsets) >= k \/ Missed \/ scEof \/ mmEof)
=============================================================================
