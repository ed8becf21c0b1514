------------------------ MODULE ScReceiverLoopProofs -------------------------
(***************************************************************************)
(* Proofs about the looping side-channel receiver, for any number of       *)
(* traces, any size of the stream's buffer and any number of strays.       *)
(*                                                                         *)
(* Everything follows from the order in which the event loop lets the two  *)
(* tasks run: whoever was woken first, runs first, and runs until there is *)
(* nothing left for it.                                                    *)
(***************************************************************************)
EXTENDS ScReceiverLoop, Integers, FiniteSetTheorems, SequenceTheorems, TLAPS

-----------------------------------------------------------------------------
(* The invariant.                                                          *)

Slot == [trace : SUBSET Chunk, output : Piece]
Stopped == collPc \in {"done", "failed"}

Types ==
    /\ TypeOK
    /\ queue \in Seq(SUBSET Chunk)
    /\ dsets \in Seq(Slot)

\* A task is in line at most once, and not while it runs.  The reader sleeps
\* only when it has read everything, the collector only where it waits.
Turns ==
    /\ running = "reader" => ready \in {<<>>, <<"collector">>}
    /\ running = "collector" => ready \in {<<>>, <<"reader">>}
    /\ Stopped => running = None /\ ready = <<>>
    /\ readPc = "spin" => running = "reader" /\ scEof
    /\ ~Stopped /\ Sleeping("reader") => chunks = <<>>
    /\ collPc = "sleep" => Sleeping("collector")
    /\ collPc = "send" => ~Sleeping("collector")

\* One trace per request.
Requested ==
    /\ Len(dsets) = IF collPc = "sleep" THEN i ELSE i - 1
    /\ collPc \in {"header", "body", "get", "sleep", "failed"} => i <= ntraces
    /\ collPc = "done" => i = ntraces + 1

\* The trigger is set from a request to the message that is taken for its
\* answer; a trace that is begun is handed over before the next request.
Handover ==
    /\ trigger <=> collPc \in {"header", "body", "failed"}
    /\ queue # <<>> => collPc = "get" /\ readPc # "record"
    /\ readPc = "record" => collPc \in {"header", "body", "get", "failed"}

\* What is left in the buffer from before a trace was stored is thrown away by
\* the reader before the collector has its next turn.
Backlogged == \E k \in DOMAIN chunks : chunks[k] # Len(dsets)
Fresh ==
    /\ Backlogged =>
          /\ readPc = "discard" /\ collPc \in {"sleep", "send"}
          /\ \/ running = "reader"
             \/ running = None /\ ready \in {<<"reader">>, <<"reader", "collector">>}
    /\ readPc = "discard" => buf = {}
    /\ buf \subseteq {Len(dsets)}
    /\ queue # <<>> => Head(queue) \subseteq {Len(dsets)}

\* A chunk that came while the collector slept waiting for an answer was seen
\* with the trigger set, or will be.
Noticed ==
    timely /\ collPc \in {"header", "body", "get"} =>
        \/ readPc \in {"record", "spin"}
        \/ queue # <<>>
        \/ /\ collPc = "header" /\ chunks # <<>>
           /\ \/ running = "reader"
              \/ running = None /\ ready \in {<<"reader">>, <<"reader", "collector">>}

\* The messages that have come or are coming, header and body by turns.
Air == inbox \o coming
Framed ==
    ~Stopped =>
        /\ collPc = "body" => Air # <<>>
        /\ Air # <<>> =>
              /\ Air[1][2] = IF collPc = "body" THEN "body" ELSE "header"
              /\ Air[Len(Air)][2] = "body"
        /\ \A k \in 1..(Len(Air) - 1) : Air[k + 1][2] # Air[k][2]

\* Those of the outputs that are no answers, and how many answers were stored
\* or are about to be.
Strays(k) == {j \in 1..k : dsets[j].output[1] = Foreign}
Stored == Len(dsets) - Cardinality(Strays(Len(dsets)))
Taken == IF collPc = "get" /\ response[1] # Foreign THEN Stored + 1 ELSE Stored

\* Answers come in the order of the requests: count gives the number of the
\* last one up to each piece.
IsAnswerBody(piece) == piece[1] # Foreign /\ piece[2] = "body"
InOrder(count) ==
    /\ count[0] = Taken
    /\ \A k \in 1..Len(Air) :
          /\ count[k] = IF IsAnswerBody(Air[k]) THEN count[k - 1] + 1 ELSE count[k - 1]
          /\ IsAnswerBody(Air[k]) => Air[k][1] = count[k]
    /\ \A k \in 1..Len(asked) : asked[k] = count[Len(Air)] + k
    /\ count[Len(Air)] + Len(asked) = IF collPc \in {"send", "done"} THEN i - 1 ELSE i
Answers ==
    /\ ~Stopped => \E count \in [0..Len(Air) -> Int] : InOrder(count)
    /\ collPc = "get" => response \in {<<Foreign, "body">>, <<Stored + 1, "body">>}

IInv ==
    /\ Types /\ Turns /\ Requested /\ Handover /\ Fresh /\ Noticed
    /\ Framed /\ Answers /\ FreshTraces /\ OutputsShift

-----------------------------------------------------------------------------
(* The line of tasks.                                                      *)

LEMMA Pair ==
    ASSUME NEW S, NEW a \in S, NEW b \in S
    PROVE  Append(<<a>>, b) = <<a, b>>
<1> DEFINE l == Append(<<a>>, b)
           r == <<a, b>>
<1>1. l \in Seq(S) /\ r \in Seq(S) OBVIOUS
<1>2. Len(l) = 2 /\ Len(r) = 2 OBVIOUS
<1>3. l[1] = a /\ l[2] = b OBVIOUS
<1>4. r[1] = a /\ r[2] = b OBVIOUS
<1> HIDE DEF l, r
<1>5. \A k \in 1..Len(l) : l[k] = r[k] BY <1>2, <1>3, <1>4
<1>6. l = r BY <1>1, <1>2, <1>5, SeqEqual
<1> QED BY <1>6 DEF l, r

LEMMA Lines ==
    /\ <<"reader">> # <<"collector">> /\ <<"reader">> # <<>> /\ <<"collector">> # <<>>
    /\ Append(<<>>, "reader") = <<"reader">> /\ Append(<<>>, "collector") = <<"collector">>
    /\ Append(<<"collector">>, "reader") = <<"collector", "reader">>
    /\ Append(<<"reader">>, "collector") = <<"reader", "collector">>
    /\ <<"reader", "collector">> # <<"collector", "reader">>
    /\ {<<"reader", "collector">>, <<"collector", "reader">>}
            \cap {<<>>, <<"reader">>, <<"collector">>} = {}
<1>1. <<"reader">> # <<"collector">>
  <2>1. <<"reader">>[1] # <<"collector">>[1] OBVIOUS
  <2> QED BY <2>1
<1>2. <<"reader">> # <<>> /\ <<"collector">> # <<>> OBVIOUS
<1>3. Append(<<>>, "reader") = <<"reader">> /\ Append(<<>>, "collector") = <<"collector">>
  OBVIOUS
<1>4. Append(<<"collector">>, "reader") = <<"collector", "reader">>
  BY Pair, "reader" \in {"reader", "collector"}, "collector" \in {"reader", "collector"}
<1>5. Append(<<"reader">>, "collector") = <<"reader", "collector">>
  BY Pair, "reader" \in {"reader", "collector"}, "collector" \in {"reader", "collector"}
<1>6. <<"reader", "collector">> # <<"collector", "reader">>
  <2>1. <<"reader", "collector">>[1] # <<"collector", "reader">>[1] OBVIOUS
  <2> QED BY <2>1
<1>7. {<<"reader", "collector">>, <<"collector", "reader">>}
            \cap {<<>>, <<"reader">>, <<"collector">>} = {}
  <2>1. Len(<<"reader", "collector">>) = 2 /\ Len(<<"collector", "reader">>) = 2 OBVIOUS
  <2>2. Len(<<>>) = 0 /\ Len(<<"reader">>) = 1 /\ Len(<<"collector">>) = 1 OBVIOUS
  <2> QED BY <2>1, <2>2
<1> QED BY <1>1, <1>2, <1>3, <1>4, <1>5, <1>6, <1>7

LEMMA InLine ==
    ASSUME NEW line \in {<<>>, <<"reader">>, <<"collector">>,
                         <<"reader", "collector">>, <<"collector", "reader">>}
    PROVE  /\ "reader" \notin {line[k] : k \in DOMAIN line} <=> line \in {<<>>, <<"collector">>}
           /\ "collector" \notin {line[k] : k \in DOMAIN line} <=> line \in {<<>>, <<"reader">>}
<1>1. CASE line = <<>> BY <1>1
<1>2. CASE line = <<"reader">> BY <1>2
<1>3. CASE line = <<"collector">> BY <1>3
<1>4. CASE line = <<"reader", "collector">> BY <1>4
<1>5. CASE line = <<"collector", "reader">> BY <1>5
<1> QED BY <1>1, <1>2, <1>3, <1>4, <1>5

LEMMA Line ==
    ASSUME Types
    PROVE  /\ Sleeping("reader") <=> running # "reader" /\ ready \in {<<>>, <<"collector">>}
           /\ Sleeping("collector") <=> running # "collector" /\ ready \in {<<>>, <<"reader">>}
BY InLine DEF Sleeping, Types, TypeOK

LEMMA NextLine ==
    ASSUME Types'
    PROVE  /\ Sleeping("reader")' <=> running' # "reader" /\ ready' \in {<<>>, <<"collector">>}
           /\ Sleeping("collector")' <=> running' # "collector" /\ ready' \in {<<>>, <<"reader">>}
BY InLine DEF Sleeping, Types, TypeOK

\* Being put in line, and being the first of it.
LEMMA Woken ==
    ASSUME Types, NEW task \in {"reader", "collector"}, NEW cond, WakeIf(task, cond)
    PROVE  \/ /\ cond /\ running # task
              /\ \/ ready = <<>> /\ ready' = <<task>>
                 \/ /\ task = "reader" /\ ready = <<"collector">>
                    /\ ready' = <<"collector", "reader">>
                 \/ /\ task = "collector" /\ ready = <<"reader">>
                    /\ ready' = <<"reader", "collector">>
           \/ ~(cond /\ Sleeping(task)) /\ ready' = ready
<1>1. CASE cond /\ Sleeping(task)
  <2>1. ready' = Append(ready, task) BY <1>1 DEF WakeIf
  <2>2. /\ cond /\ running # task
        /\ \/ ready = <<>>
           \/ task = "reader" /\ ready = <<"collector">>
           \/ task = "collector" /\ ready = <<"reader">>
    BY <1>1, Line
  <2> QED BY <2>1, <2>2, Lines
<1>2. CASE ~(cond /\ Sleeping(task)) BY <1>2 DEF WakeIf
<1> QED BY <1>1, <1>2

LEMMA FirstRuns ==
    ASSUME Types, Run
    PROVE  \/ ready = <<"reader">> /\ running' = "reader" /\ ready' = <<>>
           \/ ready = <<"collector">> /\ running' = "collector" /\ ready' = <<>>
           \/ ready = <<"reader", "collector">> /\ running' = "reader" /\ ready' = <<"collector">>
           \/ ready = <<"collector", "reader">> /\ running' = "collector" /\ ready' = <<"reader">>
<1>1. running' = Head(ready) /\ ready' = Tail(ready) /\ ready # <<>> BY DEF Run
<1>2. CASE ready = <<"reader">> BY <1>1, <1>2
<1>3. CASE ready = <<"collector">> BY <1>1, <1>3
<1>4. CASE ready = <<"reader", "collector">> BY <1>1, <1>4
<1>5. CASE ready = <<"collector", "reader">> BY <1>1, <1>5
<1> QED BY <1>1, <1>2, <1>3, <1>4, <1>5 DEF Types, TypeOK

-----------------------------------------------------------------------------
(* Types.                                                                  *)

\* The two parts of the state that a step rarely touches.
ReadyOK == ready \in {<<>>, <<"reader">>, <<"collector">>,
                      <<"reader", "collector">>, <<"collector", "reader">>}
QueueOK ==
    /\ queue \in {<<>>} \cup {<<t>> : t \in SUBSET Chunk}
    /\ queue \in Seq(SUBSET Chunk)

LEMMA InitTypes == Init => Types
<1> SUFFICES ASSUME Init PROVE Types OBVIOUS
<1> USE LoopAssumption
<1>1. <<Foreign, "body">> \in Piece BY DEF Piece, Foreign
<1>2. /\ <<>> \in Seq(Chunk) /\ <<>> \in Seq(Piece) /\ <<>> \in Seq(Requests)
      /\ <<>> \in Seq(Slot) /\ <<>> \in Seq(SUBSET Chunk)
  OBVIOUS
<1>3. ready \in {<<"reader", "collector">>, <<"collector", "reader">>} BY DEF Init
<1>4. running \in {"reader", "collector", None} BY DEF Init
<1>5. i \in 1..(ntraces + 1) /\ foreign \in 0..MaxForeign BY DEF Init
<1>6. {trigger, scEof, mmEof, timely} \subseteq BOOLEAN BY DEF Init
<1>7. dsets = <<>> /\ Len(dsets) = 0 /\ DOMAIN dsets = {} BY DEF Init
<1>8. chunks = <<>> /\ Len(chunks) = 0 BY DEF Init
<1>9. Len(dsets) <= ntraces /\ Len(chunks) <= Backlog BY <1>7, <1>8
<1> QED BY <1>1, <1>2, <1>3, <1>4, <1>5, <1>6, <1>7, <1>8, <1>9 DEF Init, Types, TypeOK

LEMMA ReadyTyped == ASSUME Types, NEW task \in {"reader", "collector"}, NEW cond,
                           WakeIf(task, cond) \/ Await
                    PROVE  ReadyOK'
<1>1. ReadyOK BY DEF Types, TypeOK, ReadyOK
<1>2. CASE Await BY <1>1, <1>2 DEF Await, ReadyOK
<1>3. CASE WakeIf(task, cond) BY <1>1, <1>3, Woken DEF ReadyOK
<1> QED BY <1>2, <1>3

\* What one read takes.
LEMMA Taking ==
    ASSUME Types, NEW n \in DOMAIN chunks
    PROVE  /\ SubSeq(chunks, n + 1, Len(chunks)) \in Seq(Chunk)
           /\ Len(SubSeq(chunks, n + 1, Len(chunks))) = Len(chunks) - n
           /\ \A k \in 1..(Len(chunks) - n) :
                 SubSeq(chunks, n + 1, Len(chunks))[k] = chunks[n + k]
           /\ n \in 1..Len(chunks) /\ Len(chunks) \in Nat
           /\ taken(n) \in SUBSET Chunk
<1>1. chunks \in Seq(Chunk) BY DEF Types, TypeOK
<1>2. n \in 1..Len(chunks) /\ Len(chunks) \in Nat BY <1>1
<1>3. \A k \in (n + 1)..Len(chunks) : chunks[k] \in Chunk BY <1>1, <1>2
<1>4. n + 1 \in Int /\ Len(chunks) \in Int BY <1>2
<1> DEFINE rest == SubSeq(chunks, n + 1, Len(chunks))
<1>5. /\ rest \in Seq(Chunk)
      /\ Len(rest) = IF n + 1 <= Len(chunks) THEN Len(chunks) - (n + 1) + 1 ELSE 0
      /\ \A k \in 1..(Len(chunks) - (n + 1) + 1) : rest[k] = chunks[n + 1 + k - 1]
  BY <1>3, <1>4, SubSeqProperties
<1> HIDE DEF rest
<1>6. Len(rest) = Len(chunks) - n BY <1>2, <1>5
<1>7. \A k \in 1..(Len(chunks) - n) : rest[k] = chunks[n + k]
  <2> TAKE k \in 1..(Len(chunks) - n)
  <2>1. k \in 1..(Len(chunks) - (n + 1) + 1) /\ n + 1 + k - 1 = n + k BY <1>2
  <2> QED BY <2>1, <1>5
<1>8. taken(n) \in SUBSET Chunk BY <1>1, <1>2 DEF taken
<1> QED BY <1>2, <1>5, <1>6, <1>7, <1>8 DEF rest

LEMMA ReadTyped ==
    ASSUME Types, NEW n \in DOMAIN chunks, Read(n)
    PROVE  chunks' \in Seq(Chunk) /\ Len(chunks') <= Backlog
<1>1. chunks' = SubSeq(chunks, n + 1, Len(chunks)) BY DEF Read
<1>2. chunks' \in Seq(Chunk) /\ Len(chunks') = Len(chunks) - n /\ n \in 1..Len(chunks)
      /\ Len(chunks) \in Nat
  BY <1>1, Taking
<1>3. Len(chunks) <= Backlog BY DEF Types, TypeOK
<1> QED BY <1>2, <1>3, LoopAssumption

LEMMA OneTrace ==
    ASSUME NEW t \in SUBSET Chunk, queue = <<>>, queue' = Append(queue, t)
    PROVE  QueueOK'
<1>1. queue' = <<t>> OBVIOUS
<1>2. <<t>> \in Seq(SUBSET Chunk) OBVIOUS
<1> QED BY <1>1, <1>2 DEF QueueOK, Chunk

LEMMA DiscardTypes == ASSUME Types, Discard PROVE Types'
<1>1. PICK n \in DOMAIN chunks : Read(n) BY DEF Discard
<1>2. chunks' \in Seq(Chunk) /\ Len(chunks') <= Backlog
  BY <1>1, ReadTyped
<1>3. readPc' \in {"discard", "record", "spin"} BY DEF Discard
<1>4. UNCHANGED <<running, ready, buf, queue, trigger, scEof, mmEof, timely, collPc, i,
                  response, inbox, coming, dsets, asked, foreign>>
  BY <1>1 DEF Discard, Read, collector, world
<1> QED BY <1>2, <1>3, <1>4 DEF Types, TypeOK, Chunk, Requests, Piece, Slot

LEMMA RecordTypes == ASSUME Types, Handover, Record PROVE Types'
<1>1. PICK n \in DOMAIN chunks :
         /\ Read(n)
         /\ buf' = IF trigger THEN buf \cup taken(n) ELSE {}
         /\ queue' = IF trigger THEN queue ELSE Append(queue, buf \cup taken(n))
  BY DEF Record
<1>2. chunks' \in Seq(Chunk) /\ Len(chunks') <= Backlog
  BY <1>1, ReadTyped
<1>3. readPc' \in {"discard", "record", "spin"} BY DEF Record
<1>4. UNCHANGED <<running, trigger, scEof, mmEof, timely, collPc, i,
                  response, inbox, coming, dsets, asked, foreign>>
  BY <1>1 DEF Read, collector, world
<1>5. buf \cup taken(n) \in SUBSET Chunk BY Taking DEF Types, TypeOK
<1>6. queue = <<>> BY DEF Handover, Record
<1>7. QueueOK'
  <2>1. CASE trigger BY <2>1, <1>1 DEF QueueOK, Types, TypeOK, Chunk
  <2>2. CASE ~trigger BY <2>2, <1>1, <1>5, <1>6, OneTrace
  <2> QED BY <2>1, <2>2
<1>8. ReadyOK' BY ReadyTyped DEF Record
<1>9. buf' \in SUBSET Chunk BY <1>1, <1>5
<1> QED BY <1>2, <1>3, <1>4, <1>7, <1>8, <1>9
        DEF Types, TypeOK, Chunk, Requests, Piece, Slot, ReadyOK, QueueOK

LEMMA ReaderSpinsTypes == ASSUME Types, Handover, ReaderSpins PROVE Types'
<1>1. UNCHANGED <<running, ready, chunks, buf, trigger, scEof, mmEof, timely, collPc, i,
                  response, inbox, coming, dsets, asked, foreign>>
  BY DEF ReaderSpins, collector, streams, world
<1>2. readPc' \in {"discard", "record", "spin"} BY DEF ReaderSpins
<1>3. QueueOK'
  <2>1. CASE readPc = "record" /\ ~trigger
    <3>1. queue = <<>> BY <2>1 DEF Handover
    <3> QED BY <2>1, <3>1, OneTrace DEF ReaderSpins, Types, TypeOK
  <2>2. CASE ~(readPc = "record" /\ ~trigger)
    <3>1. queue' = queue BY <2>2 DEF ReaderSpins
    <3> QED BY <3>1 DEF QueueOK, Types, TypeOK, Chunk
  <2> QED BY <2>1, <2>2
<1> QED BY <1>1, <1>2, <1>3 DEF Types, TypeOK, Chunk, Requests, Piece, Slot, QueueOK

LEMMA SendRequestTypes == ASSUME Types, SendRequest PROVE Types'
<1>1. i \in Requests BY DEF SendRequest, Requests, Types, TypeOK
<1>2. asked' \in Seq(Requests) BY <1>1 DEF SendRequest, Types, TypeOK
<1>3. UNCHANGED <<running, ready, readPc, buf, queue, chunks, scEof, mmEof, i,
                  response, inbox, coming, dsets, foreign>>
  BY DEF SendRequest, reader, streams
<1>4. trigger' \in BOOLEAN /\ timely' \in BOOLEAN
      /\ collPc' \in {"send", "header", "body", "get", "sleep", "done", "failed"}
  BY DEF SendRequest
<1>5. asked' \in Seq(Requests)' BY <1>2 DEF Requests
<1>6. {trigger, scEof, mmEof, timely}' \subseteq BOOLEAN
  BY <1>3, <1>4 DEF Types, TypeOK
<1> QED BY <1>5, <1>3, <1>4, <1>6 DEF Types, TypeOK, Chunk, Requests, Piece, Slot

\* A message's place in the stream the collector reads.
LEMMA InboxTyped ==
    ASSUME Types, inbox # <<>>
    PROVE  Head(inbox) \in Piece /\ Tail(inbox) \in Seq(Piece)
BY HeadTailProperties DEF Types, TypeOK

LEMMA ReadHeaderTypes == ASSUME Types, ReadHeader PROVE Types'
<1>1. inbox' \in Seq(Piece) BY InboxTyped DEF ReadHeader
<1>2. UNCHANGED <<running, ready, readPc, buf, queue, chunks, trigger, scEof, mmEof, timely, i,
                  response, coming, dsets, asked, foreign>>
  BY DEF ReadHeader, reader, world
<1>3. collPc' \in {"send", "header", "body", "get", "sleep", "done", "failed"}
  BY DEF ReadHeader
<1> QED BY <1>1, <1>2, <1>3 DEF Types, TypeOK, Chunk, Requests, Piece, Slot

LEMMA ReadBodyTypes == ASSUME Types, ReadBody PROVE Types'
<1>1. inbox' \in Seq(Piece) /\ response' \in Piece BY InboxTyped DEF ReadBody
<1>2. UNCHANGED <<running, ready, readPc, buf, queue, chunks, scEof, mmEof, timely, i,
                  coming, dsets, asked, foreign>>
  BY DEF ReadBody, reader, world
<1>3. collPc' \in {"send", "header", "body", "get", "sleep", "done", "failed"}
  BY DEF ReadBody
<1>4. {trigger, scEof, mmEof, timely}' \subseteq BOOLEAN
  <2>1. trigger' \in BOOLEAN BY DEF ReadBody
  <2> QED BY <2>1, <1>2 DEF Types, TypeOK
<1> QED BY <1>1, <1>2, <1>3, <1>4 DEF Types, TypeOK, Chunk, Requests, Piece, Slot

LEMMA StoreTraceTypes == ASSUME Types, Requested, StoreTrace PROVE Types'
<1>1. PICK t \in SUBSET Chunk : queue = <<t>> BY DEF StoreTrace, Types, TypeOK
<1>2. Head(queue) = t /\ Tail(queue) = <<>> BY <1>1
<1> DEFINE slot == [trace |-> t, output |-> response]
<1>3. slot \in Slot BY DEF Slot, Types, TypeOK
<1>4. dsets' = Append(dsets, slot) BY <1>2 DEF StoreTrace
<1> HIDE DEF slot
<1>5. dsets' \in Seq(Slot) /\ Len(dsets') = Len(dsets) + 1
  BY <1>3, <1>4, AppendProperties DEF Types
<1>6. Len(dsets') <= ntraces
  BY <1>5, LoopAssumption DEF Requested, StoreTrace, Types, TypeOK
<1>7. \A k \in DOMAIN dsets' : dsets'[k].trace \subseteq Chunk /\ dsets'[k].output \in Piece
  <2> TAKE k \in DOMAIN dsets'
  <2>1. dsets'[k] \in Slot BY <1>5
  <2> QED BY <2>1 DEF Slot
<1>8. QueueOK'
  <2>1. queue' = <<>> BY <1>2 DEF StoreTrace
  <2> QED BY <2>1 DEF QueueOK
<1>9. UNCHANGED <<ready, readPc, buf, chunks, trigger, scEof, mmEof, timely, i,
                  response, inbox, coming, asked, foreign>>
  BY DEF StoreTrace, streams, world, Await
<1>10. /\ collPc' \in {"send", "header", "body", "get", "sleep", "done", "failed"}
       /\ running' \in {"reader", "collector", None}
  BY DEF StoreTrace, Await
<1> QED BY <1>5, <1>6, <1>7, <1>8, <1>9, <1>10
        DEF Types, TypeOK, Chunk, Requests, Piece, Slot, QueueOK

LEMMA SleepOverTypes == ASSUME Types, Requested, SleepOver PROVE Types'
<1>1. i' \in 1..(ntraces + 1)
  BY LoopAssumption DEF SleepOver, Requested, Types, TypeOK
<1>2. ReadyOK' BY ReadyTyped DEF SleepOver
<1>3. collPc' \in {"send", "header", "body", "get", "sleep", "done", "failed"}
  BY DEF SleepOver
<1>4. UNCHANGED <<running, readPc, buf, queue, chunks, trigger, scEof, mmEof, timely,
                  response, inbox, coming, dsets, asked, foreign>>
  BY DEF SleepOver, reader, streams, world
<1> QED BY <1>1, <1>2, <1>3, <1>4
        DEF Types, TypeOK, Chunk, Requests, Piece, Slot, ReadyOK

LEMMA FeedChunkTypes == ASSUME Types, FeedChunk PROVE Types'
<1>1. Len(dsets) \in Chunk
  BY LoopAssumption DEF Types, TypeOK, Chunk
<1>2. chunks' \in Seq(Chunk) /\ Len(chunks') = Len(chunks) + 1
  BY <1>1, AppendProperties DEF FeedChunk, Types, TypeOK
<1>3. Len(chunks') <= Backlog
  BY <1>2, LoopAssumption DEF FeedChunk, Types, TypeOK
<1>4. ReadyOK' BY ReadyTyped DEF FeedChunk
<1>5. UNCHANGED <<running, readPc, buf, queue, trigger, scEof, mmEof, collPc, i,
                  response, inbox, coming, dsets, asked, foreign>>
  BY DEF FeedChunk, reader, collector, world
<1>6. timely' \in BOOLEAN BY DEF FeedChunk, Types, TypeOK
<1>7. {trigger, scEof, mmEof, timely}' \subseteq BOOLEAN
  BY <1>5, <1>6 DEF Types, TypeOK
<1> QED BY <1>2, <1>3, <1>4, <1>5, <1>7
        DEF Types, TypeOK, Chunk, Requests, Piece, Slot, ReadyOK

LEMMA HangUpTypes == ASSUME Types, ScHangUp \/ MmHangUp PROVE Types'
<1>1. ReadyOK' BY ReadyTyped DEF ScHangUp, MmHangUp
<1>2. UNCHANGED <<running, readPc, buf, queue, chunks, trigger, timely, collPc, i,
                  response, inbox, coming, dsets, asked, foreign>>
  BY DEF ScHangUp, MmHangUp, reader, collector, world
<1>3. {trigger, scEof, mmEof, timely}' \subseteq BOOLEAN
  <2>1. scEof' \in BOOLEAN /\ mmEof' \in BOOLEAN
    BY DEF ScHangUp, MmHangUp, Types, TypeOK
  <2> QED BY <2>1, <1>2 DEF Types, TypeOK
<1> QED BY <1>1, <1>2, <1>3 DEF Types, TypeOK, Chunk, Requests, Piece, Slot, ReadyOK

LEMMA FeedMessageTypes == ASSUME Types, FeedMessage PROVE Types'
<1>1. inbox' \in Seq(Piece) /\ coming' \in Seq(Piece)
  BY HeadTailProperties, AppendProperties DEF FeedMessage, Types, TypeOK
<1>2. ReadyOK' BY ReadyTyped DEF FeedMessage
<1>3. UNCHANGED <<running, readPc, buf, queue, chunks, trigger, scEof, mmEof, timely, collPc, i,
                  response, dsets, asked, foreign>>
  BY DEF FeedMessage, reader, collector
<1> QED BY <1>1, <1>2, <1>3 DEF Types, TypeOK, Chunk, Requests, Piece, Slot, ReadyOK

LEMMA MessagesTyped ==
    ASSUME NEW r \in Requests \cup {Foreign}
    PROVE  /\ Messages(r) \in Seq(Piece) /\ Len(Messages(r)) = 2
           /\ Messages(r)[1] = <<r, "header">> /\ Messages(r)[2] = <<r, "body">>
<1>1. <<r, "header">> \in Piece /\ <<r, "body">> \in Piece BY DEF Piece
<1> QED BY <1>1 DEF Messages

LEMMA AnswerTypes == ASSUME Types, Answer PROVE Types'
<1>1. Head(asked) \in Requests /\ asked' \in Seq(Requests)
  BY HeadTailProperties DEF Answer, Types, TypeOK
<1>2. coming' \in Seq(Piece)
  BY <1>1, MessagesTyped, ConcatProperties DEF Answer, Types, TypeOK
<1>3. UNCHANGED <<running, ready, readPc, buf, queue, chunks, trigger, scEof, mmEof, timely,
                  collPc, i, response, inbox, dsets, foreign>>
  BY DEF Answer, reader, collector, streams
<1> QED BY <1>1, <1>2, <1>3 DEF Types, TypeOK, Chunk, Requests, Piece, Slot

LEMMA ForeignMessageTypes == ASSUME Types, ForeignMessage PROVE Types'
<1>1. coming' \in Seq(Piece)
  BY MessagesTyped, ConcatProperties DEF ForeignMessage, Types, TypeOK
<1>2. foreign' \in 0..MaxForeign
  BY LoopAssumption DEF ForeignMessage, Types, TypeOK
<1>3. UNCHANGED <<running, ready, readPc, buf, queue, chunks, trigger, scEof, mmEof, timely,
                  collPc, i, response, inbox, dsets, asked>>
  BY DEF ForeignMessage, reader, collector, streams
<1> QED BY <1>1, <1>2, <1>3 DEF Types, TypeOK, Chunk, Requests, Piece, Slot

LEMMA RunTypes == ASSUME Types, Run PROVE Types'
<1>1. ReadyOK' /\ running' \in {"reader", "collector", None} BY FirstRuns DEF ReadyOK
<1>2. UNCHANGED <<readPc, buf, queue, chunks, trigger, scEof, mmEof, timely,
                  collPc, i, response, inbox, coming, dsets, asked, foreign>>
  BY DEF Run, reader, collector, streams, world
<1> QED BY <1>1, <1>2 DEF Types, TypeOK, Chunk, Requests, Piece, Slot, ReadyOK

LEMMA WaitsTypes == ASSUME Types, ReaderWaits \/ CollectorWaits PROVE Types'
<1>1. running' \in {"reader", "collector", None} /\ ready' = ready
  BY DEF ReaderWaits, CollectorWaits, Await
<1>2. UNCHANGED <<readPc, buf, queue, chunks, trigger, scEof, mmEof, timely,
                  collPc, i, response, inbox, coming, dsets, asked, foreign>>
  BY DEF ReaderWaits, CollectorWaits, reader, collector, streams, world
<1> QED BY <1>1, <1>2 DEF Types, TypeOK, Chunk, Requests, Piece, Slot

LEMMA CollectorEndsTypes == ASSUME Types, CollectorEnds PROVE Types'
<1>1. running' \in {"reader", "collector", None} /\ ReadyOK'
  BY DEF CollectorEnds, ReadyOK
<1>2. UNCHANGED <<readPc, buf, queue, chunks, trigger, scEof, mmEof, timely,
                  i, response, inbox, coming, dsets, asked, foreign>>
  BY DEF CollectorEnds, reader, streams, world
<1>3. collPc' \in {"send", "header", "body", "get", "sleep", "done", "failed"}
  BY DEF CollectorEnds
<1> QED BY <1>1, <1>2, <1>3 DEF Types, TypeOK, Chunk, Requests, Piece, Slot, ReadyOK

LEMMA TypesStep == ASSUME IInv, Next PROVE Types'
<1> USE DEF IInv
<1>1. CASE Run BY <1>1, RunTypes
<1>2. CASE ReadTrace
  BY <1>2, DiscardTypes, RecordTypes, WaitsTypes, ReaderSpinsTypes DEF ReadTrace
<1>3. CASE CollectTraces
  BY <1>3, SendRequestTypes, ReadHeaderTypes, ReadBodyTypes, StoreTraceTypes, WaitsTypes,
     CollectorEndsTypes DEF CollectTraces
<1>4. CASE SleepOver BY <1>4, SleepOverTypes
<1>5. CASE World
  BY <1>5, FeedChunkTypes, HangUpTypes, FeedMessageTypes, AnswerTypes, ForeignMessageTypes
     DEF World
<1> QED BY <1>1, <1>2, <1>3, <1>4, <1>5 DEF Next

-----------------------------------------------------------------------------
(* Turns.                                                                  *)

LEMMA InitTurns == Init => Turns
<1> SUFFICES ASSUME Init PROVE Turns OBVIOUS
<1>1. Types BY InitTypes
<1>2. ready = <<"collector", "reader">> BY DEF Init
<1> QED BY <1>1, <1>2, Line, Lines DEF Init, Turns, Stopped, None

LEMMA TurnsStep == ASSUME IInv, Next PROVE Turns'
<1> USE DEF IInv, None
<1> USE Lines
<1>0. Types' BY TypesStep
<1>1. CASE Run
  <2>1. UNCHANGED <<readPc, collPc, chunks, scEof>>
    BY <1>1 DEF Run, reader, collector, streams
  <2> QED BY <1>0, <1>1, <2>1, FirstRuns, Line, NextLine DEF Turns, Stopped, Run, Idle
<1>2. CASE Discard \/ Record
  <2>1. UNCHANGED <<running, collPc>> BY <1>2 DEF Discard, Record, Read, collector
  <2>2. running = "reader" BY <1>2 DEF Discard, Record, Goes
  <2>3. ready' \in {<<>>, <<"collector">>} /\ (ready' = ready \/ collPc = "get")
    <3>1. CASE Discard BY <2>2, <3>1 DEF Discard, Turns
    <3>2. CASE Record BY <2>2, <3>2, Woken DEF Record, Turns
    <3> QED BY <1>2, <3>1, <3>2
  <2>4. readPc' # "spin" BY <1>2 DEF Discard, Record
  <2> QED BY <1>0, <2>1, <2>2, <2>3, <2>4, Line, NextLine DEF Turns, Stopped
<1>3. CASE ReaderWaits
  <2>1. UNCHANGED <<readPc, collPc, chunks, ready>>
    BY <1>3 DEF ReaderWaits, reader, collector, streams, Await
  <2>2. running = "reader" /\ running' = None /\ chunks = <<>> /\ ~scEof
    BY <1>3 DEF ReaderWaits, Goes, Await
  <2> QED BY <1>0, <2>1, <2>2, Line, NextLine DEF Turns, Stopped
<1>4. CASE ReaderSpins
  <2>1. UNCHANGED <<collPc, chunks, running, ready, scEof>>
    BY <1>4 DEF ReaderSpins, collector, streams
  <2>2. running = "reader" /\ scEof BY <1>4 DEF ReaderSpins, Goes
  <2> QED BY <1>0, <2>1, <2>2, Line, NextLine DEF Turns, Stopped
<1>5. CASE SendRequest \/ ReadHeader \/ ReadBody
  <2>1. UNCHANGED <<readPc, chunks, scEof, running, ready>>
    BY <1>5 DEF SendRequest, ReadHeader, ReadBody, reader, streams
  <2>2. running = "collector" /\ collPc' \in {"header", "body", "get"} /\ ~Stopped
    BY <1>5 DEF SendRequest, ReadHeader, ReadBody, Goes, Stopped
  <2> QED BY <1>0, <2>1, <2>2, Line, NextLine DEF Turns, Stopped
<1>6. CASE StoreTrace \/ CollectorWaits
  <2>1. UNCHANGED <<readPc, chunks, scEof, ready>> /\ running' = None
    BY <1>6 DEF StoreTrace, CollectorWaits, reader, streams, Await
  <2>2. running = "collector" /\ collPc' \in {"header", "body", "get", "sleep"} /\ ~Stopped
    BY <1>6 DEF StoreTrace, CollectorWaits, collector, Goes, Stopped
  <2> QED BY <1>0, <2>1, <2>2, Line, NextLine DEF Turns, Stopped
<1>7. CASE CollectorEnds
  <2>1. UNCHANGED readPc /\ running' = None /\ ready' = <<>> /\ collPc' \in {"done", "failed"}
    BY <1>7 DEF CollectorEnds, reader
  <2>2. running = "collector" BY <1>7 DEF CollectorEnds, Goes
  <2> QED BY <1>0, <2>1, <2>2 DEF Turns, Stopped
<1>8. CASE SleepOver
  <2>1. UNCHANGED <<readPc, chunks, scEof, running>>
    BY <1>8 DEF SleepOver, reader, streams
  <2>2. running = None /\ collPc' = "send" /\ collPc = "sleep"
    BY <1>8 DEF SleepOver, Listening, Idle
  <2>3. Sleeping("collector") /\ WakeIf("collector", TRUE)
    BY <1>8, <2>2 DEF SleepOver, Turns
  <2>4. \/ ready = <<>> /\ ready' = <<"collector">>
        \/ ready = <<"reader">> /\ ready' = <<"reader", "collector">>
    BY <2>3, Woken
  <2> QED BY <1>0, <2>1, <2>2, <2>4, Line, NextLine DEF Turns, Stopped
<1>9. CASE FeedChunk \/ ScHangUp
  <2>1. UNCHANGED <<readPc, collPc, running>> BY <1>9 DEF FeedChunk, ScHangUp, reader, collector
  <2>2. running = None /\ ~Stopped /\ WakeIf("reader", TRUE)
    BY <1>9 DEF FeedChunk, ScHangUp, Listening, Idle, Stopped
  <2>3. readPc # "spin" BY <2>2 DEF Turns
  <2>4. ~Sleeping("reader")' /\ (Sleeping("collector")' <=> Sleeping("collector"))
    BY <1>0, <2>1, <2>2, Woken, Line, NextLine
  <2> QED BY <1>0, <2>1, <2>2, <2>3, <2>4 DEF Turns, Stopped
<1>10. CASE FeedMessage \/ MmHangUp
  <2>1. UNCHANGED <<readPc, collPc, running, chunks, scEof>>
    BY <1>10 DEF FeedMessage, MmHangUp, reader, collector
  <2>2. running = None /\ ~Stopped /\ WakeIf("collector", collPc \in {"header", "body"})
    BY <1>10 DEF FeedMessage, MmHangUp, Listening, Idle, Stopped
  <2>3. /\ Sleeping("reader")' <=> Sleeping("reader")
        /\ Sleeping("collector")' => Sleeping("collector")
        /\ collPc \notin {"header", "body"} => ready' = ready
    BY <1>0, <2>1, <2>2, Woken, Line, NextLine
  <2>4. collPc = "sleep" => Sleeping("collector")'
    BY <2>1, <2>3 DEF Turns, Sleeping
  <2> QED BY <1>0, <2>1, <2>2, <2>3, <2>4 DEF Turns, Stopped
<1>11. CASE Answer \/ ForeignMessage
  <2>1. UNCHANGED <<readPc, collPc, running, ready, chunks, scEof>>
    BY <1>11 DEF Answer, ForeignMessage, reader, collector, streams
  <2> QED BY <1>0, <2>1, Line, NextLine DEF Turns, Stopped
<1> QED BY <1>1, <1>2, <1>3, <1>4, <1>5, <1>6, <1>7, <1>8, <1>9, <1>10, <1>11
        DEF Next, ReadTrace, CollectTraces, World

-----------------------------------------------------------------------------
(* One trace per request, and the trigger.                                 *)

LEMMA InitControl == Init => Requested /\ Handover
<1> SUFFICES ASSUME Init PROVE Requested /\ Handover OBVIOUS
<1>1. Len(dsets) = 0 /\ queue = <<>> BY DEF Init
<1> QED BY <1>1 DEF Init, Requested, Handover

\* Storing a trace uses up the queue.
LEMMA Stores ==
    ASSUME Types, StoreTrace
    PROVE  /\ queue = <<Head(queue)>> /\ Head(queue) \in SUBSET Chunk /\ queue' = <<>>
           /\ dsets' = Append(dsets, [trace |-> Head(queue), output |-> response])
           /\ [trace |-> Head(queue), output |-> response] \in Slot
           /\ dsets' \in Seq(Slot) /\ Len(dsets) \in Nat /\ Len(dsets') = Len(dsets) + 1
           /\ \A k \in 1..Len(dsets) : dsets'[k] = dsets[k]
           /\ dsets'[Len(dsets')] = [trace |-> Head(queue), output |-> response]
<1>1. PICK t \in SUBSET Chunk : queue = <<t>> BY DEF StoreTrace, Types, TypeOK
<1>2. Head(queue) = t /\ Tail(queue) = <<>> /\ queue = <<Head(queue)>> BY <1>1
<1> DEFINE slot == [trace |-> Head(queue), output |-> response]
<1>3. slot \in Slot BY <1>2 DEF Slot, Types, TypeOK
<1>4. dsets' = Append(dsets, slot) BY DEF StoreTrace
<1> HIDE DEF slot
<1>5. dsets' \in Seq(Slot) /\ Len(dsets) \in Nat /\ Len(dsets') = Len(dsets) + 1
      /\ (\A k \in 1..Len(dsets) : dsets'[k] = dsets[k])
      /\ dsets'[Len(dsets')] = slot
  BY <1>3, <1>4, AppendProperties DEF Types
<1> QED BY <1>2, <1>3, <1>4, <1>5 DEF slot, StoreTrace

LEMMA ControlStep == ASSUME IInv, Next PROVE Requested' /\ Handover'
<1> USE DEF IInv
<1>0. Len(dsets) \in Nat /\ i \in Nat /\ ntraces \in Nat
  BY LoopAssumption DEF Types, TypeOK
<1>1. CASE Run \/ ReaderWaits \/ CollectorWaits \/ ScHangUp \/ MmHangUp \/ FeedChunk
           \/ FeedMessage \/ Answer \/ ForeignMessage
  <2>1. UNCHANGED <<readPc, queue, trigger, collPc, i, dsets>>
    BY <1>1 DEF Run, ReaderWaits, CollectorWaits, ScHangUp, MmHangUp, FeedChunk, FeedMessage,
                Answer, ForeignMessage, reader, collector
  <2> QED BY <2>1 DEF Requested, Handover
<1>2. CASE Discard \/ Record
  <2>1. UNCHANGED <<trigger, collPc, i, dsets>> BY <1>2 DEF Discard, Record, Read, collector
  <2>2. readPc' = IF trigger THEN "record" ELSE "discard" BY <1>2 DEF Discard, Record
  <2>3. CASE Discard
    <3>1. queue' = queue BY <2>3 DEF Discard
    <3> QED BY <2>1, <2>2, <3>1 DEF Requested, Handover
  <2>4. CASE Record
    <3>1. queue' = queue \/ ~trigger BY <2>4 DEF Record
    <3>2. queue = <<>> /\ readPc = "record" BY <2>4 DEF Record, Handover
    <3>3. ~trigger => collPc = "get" BY <3>2 DEF Handover
    <3> QED BY <2>1, <2>2, <3>1, <3>2, <3>3 DEF Requested, Handover
  <2> QED BY <1>2, <2>3, <2>4
<1>3. CASE ReaderSpins
  <2>1. UNCHANGED <<trigger, collPc, i, dsets>> /\ readPc' = "spin"
    BY <1>3 DEF ReaderSpins, collector
  <2>2. queue' = queue \/ (readPc = "record" /\ ~trigger) BY <1>3 DEF ReaderSpins
  <2> QED BY <2>1, <2>2 DEF Requested, Handover
<1>4. CASE SendRequest
  <2>1. UNCHANGED <<readPc, queue, i, dsets>> /\ trigger' = TRUE /\ collPc' = "header"
        /\ collPc = "send" /\ i <= ntraces
    BY <1>4 DEF SendRequest, reader
  <2> QED BY <2>1 DEF Requested, Handover
<1>5. CASE ReadHeader
  <2>1. UNCHANGED <<readPc, queue, i, dsets, trigger>> /\ collPc' = "body" /\ collPc = "header"
    BY <1>5 DEF ReadHeader, reader
  <2> QED BY <2>1 DEF Requested, Handover
<1>6. CASE ReadBody
  <2>1. UNCHANGED <<readPc, queue, i, dsets>> /\ trigger' = FALSE /\ collPc' = "get"
        /\ collPc = "body"
    BY <1>6 DEF ReadBody, reader
  <2> QED BY <2>1 DEF Requested, Handover
<1>7. CASE StoreTrace
  <2>1. UNCHANGED <<readPc, i, trigger>> /\ collPc' = "sleep" /\ collPc = "get" /\ queue # <<>>
    BY <1>7 DEF StoreTrace
  <2>2. queue' = <<>> /\ Len(dsets') = Len(dsets) + 1 BY <1>7, Stores
  <2> QED BY <1>0, <2>1, <2>2 DEF Requested, Handover
<1>8. CASE CollectorEnds
  <2>1. UNCHANGED <<readPc, queue, i, dsets, trigger>>
    BY <1>8 DEF CollectorEnds, reader
  <2>2. \/ collPc = "send" /\ i > ntraces /\ collPc' = "done"
        \/ collPc \in {"header", "body"} /\ collPc' = "failed"
    BY <1>8 DEF CollectorEnds
  <2>3. i <= ntraces + 1 BY DEF Types, TypeOK
  <2> QED BY <1>0, <2>1, <2>2, <2>3 DEF Requested, Handover
<1>9. CASE SleepOver
  <2>1. UNCHANGED <<readPc, queue, dsets, trigger>> /\ collPc' = "send" /\ collPc = "sleep"
        /\ i' = i + 1
    BY <1>9 DEF SleepOver, reader
  <2> QED BY <1>0, <2>1 DEF Requested, Handover
<1> QED BY <1>1, <1>2, <1>3, <1>4, <1>5, <1>6, <1>7, <1>8, <1>9
        DEF Next, ReadTrace, CollectTraces, World

-----------------------------------------------------------------------------
(* No chunk from before a trace gets into it.                              *)

LEMMA InitFresh == Init => Fresh /\ FreshTraces
<1> SUFFICES ASSUME Init PROVE Fresh /\ FreshTraces OBVIOUS
<1>1. DOMAIN chunks = {} /\ DOMAIN dsets = {} BY DEF Init
<1>2. readPc = "discard" /\ buf = {} /\ queue = <<>> BY DEF Init
<1> QED BY <1>1, <1>2 DEF Fresh, FreshTraces, Backlogged

\* While nothing is stored, a step that adds nothing old to the buffer leaves
\* no more backlog than there was.
LEMMA NoMoreBacklog ==
    ASSUME UNCHANGED <<chunks, dsets>>
    PROVE  Backlogged' <=> Backlogged
BY DEF Backlogged

LEMMA ReadBacklog ==
    ASSUME Types, NEW n \in DOMAIN chunks, Read(n)
    PROVE  /\ Backlogged' => Backlogged
           /\ ~Backlogged => taken(n) \subseteq {Len(dsets)}
<1>1. chunks' = SubSeq(chunks, n + 1, Len(chunks)) /\ dsets' = dsets BY DEF Read, collector
<1>2. chunks \in Seq(Chunk) BY DEF Types, TypeOK
<1>3. n \in 1..Len(chunks) /\ Len(chunks) \in Nat BY Taking
<1>4. DOMAIN chunks' = 1..(Len(chunks) - n) BY <1>1, <1>3, Taking
<1>5. Backlogged' => Backlogged
  <2> SUFFICES ASSUME Backlogged' PROVE Backlogged OBVIOUS
  <2>1. PICK k \in DOMAIN chunks' : chunks'[k] # Len(dsets) BY <1>1 DEF Backlogged
  <2>2. chunks'[k] = chunks[n + k] BY <1>1, <1>4, Taking
  <2>3. n + k \in DOMAIN chunks BY <1>2, <1>3, <1>4
  <2> QED BY <2>1, <2>2, <2>3 DEF Backlogged
<1>6. ~Backlogged => taken(n) \subseteq {Len(dsets)}
  BY <1>2, <1>3 DEF Backlogged, taken
<1> QED BY <1>5, <1>6

LEMMA FreshStep == ASSUME IInv, Next PROVE Fresh' /\ FreshTraces'
<1> USE DEF IInv, None
<1> USE Lines
<1>0. Len(dsets) \in Nat /\ Types' BY TypesStep DEF Types
<1>1. CASE Run
  <2>1. UNCHANGED <<readPc, buf, queue, collPc, dsets, chunks>>
    BY <1>1 DEF Run, reader, collector, streams
  <2>2. (Backlogged' <=> Backlogged) /\ running = None
    BY <1>1, <2>1, NoMoreBacklog DEF Run, Idle
  <2> QED BY <1>1, <2>1, <2>2, FirstRuns DEF Fresh, FreshTraces
<1>2. CASE Discard
  <2>1. PICK n \in DOMAIN chunks : Read(n) BY <1>2 DEF Discard
  <2>2. UNCHANGED <<running, ready, buf, queue, collPc, trigger, dsets>> /\ running = "reader"
    BY <1>2, <2>1 DEF Discard, Read, collector, Goes
  <2>3. Backlogged' => Backlogged BY <2>1, ReadBacklog
  <2>4. readPc = "discard" /\ readPc' = IF trigger THEN "record" ELSE "discard"
    BY <1>2 DEF Discard
  <2>5. Backlogged => ~trigger BY DEF Fresh, Handover
  <2> QED BY <2>2, <2>3, <2>4, <2>5 DEF Fresh, FreshTraces
<1>3. CASE Record
  <2>1. PICK n \in DOMAIN chunks :
           /\ Read(n)
           /\ buf' = IF trigger THEN buf \cup taken(n) ELSE {}
           /\ queue' = IF trigger THEN queue ELSE Append(queue, buf \cup taken(n))
    BY <1>3 DEF Record
  <2>2. UNCHANGED <<running, collPc, trigger, dsets>> /\ readPc = "record"
        /\ readPc' = IF trigger THEN "record" ELSE "discard"
    BY <1>3, <2>1 DEF Record, Read, collector
  <2>3. ~Backlogged /\ queue = <<>> BY <2>2 DEF Fresh, Handover
  <2>4. ~Backlogged' /\ taken(n) \subseteq {Len(dsets)} BY <2>1, <2>3, ReadBacklog
  <2>5. buf \cup taken(n) \subseteq {Len(dsets)} BY <2>4 DEF Fresh
  <2>6. queue' # <<>> => Head(queue') \subseteq {Len(dsets)}
    BY <2>1, <2>3, <2>5
  <2> QED BY <2>1, <2>2, <2>4, <2>5, <2>6 DEF Fresh, FreshTraces
<1>4. CASE ReaderWaits \/ ReaderSpins
  <2>1. UNCHANGED <<buf, chunks, dsets>> /\ chunks = <<>>
    BY <1>4 DEF ReaderWaits, ReaderSpins, reader, collector, streams
  <2>2. ~Backlogged' BY <2>1 DEF Backlogged
  <2>3. readPc' = readPc \/ readPc' = "spin" BY <1>4 DEF ReaderWaits, ReaderSpins, reader
  <2>4. queue' # <<>> => Head(queue') \subseteq {Len(dsets)}
    <3>1. CASE readPc = "record" /\ queue' = Append(queue, buf)
      <4>1. queue = <<>> BY <3>1 DEF Handover
      <4>2. Head(queue') = buf BY <3>1, <4>1
      <4> QED BY <4>2 DEF Fresh
    <3>2. CASE queue' = queue BY <3>2 DEF Fresh
    <3> QED BY <1>4, <3>1, <3>2 DEF ReaderWaits, ReaderSpins, reader
  <2> QED BY <2>1, <2>2, <2>3, <2>4 DEF Fresh, FreshTraces
<1>5. CASE SendRequest \/ ReadHeader \/ ReadBody \/ CollectorWaits \/ CollectorEnds
  <2>1. UNCHANGED <<readPc, buf, queue, chunks, dsets>> /\ running = "collector"
    BY <1>5 DEF SendRequest, ReadHeader, ReadBody, CollectorWaits, CollectorEnds, reader,
                collector, streams, Goes
  <2>2. ~Backlogged' BY <2>1, NoMoreBacklog DEF Fresh
  <2> QED BY <2>1, <2>2 DEF Fresh, FreshTraces
<1>6. CASE StoreTrace
  <2>1. UNCHANGED <<readPc, buf, chunks, ready>> /\ running = "collector" /\ running' = None
        /\ collPc' = "sleep" /\ queue # <<>>
    BY <1>6 DEF StoreTrace, streams, Await, Goes
  <2>2. readPc = "discard" /\ buf = {} BY <2>1 DEF Handover, Fresh, Turns, Types, TypeOK
  <2>3. Backlogged' => ready = <<"reader">>
    <3>1. Backlogged' => chunks # <<>> BY <2>1 DEF Backlogged
    <3>2. chunks # <<>> => ~Sleeping("reader") BY <2>1 DEF Turns, Stopped
    <3>3. ready \in {<<>>, <<"reader">>} BY <2>1 DEF Turns
    <3>4. ~Sleeping("reader") => ready # <<>> BY <2>1, Line
    <3> QED BY <3>1, <3>2, <3>3, <3>4
  <2>4. queue' = <<>> BY <1>6, Stores
  <2>5. FreshTraces'
    <3> SUFFICES ASSUME NEW k \in DOMAIN dsets'
                 PROVE  dsets'[k].trace \subseteq {k - 1}
      BY DEF FreshTraces
    <3>1. k \in 1..(Len(dsets) + 1) /\ Len(dsets') = Len(dsets) + 1 BY <1>6, Stores
    <3>2. CASE k \in 1..Len(dsets)
      <4>1. dsets'[k] = dsets[k] /\ k \in DOMAIN dsets BY <1>6, <3>2, Stores DEF Types
      <4> QED BY <4>1 DEF FreshTraces
    <3>3. CASE k = Len(dsets) + 1
      <4>1. dsets'[k].trace = Head(queue) BY <1>6, <3>1, <3>3, Stores
      <4>2. k - 1 = Len(dsets) BY <1>0, <3>3
      <4> QED BY <2>1, <4>1, <4>2 DEF Fresh
    <3> QED BY <1>0, <3>1, <3>2, <3>3
  <2> QED BY <2>1, <2>2, <2>3, <2>4, <2>5 DEF Fresh
<1>7. CASE SleepOver
  <2>1. UNCHANGED <<readPc, buf, queue, chunks, dsets, running>> /\ running = None
        /\ collPc' = "send" /\ collPc = "sleep"
    BY <1>7 DEF SleepOver, reader, streams, Listening, Idle
  <2>2. Backlogged' <=> Backlogged BY <2>1, NoMoreBacklog
  <2>3. ready = <<"reader">> => ready' = <<"reader", "collector">>
    BY <1>7, <2>1, Woken, Line DEF SleepOver, Turns
  <2>4. ready # <<"reader", "collector">> BY <2>1, Line DEF Turns
  <2> QED BY <2>1, <2>2, <2>3, <2>4 DEF Fresh, FreshTraces
<1>8. CASE FeedChunk
  <2>1. UNCHANGED <<readPc, buf, queue, collPc, dsets, running>> /\ running = None
    BY <1>8 DEF FeedChunk, reader, collector, Listening, Idle
  <2>2. Backlogged' => Backlogged
    <3>1. chunks' = Append(chunks, Len(dsets)) BY <1>8 DEF FeedChunk
    <3>2. chunks \in Seq(Chunk) BY DEF Types, TypeOK
    <3> QED BY <2>1, <3>1, <3>2 DEF Backlogged
  <2>3. ready \in {<<"reader">>, <<"reader", "collector">>} => ready' = ready
    BY <1>8, Woken DEF FeedChunk
  <2> QED BY <2>1, <2>2, <2>3 DEF Fresh, FreshTraces
<1>9. CASE ScHangUp \/ FeedMessage \/ MmHangUp \/ Answer \/ ForeignMessage
  <2>1. UNCHANGED <<readPc, buf, queue, collPc, dsets, running, chunks>> /\ running = None
    BY <1>9 DEF ScHangUp, FeedMessage, MmHangUp, Answer, ForeignMessage, reader, collector,
                streams, Listening, Idle
  <2>2. Backlogged' <=> Backlogged BY <2>1, NoMoreBacklog
  <2>3. /\ ready = <<"reader", "collector">> => ready' = ready
        /\ ready = <<"reader">> /\ collPc \notin {"header", "body"} => ready' = ready
    <3>1. CASE ScHangUp BY <3>1, Woken DEF ScHangUp
    <3>2. CASE FeedMessage \/ MmHangUp
      <4>1. WakeIf("collector", collPc \in {"header", "body"})
        BY <3>2 DEF FeedMessage, MmHangUp
      <4> QED BY <4>1, Woken
    <3>3. CASE Answer \/ ForeignMessage BY <3>3 DEF Answer, ForeignMessage
    <3> QED BY <1>9, <3>1, <3>2, <3>3
  <2> QED BY <2>1, <2>2, <2>3 DEF Fresh, FreshTraces
<1> QED BY <1>1, <1>2, <1>3, <1>4, <1>5, <1>6, <1>7, <1>8, <1>9
        DEF Next, ReadTrace, CollectTraces, World

-----------------------------------------------------------------------------
(* A chunk that came in time is noticed.                                   *)

LEMMA InitNoticed == Init => Noticed
BY DEF Init, Noticed

LEMMA NoticedStep == ASSUME IInv, Next PROVE Noticed'
<1> USE DEF IInv, None
<1> USE Lines
<1>1. CASE Run
  <2>1. UNCHANGED <<readPc, queue, collPc, chunks, timely>> /\ running = None
    BY <1>1 DEF Run, reader, collector, streams, Idle
  <2> QED BY <1>1, <2>1, FirstRuns DEF Noticed
<1>2. CASE Discard
  <2>1. UNCHANGED <<queue, collPc, timely, trigger>> /\ readPc = "discard"
        /\ readPc' = IF trigger THEN "record" ELSE "discard"
    BY <1>2 DEF Discard, Read, collector
  <2> QED BY <2>1 DEF Noticed, Handover
<1>3. CASE Record
  <2>1. UNCHANGED <<collPc, timely, trigger>> /\ readPc' = IF trigger THEN "record" ELSE "discard"
    BY <1>3 DEF Record, Read, collector
  <2>2. PICK n \in DOMAIN chunks :
           queue' = IF trigger THEN queue ELSE Append(queue, buf \cup taken(n))
    BY <1>3 DEF Record
  <2>3. ~trigger => queue' # <<>>
    <3>1. queue \in Seq(SUBSET Chunk) /\ buf \cup taken(n) \in SUBSET Chunk
      BY Taking DEF Types, TypeOK
    <3>2. Append(queue, buf \cup taken(n)) # <<>> BY <3>1, AppendProperties
    <3> QED BY <2>2, <3>2
  <2> QED BY <2>1, <2>3 DEF Noticed
<1>4. CASE ReaderWaits
  <2>1. UNCHANGED <<readPc, queue, collPc, timely>> /\ chunks = <<>>
    BY <1>4 DEF ReaderWaits, reader, collector
  <2> QED BY <2>1 DEF Noticed
<1>5. CASE ReaderSpins BY <1>5 DEF ReaderSpins, Noticed
<1>6. CASE SendRequest BY <1>6 DEF SendRequest, Noticed
<1>7. CASE ReadHeader \/ ReadBody \/ CollectorWaits
  <2>1. UNCHANGED <<readPc, queue, timely>> /\ running = "collector"
        /\ collPc \in {"header", "body", "get"}
    BY <1>7 DEF ReadHeader, ReadBody, CollectorWaits, reader, Goes
  <2> QED BY <2>1 DEF Noticed
<1>8. CASE StoreTrace \/ CollectorEnds \/ SleepOver
  <2>1. collPc' \in {"sleep", "done", "failed", "send"}
    BY <1>8 DEF StoreTrace, CollectorEnds, SleepOver
  <2> QED BY <2>1 DEF Noticed
<1>9. CASE FeedChunk
  <2>1. UNCHANGED <<readPc, queue, collPc, running>> /\ running = None
    BY <1>9 DEF FeedChunk, reader, collector, Listening, Idle
  <2>2. chunks' # <<>>
    <3>1. chunks \in Seq(Chunk) /\ Len(dsets) \in Chunk
      BY LoopAssumption DEF Types, TypeOK, Chunk
    <3>2. Append(chunks, Len(dsets)) # <<>> BY <3>1, AppendProperties
    <3> QED BY <1>9, <3>2 DEF FeedChunk
  <2>3. ready \in {<<"reader">>, <<"reader", "collector">>} => ready' = ready
    BY <1>9, Woken DEF FeedChunk
  <2>4. Sleeping("collector") => ready' = <<"reader">>
    BY <1>9, <2>1, Woken, Line DEF FeedChunk
  <2>5. timely' => timely \/ (collPc = "header" /\ Sleeping("collector"))
    BY <1>9 DEF FeedChunk
  <2> QED BY <2>1, <2>2, <2>3, <2>4, <2>5 DEF Noticed
<1>10. CASE ScHangUp \/ FeedMessage \/ MmHangUp \/ Answer \/ ForeignMessage
  <2>1. UNCHANGED <<readPc, queue, collPc, running, chunks, timely>> /\ running = None
    BY <1>10 DEF ScHangUp, FeedMessage, MmHangUp, Answer, ForeignMessage, reader, collector,
                 streams, world, Listening, Idle
  <2>2. ready \in {<<"reader">>, <<"reader", "collector">>}
          => ready' \in {<<"reader">>, <<"reader", "collector">>}
    <3>1. CASE ScHangUp BY <3>1, Woken DEF ScHangUp
    <3>2. CASE FeedMessage \/ MmHangUp
      <4>1. WakeIf("collector", collPc \in {"header", "body"})
        BY <3>2 DEF FeedMessage, MmHangUp
      <4> QED BY <4>1, Woken
    <3>3. CASE Answer \/ ForeignMessage BY <3>3 DEF Answer, ForeignMessage
    <3> QED BY <1>10, <3>1, <3>2, <3>3
  <2> QED BY <2>1, <2>2 DEF Noticed
<1> QED BY <1>1, <1>2, <1>3, <1>4, <1>5, <1>6, <1>7, <1>8, <1>9, <1>10
        DEF Next, ReadTrace, CollectTraces, World

-----------------------------------------------------------------------------
(* The stream of messages.                                                 *)

LEMMA AirTyped ==
    ASSUME Types
    PROVE  /\ Air \in Seq(Piece) /\ Len(Air) \in Nat /\ Len(Air) = Len(inbox) + Len(coming)
           /\ \A k \in 1..Len(Air) :
                 /\ Air[k] = IF k <= Len(inbox) THEN inbox[k] ELSE coming[k - Len(inbox)]
                 /\ Air[k] \in Piece
<1>1. inbox \in Seq(Piece) /\ coming \in Seq(Piece) BY DEF Types, TypeOK
<1>2. /\ Air \in Seq(Piece) /\ Len(Air) = Len(inbox) + Len(coming)
      /\ \A k \in 1..(Len(inbox) + Len(coming)) :
            Air[k] = IF k <= Len(inbox) THEN inbox[k] ELSE coming[k - Len(inbox)]
  BY <1>1, ConcatProperties DEF Air
<1>3. Len(Air) \in Nat BY <1>2
<1>4. \A k \in 1..Len(Air) : Air[k] \in Piece BY <1>2, <1>3, ElementOfSeq
<1> QED BY <1>2, <1>3, <1>4

LEMMA NextAir ==
    ASSUME Types'
    PROVE  /\ Air' \in Seq(Piece) /\ Len(Air') \in Nat /\ Len(Air') = Len(inbox') + Len(coming')
           /\ \A k \in 1..Len(Air') :
                 Air'[k] = IF k <= Len(inbox') THEN inbox'[k] ELSE coming'[k - Len(inbox')]
<1>1. inbox' \in Seq(Piece) /\ coming' \in Seq(Piece) BY DEF Types, TypeOK, Piece, Requests
<1>2. /\ Air' \in Seq(Piece) /\ Len(Air') = Len(inbox') + Len(coming')
      /\ \A k \in 1..(Len(inbox') + Len(coming')) :
            Air'[k] = IF k <= Len(inbox') THEN inbox'[k] ELSE coming'[k - Len(inbox')]
  BY <1>1, ConcatProperties DEF Air
<1> QED BY <1>2

\* What has come was the next to come.
LEMMA FeedingKeepsAir == ASSUME Types, Types', FeedMessage PROVE Air' = Air
<1>1. inbox \in Seq(Piece) /\ coming \in Seq(Piece) /\ coming # <<>>
  BY DEF Types, TypeOK, FeedMessage
<1>2. inbox' = Append(inbox, Head(coming)) /\ coming' = Tail(coming) BY DEF FeedMessage
<1>3. Head(coming) = coming[1] /\ Head(coming) \in Piece /\ Len(coming) \in Nat \ {0}
      /\ Len(Tail(coming)) = Len(coming) - 1 /\ Len(inbox) \in Nat
      /\ \A k \in 1..Len(Tail(coming)) : Tail(coming)[k] = coming[k + 1]
  BY <1>1, HeadTailProperties
<1>4. Len(inbox') = Len(inbox) + 1 /\ inbox'[Len(inbox) + 1] = coming[1]
      /\ \A k \in 1..Len(inbox) : inbox'[k] = inbox[k]
  BY <1>1, <1>2, <1>3, AppendProperties
<1>5. Len(Air') = Len(Air) BY <1>2, <1>3, <1>4, AirTyped, NextAir
<1>6. \A k \in 1..Len(Air) : Air'[k] = Air[k]
  <2> TAKE k \in 1..Len(Air)
  <2>1. k \in Nat /\ k <= Len(inbox) + Len(coming) /\ k >= 1 BY AirTyped
  <2>2. /\ Air'[k] = IF k <= Len(inbox) + 1 THEN inbox'[k] ELSE coming'[k - (Len(inbox) + 1)]
        /\ Air[k] = IF k <= Len(inbox) THEN inbox[k] ELSE coming[k - Len(inbox)]
    BY <1>4, <1>5, AirTyped, NextAir
  <2>3. CASE k <= Len(inbox) BY <1>3, <1>4, <2>1, <2>2, <2>3
  <2>4. CASE k = Len(inbox) + 1
    <3>1. k - Len(inbox) = 1 /\ ~(k <= Len(inbox)) BY <1>3, <2>4
    <3> QED BY <1>3, <1>4, <2>2, <2>4, <3>1
  <2>5. CASE k > Len(inbox) + 1
    <3> DEFINE m == k - (Len(inbox) + 1)
    <3>1. m \in 1..Len(Tail(coming)) /\ m + 1 = k - Len(inbox)
      BY <1>3, <2>1, <2>5
    <3>2. coming'[m] = coming[m + 1] BY <1>2, <1>3, <3>1
    <3>3. ~(k <= Len(inbox) + 1) /\ ~(k <= Len(inbox)) BY <1>3, <2>1, <2>5
    <3> QED BY <2>2, <3>1, <3>2, <3>3
  <2> QED BY <1>3, <2>1, <2>3, <2>4, <2>5
<1> QED BY <1>5, <1>6, AirTyped, NextAir, SeqEqual

\* The collector reads the next piece.
LEMMA ReadingTakesFirst ==
    ASSUME Types, Types', inbox # <<>>, inbox' = Tail(inbox), coming' = coming
    PROVE  /\ Len(Air) >= 1 /\ Len(Air') = Len(Air) - 1 /\ Air[1] = Head(inbox)
           /\ \A k \in 1..Len(Air') : Air'[k] = Air[k + 1]
<1>1. inbox \in Seq(Piece) BY DEF Types, TypeOK
<1>2. Head(inbox) = inbox[1] /\ Len(inbox) \in Nat \ {0} /\ Len(inbox') = Len(inbox) - 1
      /\ \A k \in 1..Len(inbox') : inbox'[k] = inbox[k + 1]
  BY <1>1, HeadTailProperties
<1>3. Len(coming) \in Nat /\ Len(Air) = Len(inbox) + Len(coming)
      /\ Len(Air') = Len(inbox') + Len(coming)
  <2>1. coming \in Seq(Piece) BY DEF Types, TypeOK
  <2>2. Len(coming) \in Nat BY <2>1
  <2> QED BY <2>2, AirTyped, NextAir
<1>4. Len(Air) >= 1 /\ Len(Air') = Len(Air) - 1 BY <1>2, <1>3
<1>5. Air[1] = Head(inbox) BY <1>2, <1>3, <1>4, AirTyped
<1>6. \A k \in 1..Len(Air') : Air'[k] = Air[k + 1]
  <2> TAKE k \in 1..Len(Air')
  <2>1. k \in Nat /\ k >= 1 /\ k + 1 \in 1..Len(Air) BY <1>2, <1>3, <1>4
  <2>2. /\ Air'[k] = IF k <= Len(inbox') THEN inbox'[k] ELSE coming'[k - Len(inbox')]
        /\ Air[k + 1] = IF k + 1 <= Len(inbox) THEN inbox[k + 1] ELSE coming[k + 1 - Len(inbox)]
    BY <2>1, AirTyped, NextAir
  <2>3. CASE k <= Len(inbox')
    <3>1. k + 1 <= Len(inbox) /\ inbox'[k] = inbox[k + 1] BY <1>2, <2>1, <2>3
    <3> QED BY <2>2, <2>3, <3>1
  <2>4. CASE ~(k <= Len(inbox'))
    <3>1. ~(k + 1 <= Len(inbox)) /\ k - Len(inbox') = k + 1 - Len(inbox)
      BY <1>2, <2>1, <2>4
    <3> QED BY <2>2, <2>4, <3>1
  <2> QED BY <2>3, <2>4
<1> QED BY <1>4, <1>5, <1>6

\* A message is on its way.
LEMMA SendingAddsTwo ==
    ASSUME Types, Types', NEW r \in Requests \cup {Foreign},
           inbox' = inbox, coming' = coming \o Messages(r)
    PROVE  /\ Len(Air') = Len(Air) + 2
           /\ Air'[Len(Air) + 1] = <<r, "header">> /\ Air'[Len(Air) + 2] = <<r, "body">>
           /\ \A k \in 1..Len(Air) : Air'[k] = Air[k]
<1>1. inbox \in Seq(Piece) /\ coming \in Seq(Piece) BY DEF Types, TypeOK
<1>2. Len(coming') = Len(coming) + 2 /\ Len(coming) \in Nat /\ Len(inbox) \in Nat
      /\ \A k \in 1..(Len(coming) + 2) :
            coming'[k] = IF k <= Len(coming) THEN coming[k] ELSE Messages(r)[k - Len(coming)]
  <2>1. Messages(r) \in Seq(Piece) /\ Len(Messages(r)) = 2 BY MessagesTyped
  <2> HIDE DEF Messages
  <2>2. /\ Len(coming') = Len(coming) + Len(Messages(r))
        /\ \A k \in 1..(Len(coming) + Len(Messages(r))) :
              coming'[k] = IF k <= Len(coming) THEN coming[k] ELSE Messages(r)[k - Len(coming)]
    BY <1>1, <2>1, ConcatProperties
  <2>3. Len(coming) \in Nat /\ Len(inbox) \in Nat BY <1>1
  <2> QED BY <2>1, <2>2, <2>3
<1>3. Len(Air') = Len(Air) + 2 /\ Len(Air) = Len(inbox) + Len(coming)
  BY <1>2, AirTyped, NextAir
<1>4. \A k \in 1..Len(Air') :
          Air'[k] = IF k <= Len(inbox) THEN inbox[k] ELSE coming'[k - Len(inbox)]
  BY NextAir
<1>5. Air'[Len(Air) + 1] = <<r, "header">>
  <2>1. Len(Air) + 1 \in 1..Len(Air') /\ ~(Len(Air) + 1 <= Len(inbox))
        /\ Len(Air) + 1 - Len(inbox) = Len(coming) + 1
    BY <1>2, <1>3
  <2>2. coming'[Len(coming) + 1] = Messages(r)[1]
    <3>1. Len(coming) + 1 \in 1..(Len(coming) + 2) /\ ~(Len(coming) + 1 <= Len(coming))
          /\ Len(coming) + 1 - Len(coming) = 1
      BY <1>2
    <3> QED BY <1>2, <3>1
  <2> QED BY <1>4, <2>1, <2>2, MessagesTyped
<1>6. Air'[Len(Air) + 2] = <<r, "body">>
  <2>1. Len(Air) + 2 \in 1..Len(Air') /\ ~(Len(Air) + 2 <= Len(inbox))
        /\ Len(Air) + 2 - Len(inbox) = Len(coming) + 2
    BY <1>2, <1>3
  <2>2. coming'[Len(coming) + 2] = Messages(r)[2]
    <3>1. Len(coming) + 2 \in 1..(Len(coming) + 2) /\ ~(Len(coming) + 2 <= Len(coming))
          /\ Len(coming) + 2 - Len(coming) = 2
      BY <1>2
    <3> QED BY <1>2, <3>1
  <2> QED BY <1>4, <2>1, <2>2, MessagesTyped
<1>7. \A k \in 1..Len(Air) : Air'[k] = Air[k]
  <2> TAKE k \in 1..Len(Air)
  <2>1. k \in 1..Len(Air') /\ k \in Nat BY <1>2, <1>3
  <2>2. CASE k <= Len(inbox) BY <1>4, <2>1, <2>2, AirTyped
  <2>3. CASE ~(k <= Len(inbox))
    <3>1. k - Len(inbox) \in 1..(Len(coming) + 2) /\ k - Len(inbox) <= Len(coming)
      BY <1>2, <1>3, <2>1, <2>3
    <3>2. coming'[k - Len(inbox)] = coming[k - Len(inbox)] BY <1>2, <3>1
    <3> QED BY <1>4, <2>1, <2>3, <3>2, AirTyped
  <2> QED BY <2>2, <2>3
<1> QED BY <1>3, <1>5, <1>6, <1>7

-----------------------------------------------------------------------------
(* Headers and bodies by turns, answers in order.                          *)

Stream == Framed /\ Answers /\ OutputsShift

LEMMA InitStream == Init => Stream
<1> SUFFICES ASSUME Init PROVE Stream OBVIOUS
<1>1. Air = <<>> /\ Len(Air) = 0 BY DEF Init, Air
<1>2. Len(dsets) = 0 /\ DOMAIN dsets = {} /\ Len(asked) = 0 BY DEF Init
<1>3. Framed BY <1>1 DEF Framed, Init
<1>4. Strays(Len(dsets)) = {} BY <1>2 DEF Strays
<1>5. Taken = 0 BY <1>2, <1>4, FS_EmptySet DEF Taken, Stored, Init
<1>6. InOrder([k \in 0..Len(Air) |-> 0])
  <2>1. collPc = "send" /\ i = 1 BY DEF Init
  <2> QED BY <1>1, <1>2, <1>5, <2>1 DEF InOrder
<1>7. [k \in 0..Len(Air) |-> 0] \in [0..Len(Air) -> Int] OBVIOUS
<1>8. Answers BY <1>6, <1>7 DEF Answers, Init
<1>9. OutputsShift BY <1>2 DEF OutputsShift
<1> QED BY <1>3, <1>8, <1>9 DEF Stream

LEMMA SameStream ==
    ASSUME Stream, Air' = Air, UNCHANGED <<collPc, dsets, response, asked, i>>
    PROVE  Stream'
<1>1. Framed' BY DEF Stream, Framed, Stopped
<1>2. OutputsShift' BY DEF Stream, OutputsShift
<1>3. Stored' = Stored /\ Taken' = Taken BY DEF Stored, Taken, Strays
<1>4. \A count : InOrder(count) => InOrder(count)' BY <1>3 DEF InOrder
<1>5. Answers' BY <1>3, <1>4 DEF Stream, Answers, Stopped
<1> QED BY <1>1, <1>2, <1>5 DEF Stream

\* How many outputs were answers.
LEMMA StoredTyped ==
    ASSUME Types
    PROVE  /\ \A k \in 0..Len(dsets) : IsFiniteSet(Strays(k)) /\ Cardinality(Strays(k)) \in Nat
           /\ Stored \in Int /\ Taken \in Int /\ Len(dsets) \in Nat
<1>1. Len(dsets) \in Nat BY DEF Types
<1>2. ASSUME NEW k \in 0..Len(dsets)
      PROVE  IsFiniteSet(Strays(k)) /\ Cardinality(Strays(k)) \in Nat
  <2>1. IsFiniteSet(1..k) BY <1>1, FS_Interval
  <2>2. Strays(k) \subseteq 1..k BY DEF Strays
  <2> QED BY <2>1, <2>2, FS_Subset, FS_CardinalityType
<1>3. Cardinality(Strays(Len(dsets))) \in Nat BY <1>1, <1>2
<1>4. Stored \in Int BY <1>1, <1>3 DEF Stored
<1>5. Taken \in Int BY <1>4 DEF Taken
<1> QED BY <1>1, <1>2, <1>4, <1>5

LEMMA SendRequestStream ==
    ASSUME Types, Types', Stream, SendRequest
    PROVE  Stream'
<1>1. UNCHANGED <<inbox, coming, dsets, response, i>> /\ asked' = Append(asked, i)
      /\ collPc = "send" /\ collPc' = "header"
  BY DEF SendRequest, streams
<1>2. Air' = Air BY <1>1 DEF Air
<1>3. Framed' BY <1>1, <1>2 DEF Stream, Framed, Stopped
<1>4. OutputsShift' BY <1>1 DEF Stream, OutputsShift
<1>5. Taken' = Taken BY <1>1 DEF Taken, Stored, Strays
<1>6. PICK count \in [0..Len(Air) -> Int] : InOrder(count)
  BY <1>1 DEF Stream, Answers, Stopped
<1>7. Len(asked) \in Nat /\ Len(asked') = Len(asked) + 1 /\ asked'[Len(asked) + 1] = i
      /\ (\A k \in 1..Len(asked) : asked'[k] = asked[k]) /\ i \in Int
  <2>1. asked \in Seq(Requests) /\ i \in Int BY DEF Types, TypeOK
  <2>2. i \in Requests BY DEF SendRequest, Requests, Types, TypeOK
  <2> QED BY <1>1, <2>1, <2>2, AppendProperties
<1>8. Len(Air) \in Nat /\ count[Len(Air)] \in Int BY AirTyped
<1>9. InOrder(count)'
  <2>1. count[Len(Air)] + Len(asked) = i - 1 BY <1>1, <1>6 DEF InOrder
  <2>2. \A k \in 1..Len(asked') : asked'[k] = count[Len(Air)] + k
    <3> TAKE k \in 1..Len(asked')
    <3>1. CASE k \in 1..Len(asked) BY <1>6, <1>7, <3>1 DEF InOrder
    <3>2. CASE k = Len(asked) + 1 BY <1>7, <1>8, <2>1, <3>2
    <3> QED BY <1>7, <3>1, <3>2
  <2>3. count[Len(Air)] + Len(asked') = i BY <1>7, <1>8, <2>1
  <2> QED BY <1>1, <1>2, <1>5, <1>6, <2>2, <2>3 DEF InOrder
<1>10. Answers' BY <1>1, <1>2, <1>6, <1>9 DEF Answers
<1> QED BY <1>3, <1>4, <1>10 DEF Stream

LEMMA SleepOverStream ==
    ASSUME Types, Stream, SleepOver
    PROVE  Stream'
<1>1. UNCHANGED <<inbox, coming, dsets, response, asked>> /\ i' = i + 1
      /\ collPc = "sleep" /\ collPc' = "send"
  BY DEF SleepOver, streams, world
<1>2. Air' = Air BY <1>1 DEF Air
<1>3. Framed' BY <1>1, <1>2 DEF Stream, Framed, Stopped
<1>4. OutputsShift' BY <1>1 DEF Stream, OutputsShift
<1>5. Taken' = Taken BY <1>1 DEF Taken, Stored, Strays
<1>6. PICK count \in [0..Len(Air) -> Int] : InOrder(count)
  BY <1>1 DEF Stream, Answers, Stopped
<1>7. i' - 1 = i BY <1>1 DEF Types, TypeOK
<1>8. InOrder(count)' BY <1>1, <1>2, <1>5, <1>6, <1>7 DEF InOrder
<1>9. Answers' BY <1>1, <1>2, <1>6, <1>8 DEF Answers
<1> QED BY <1>3, <1>4, <1>9 DEF Stream

LEMMA CollectorEndsStream == ASSUME Stream, CollectorEnds PROVE Stream'
<1>1. dsets' = dsets /\ collPc' \in {"done", "failed"} BY DEF CollectorEnds
<1> QED BY <1>1 DEF Stream, Framed, Answers, OutputsShift, Stopped

LEMMA StoreTraceStream ==
    ASSUME Types, Types', Stream, StoreTrace
    PROVE  Stream'
<1>0. PICK l \in Nat : l = Len(dsets) BY Stores
<1>1. UNCHANGED <<inbox, coming, response, asked, i>> /\ collPc = "get" /\ collPc' = "sleep"
  BY DEF StoreTrace, streams, world
<1>2. Air' = Air BY <1>1 DEF Air
<1>3. Framed' BY <1>1, <1>2 DEF Stream, Framed, Stopped
<1>4. l \in Nat /\ Len(dsets') = l + 1 /\ dsets'[l + 1].output = response
      /\ \A k \in 1..l : dsets'[k] = dsets[k]
  BY <1>0, Stores
<1>5. \A k \in 0..l : Strays(k)' = Strays(k) BY <1>4 DEF Strays
<1>6. l = Len(dsets) BY <1>0
<1>7. IsFiniteSet(Strays(l)) /\ Cardinality(Strays(l)) \in Nat
  BY <1>4, <1>6, StoredTyped
<1>8. Stored = l - Cardinality(Strays(l)) BY <1>6 DEF Stored
<1>9. Stored' = Len(dsets') - Cardinality(Strays(l + 1)')
  <2>1. PICK c : c = Cardinality({j \in 1..(l + 1) : dsets'[j].output[1] = Foreign}) OBVIOUS
  <2>2. Stored' = Len(dsets') - c BY <1>4, <2>1 DEF Stored, Strays
  <2>3. Cardinality(Strays(l + 1)') = c BY <2>1 DEF Strays
  <2> QED BY <2>2, <2>3
<1>10. response \in {<<Foreign, "body">>, <<Stored + 1, "body">>}
  BY <1>1 DEF Stream, Answers
<1>11. response[1] # Foreign => response = <<Stored + 1, "body">> BY <1>10
<1>12. Strays(l + 1)' = IF response[1] = Foreign THEN Strays(l) \cup {l + 1} ELSE Strays(l)
  BY <1>4 DEF Strays
<1>13. l + 1 \notin Strays(l) BY <1>4 DEF Strays
<1>14. Cardinality(Strays(l + 1)') = Cardinality(Strays(l)) + IF response[1] = Foreign THEN 1 ELSE 0
  BY <1>7, <1>12, <1>13, FS_AddElement
<1>15. Stored' = Taken
  <2>1. Taken = IF response[1] # Foreign THEN Stored + 1 ELSE Stored BY <1>1 DEF Taken
  <2> QED BY <1>4, <1>7, <1>8, <1>9, <1>14, <2>1
<1>16. Taken' = Taken BY <1>1, <1>15 DEF Taken
<1>17. OutputsShift'
  <2> SUFFICES ASSUME NEW k \in 1..(l + 1)
               PROVE  dsets'[k].output \in {<<Foreign, "body">>,
                                            <<k - Cardinality(Strays(k)'), "body">>}
    <3>1. DOMAIN dsets' = 1..(l + 1) BY <1>4, Stores
    <3> QED BY <3>1 DEF OutputsShift, Strays
  <2>1. CASE k \in 1..l
    <3>1. dsets'[k] = dsets[k] /\ Strays(k)' = Strays(k) BY <1>4, <1>5, <2>1
    <3>2. k \in DOMAIN dsets BY <1>6, <2>1 DEF Types
    <3> QED BY <3>1, <3>2 DEF Stream, OutputsShift, Strays
  <2>2. CASE k = l + 1
    <3>1. CASE response[1] = Foreign
      <4>1. response = <<Foreign, "body">>
        <5>1. CASE response = <<Stored + 1, "body">> BY <3>1, <5>1
        <5> QED BY <1>10, <5>1
      <4> QED BY <1>4, <2>2, <4>1
    <3>2. CASE response[1] # Foreign
      <4>1. k - Cardinality(Strays(k)') = Stored + 1
        <5>1. Cardinality(Strays(k)') = Cardinality(Strays(l)) BY <1>7, <1>14, <2>2, <3>2
        <5> QED BY <1>4, <1>7, <1>8, <2>2, <5>1
      <4> QED BY <1>4, <1>11, <2>2, <3>2, <4>1
    <3> QED BY <3>1, <3>2
  <2> QED BY <1>4, <2>1, <2>2
<1>18. PICK count \in [0..Len(Air) -> Int] : InOrder(count)
  BY <1>1 DEF Stream, Answers, Stopped
<1>19. InOrder(count)' BY <1>1, <1>2, <1>16, <1>18 DEF InOrder
<1>20. Answers' BY <1>1, <1>2, <1>18, <1>19 DEF Answers
<1> QED BY <1>3, <1>17, <1>20 DEF Stream

\* The pieces up to the first one read, as they are counted afterwards.
LEMMA Shifted ==
    ASSUME Types, Types', inbox # <<>>, inbox' = Tail(inbox), UNCHANGED <<coming, asked, i>>,
           NEW count \in [0..Len(Air) -> Int], InOrder(count), Taken' = count[1],
           collPc \in {"header", "body"}, collPc' \in {"body", "get"}
    PROVE  (\E later \in [0..Len(Air) -> Int] : InOrder(later))'
<1>0. PICK later : later = [k \in 0..Len(Air') |-> count[k + 1]] OBVIOUS
<1>1. /\ Len(Air) \in Nat /\ Len(Air) >= 1 /\ Len(Air') = Len(Air) - 1
      /\ \A k \in 1..Len(Air') : Air'[k] = Air[k + 1]
  BY ReadingTakesFirst, AirTyped
<1>2. \A k \in 0..Len(Air') : k + 1 \in 0..Len(Air) /\ count[k + 1] \in Int BY <1>1
<1>3. later \in [0..Len(Air') -> Int] BY <1>0, <1>2
<1>4. later[0] = Taken' BY <1>0, <1>1
<1>5. ASSUME NEW k \in 1..Len(Air')
      PROVE  /\ later[k] = IF IsAnswerBody(Air'[k]) THEN later[k - 1] + 1 ELSE later[k - 1]
             /\ IsAnswerBody(Air'[k]) => Air'[k][1] = later[k]
  <2>1. k + 1 \in 1..Len(Air) /\ k \in 0..Len(Air') /\ k - 1 \in 0..Len(Air')
        /\ (k + 1) - 1 = k /\ (k - 1) + 1 = k
    BY <1>1
  <2>2. Air'[k] = Air[k + 1] /\ later[k] = count[k + 1] /\ later[k - 1] = count[k]
    BY <1>0, <1>1, <2>1
  <2>3. /\ count[k + 1] = IF IsAnswerBody(Air[k + 1]) THEN count[k] + 1 ELSE count[k]
        /\ IsAnswerBody(Air[k + 1]) => Air[k + 1][1] = count[k + 1]
    BY <2>1 DEF InOrder
  <2> QED BY <2>2, <2>3
<1>6. later[Len(Air')] = count[Len(Air)] BY <1>0, <1>1
<1>7. \A k \in 1..Len(asked) : asked[k] = later[Len(Air')] + k BY <1>6 DEF InOrder
<1>8. later[Len(Air')] + Len(asked) = i BY <1>6 DEF InOrder
<1>9. InOrder(later)' BY <1>4, <1>5, <1>7, <1>8 DEF InOrder, IsAnswerBody
<1> QED BY <1>3, <1>9

\* A header is read: the body is what comes next.
LEMMA ReadHeaderStream ==
    ASSUME Types, Types', Stream, ReadHeader
    PROVE  Stream'
<1>1. UNCHANGED <<coming, asked, i, dsets, response>> /\ inbox # <<>> /\ inbox' = Tail(inbox)
      /\ collPc = "header" /\ collPc' = "body"
  BY DEF ReadHeader, world
<1>2. /\ Len(Air) \in Nat /\ Len(Air) >= 1 /\ Len(Air') = Len(Air) - 1
      /\ \A k \in 1..Len(Air') : Air'[k] = Air[k + 1]
  BY <1>1, ReadingTakesFirst, AirTyped
<1>3. /\ Air[1][2] = "header" /\ Air[Len(Air)][2] = "body"
      /\ \A k \in 1..(Len(Air) - 1) : Air[k + 1][2] # Air[k][2]
  <2>1. Air # <<>> BY <1>2
  <2> QED BY <1>1, <2>1 DEF Stream, Framed, Stopped
<1>4. Len(Air) # 1 BY <1>3
<1>5. Framed'
  <2>1. Len(Air') \in Nat /\ Len(Air') >= 1 /\ Air' # <<>> BY <1>2, <1>4
  <2>2. Air'[1][2] = "body"
    <3>1. Air[2][2] # Air[1][2] /\ Air[2] \in Piece BY <1>2, <1>3, <1>4, AirTyped
    <3>2. Air'[1] = Air[2] BY <1>2, <2>1
    <3> QED BY <1>3, <3>1, <3>2 DEF Piece
  <2>3. Air'[Len(Air')][2] = "body"
    <3>1. Air'[Len(Air')] = Air[Len(Air)] BY <1>2, <2>1
    <3> QED BY <1>3, <3>1
  <2>4. \A k \in 1..(Len(Air') - 1) : Air'[k + 1][2] # Air'[k][2]
    <3> TAKE k \in 1..(Len(Air') - 1)
    <3>1. k \in 1..Len(Air') /\ k + 1 \in 1..Len(Air') /\ k + 1 \in 1..(Len(Air) - 1)
      BY <1>2, <2>1
    <3> QED BY <1>2, <1>3, <3>1
  <2> QED BY <1>1, <2>1, <2>2, <2>3, <2>4 DEF Framed
<1>6. OutputsShift' BY <1>1 DEF Stream, OutputsShift
<1>7. PICK count \in [0..Len(Air) -> Int] : InOrder(count)
  BY <1>1 DEF Stream, Answers, Stopped
<1>8. Taken' = count[1]
  <2>1. count[1] = count[0]
    <3>1. 1 \in 1..Len(Air) /\ ~IsAnswerBody(Air[1]) BY <1>2, <1>3 DEF IsAnswerBody
    <3> QED BY <1>7, <3>1 DEF InOrder
  <2>2. Taken' = Taken BY <1>1 DEF Taken, Stored, Strays
  <2> QED BY <1>7, <2>1, <2>2 DEF InOrder
<1>9. Answers' BY <1>1, <1>7, <1>8, Shifted DEF Answers
<1> QED BY <1>5, <1>6, <1>9 DEF Stream

\* A body is read: it is the next answer, or no answer.
LEMMA ReadBodyStream ==
    ASSUME Types, Types', Stream, ReadBody
    PROVE  Stream'
<1>1. UNCHANGED <<coming, asked, i, dsets>> /\ inbox # <<>> /\ inbox' = Tail(inbox)
      /\ response' = Head(inbox) /\ collPc = "body" /\ collPc' = "get"
  BY DEF ReadBody, world
<1>2. /\ Len(Air) \in Nat /\ Len(Air) >= 1 /\ Len(Air') = Len(Air) - 1 /\ response' = Air[1]
      /\ \A k \in 1..Len(Air') : Air'[k] = Air[k + 1]
  BY <1>1, ReadingTakesFirst, AirTyped
<1>3. /\ Air[1][2] = "body" /\ Air[Len(Air)][2] = "body"
      /\ \A k \in 1..(Len(Air) - 1) : Air[k + 1][2] # Air[k][2]
  <2>1. Air # <<>> BY <1>2
  <2> QED BY <1>1, <2>1 DEF Stream, Framed, Stopped
<1>4. Framed'
  <2>1. ASSUME Air' # <<>>
        PROVE  Air'[1][2] = "header" /\ Air'[Len(Air')][2] = "body"
    <3>1. Len(Air') \in Nat /\ Len(Air') >= 1 BY <1>2, <2>1, NextAir
    <3>2. Air[2][2] # Air[1][2] /\ Air[2] \in Piece BY <1>2, <1>3, <3>1, AirTyped
    <3>3. Air'[1] = Air[2] /\ Air'[Len(Air')] = Air[Len(Air)] BY <1>2, <3>1
    <3> QED BY <1>3, <3>2, <3>3 DEF Piece
  <2>2. \A k \in 1..(Len(Air') - 1) : Air'[k + 1][2] # Air'[k][2]
    <3> TAKE k \in 1..(Len(Air') - 1)
    <3>1. k \in 1..Len(Air') /\ k + 1 \in 1..Len(Air') /\ k + 1 \in 1..(Len(Air) - 1)
      BY <1>2
    <3> QED BY <1>2, <1>3, <3>1
  <2> QED BY <1>1, <2>1, <2>2 DEF Framed
<1>5. OutputsShift' BY <1>1 DEF Stream, OutputsShift
<1>6. PICK count \in [0..Len(Air) -> Int] : InOrder(count)
  BY <1>1 DEF Stream, Answers, Stopped
<1>7. count[0] = Stored /\ Stored' = Stored
  BY <1>1, <1>6 DEF InOrder, Taken, Stored, Strays
<1>8. /\ count[1] = IF response'[1] # Foreign THEN Stored + 1 ELSE Stored
      /\ response'[1] # Foreign => response'[1] = Stored + 1
  <2>1. 1 \in 1..Len(Air) /\ 1 - 1 = 0 /\ (IsAnswerBody(Air[1]) <=> response'[1] # Foreign)
    BY <1>2, <1>3 DEF IsAnswerBody
  <2>2. /\ count[1] = IF IsAnswerBody(Air[1]) THEN count[0] + 1 ELSE count[0]
        /\ IsAnswerBody(Air[1]) => Air[1][1] = count[1]
    BY <1>6, <2>1 DEF InOrder
  <2> QED BY <1>2, <1>7, <2>1, <2>2
<1>9. Taken' = count[1] BY <1>1, <1>7, <1>8 DEF Taken
<1>10. response' \in {<<Foreign, "body">>, <<Stored' + 1, "body">>}
  <2>1. response' \in Piece BY <1>2, AirTyped
  <2>2. response' = <<response'[1], response'[2]>> /\ response'[2] = "body"
    BY <1>2, <1>3, <2>1 DEF Piece
  <2> QED BY <1>7, <1>8, <2>2
<1>11. Answers' BY <1>1, <1>6, <1>9, <1>10, Shifted DEF Answers
<1> QED BY <1>4, <1>5, <1>11 DEF Stream

\* A message is put behind the others, and is counted if it is an answer.
LEMMA SendingFramed ==
    ASSUME Types, Types', Framed, NEW r \in Requests \cup {Foreign}, ~Stopped,
           inbox' = inbox, coming' = coming \o Messages(r), collPc' = collPc
    PROVE  Framed'
<1>1. /\ Len(Air) \in Nat /\ Len(Air') = Len(Air) + 2
      /\ Air'[Len(Air) + 1] = <<r, "header">> /\ Air'[Len(Air) + 2] = <<r, "body">>
      /\ \A k \in 1..Len(Air) : Air'[k] = Air[k]
  BY SendingAddsTwo, AirTyped
<1>2. Air' # <<>> BY <1>1
<1>3. Air'[1][2] = IF collPc' = "body" THEN "body" ELSE "header"
  <2>1. CASE Air = <<>>
    <3>1. Len(Air) = 0 /\ collPc # "body" BY <2>1 DEF Framed
    <3> QED BY <1>1, <3>1
  <2>2. CASE Air # <<>>
    <3>1. 1 \in 1..Len(Air) BY <1>1, <2>2, AirTyped
    <3> QED BY <1>1, <2>2, <3>1 DEF Framed
  <2> QED BY <2>1, <2>2
<1>4. Air'[Len(Air')][2] = "body" BY <1>1
<1>5. \A k \in 1..(Len(Air') - 1) : Air'[k + 1][2] # Air'[k][2]
  <2> TAKE k \in 1..(Len(Air') - 1)
  <2>1. CASE k = Len(Air) + 1
    <3>1. k + 1 = Len(Air) + 2 BY <1>1, <2>1
    <3> QED BY <1>1, <2>1, <3>1
  <2>2. CASE k = Len(Air)
    <3>1. Air # <<>> /\ k \in 1..Len(Air) BY <1>1, <2>2
    <3>2. Air'[k][2] = "body" BY <1>1, <2>2, <3>1 DEF Framed
    <3> QED BY <1>1, <2>2, <3>2
  <2>3. CASE k < Len(Air)
    <3>1. k \in 1..(Len(Air) - 1) /\ k \in 1..Len(Air) /\ k + 1 \in 1..Len(Air)
      BY <1>1, <2>3
    <3> QED BY <1>1, <3>1 DEF Framed
  <2> QED BY <1>1, <2>1, <2>2, <2>3
<1> QED BY <1>2, <1>3, <1>4, <1>5 DEF Framed

LEMMA SendingCounted ==
    ASSUME Types, Types', NEW r \in Requests \cup {Foreign},
           inbox' = inbox, coming' = coming \o Messages(r), UNCHANGED <<collPc, i, dsets, response>>,
           NEW count \in [0..Len(Air) -> Int], InOrder(count),
           r # Foreign => r = count[Len(Air)] + 1,
           NEW step, step = IF r # Foreign THEN 1 ELSE 0,
           Len(asked') = Len(asked) - step,
           \A k \in 1..Len(asked') : asked'[k] = asked[k + step]
    PROVE  (\E later \in [0..Len(Air) -> Int] : InOrder(later))'
<1> PICK later :
      later = [k \in 0..Len(Air') |->
                 IF k <= Len(Air) THEN count[k]
                 ELSE IF k = Len(Air) + 1 THEN count[Len(Air)] ELSE count[Len(Air)] + step]
  OBVIOUS
<1>1. /\ Len(Air) \in Nat /\ Len(Air') = Len(Air) + 2
      /\ Air'[Len(Air) + 1] = <<r, "header">> /\ Air'[Len(Air) + 2] = <<r, "body">>
      /\ \A k \in 1..Len(Air) : Air'[k] = Air[k]
  BY SendingAddsTwo, AirTyped
<1>2. count[Len(Air)] \in Int /\ step \in {0, 1} BY <1>1
<1>3. /\ \A k \in 0..Len(Air) : later[k] = count[k]
      /\ later[Len(Air) + 1] = count[Len(Air)]
      /\ later[Len(Air) + 2] = count[Len(Air)] + step
  BY <1>1
<1>4. later \in [0..Len(Air') -> Int] BY <1>1, <1>2
<1>5. Taken' = Taken BY DEF Taken, Stored, Strays
<1>6. later[0] = Taken' BY <1>1, <1>3, <1>5 DEF InOrder
<1>7. ASSUME NEW k \in 1..Len(Air')
      PROVE  /\ later[k] = IF IsAnswerBody(Air'[k]) THEN later[k - 1] + 1 ELSE later[k - 1]
             /\ IsAnswerBody(Air'[k]) => Air'[k][1] = later[k]
  <2>1. CASE k \in 1..Len(Air)
    <3>1. Air'[k] = Air[k] /\ later[k] = count[k] /\ later[k - 1] = count[k - 1]
      BY <1>1, <1>3, <2>1
    <3> QED BY <2>1, <3>1 DEF InOrder
  <2>2. CASE k = Len(Air) + 1
    <3>1. ~IsAnswerBody(Air'[k]) BY <1>1, <2>2 DEF IsAnswerBody
    <3>2. k - 1 = Len(Air) /\ Len(Air) \in 0..Len(Air) BY <1>1, <2>2
    <3> QED BY <1>3, <2>2, <3>1, <3>2
  <2>3. CASE k = Len(Air) + 2
    <3>1. IsAnswerBody(Air'[k]) <=> r # Foreign BY <1>1, <2>3 DEF IsAnswerBody
    <3>2. k - 1 = Len(Air) + 1 BY <1>1, <2>3
    <3> QED BY <1>1, <1>2, <1>3, <2>3, <3>1, <3>2
  <2> QED BY <1>1, <2>1, <2>2, <2>3
<1>8. \A k \in 1..Len(asked') : asked'[k] = later[Len(Air')] + k
  <2> TAKE k \in 1..Len(asked')
  <2>1. Len(asked) \in Nat BY DEF Types, TypeOK
  <2>2. k + step \in 1..Len(asked) BY <1>2, <2>1
  <2>3. asked[k + step] = count[Len(Air)] + (k + step) BY <2>2 DEF InOrder
  <2> QED BY <1>1, <1>2, <1>3, <2>1, <2>3
<1>9. later[Len(Air')] + Len(asked') = IF collPc' \in {"send", "done"} THEN i' - 1 ELSE i'
  <2>1. Len(asked) \in Nat BY DEF Types, TypeOK
  <2>2. later[Len(Air')] + Len(asked') = count[Len(Air)] + Len(asked)
    BY <1>1, <1>2, <1>3, <2>1
  <2> QED BY <2>2 DEF InOrder
<1>10. InOrder(later)' BY <1>6, <1>7, <1>8, <1>9 DEF InOrder, IsAnswerBody
<1> QED BY <1>4, <1>10

LEMMA AnswerStream ==
    ASSUME Types, Types', Stream, Answer
    PROVE  Stream'
<1>1. /\ UNCHANGED <<inbox, collPc, i, dsets, response>> /\ ~Stopped /\ asked # <<>>
      /\ coming' = coming \o Messages(Head(asked)) /\ asked' = Tail(asked)
  BY DEF Answer, collector, streams, Listening, Stopped
<1>2. asked \in Seq(Requests) BY DEF Types, TypeOK
<1>3. /\ Head(asked) \in Requests /\ Head(asked) = asked[1] /\ Len(asked) \in Nat \ {0}
      /\ Len(asked') = Len(asked) - 1 /\ \A k \in 1..Len(asked') : asked'[k] = asked[k + 1]
  BY <1>1, <1>2, HeadTailProperties
<1>4. Head(asked) # Foreign BY <1>3, LoopAssumption DEF Requests, Foreign
<1>5. Framed' BY <1>1, <1>3, SendingFramed DEF Stream
<1>6. OutputsShift' BY <1>1 DEF Stream, OutputsShift
<1>7. PICK count \in [0..Len(Air) -> Int] : InOrder(count) BY <1>1 DEF Stream, Answers
<1>8. Head(asked) = count[Len(Air)] + 1
  <2>1. 1 \in 1..Len(asked) BY <1>3
  <2> QED BY <1>3, <1>7, <2>1 DEF InOrder
<1>9. PICK r : r = Head(asked) OBVIOUS
<1>10. (\E later \in [0..Len(Air) -> Int] : InOrder(later))'
  BY <1>1, <1>3, <1>4, <1>7, <1>8, <1>9, SendingCounted
<1>11. Answers' BY <1>1, <1>10 DEF Answers, Stream, Stored, Strays
<1> QED BY <1>5, <1>6, <1>11 DEF Stream

LEMMA ForeignMessageStream ==
    ASSUME Types, Types', Stream, ForeignMessage
    PROVE  Stream'
<1>1. /\ UNCHANGED <<inbox, collPc, i, dsets, response, asked>> /\ ~Stopped
      /\ coming' = coming \o Messages(Foreign)
  BY DEF ForeignMessage, collector, streams, Listening, Stopped
<1>2. Framed' BY <1>1, SendingFramed DEF Stream
<1>3. OutputsShift' BY <1>1 DEF Stream, OutputsShift
<1>4. PICK count \in [0..Len(Air) -> Int] : InOrder(count) BY <1>1 DEF Stream, Answers
<1>5. Len(asked) \in Nat /\ Len(asked') = Len(asked) - 0
      /\ \A k \in 1..Len(asked') : asked'[k] = asked[k + 0]
  BY <1>1 DEF Types, TypeOK
<1>6. (\E later \in [0..Len(Air) -> Int] : InOrder(later))'
  BY <1>1, <1>4, <1>5, SendingCounted
<1>7. Answers' BY <1>1, <1>6 DEF Answers, Stream, Stored, Strays
<1> QED BY <1>2, <1>3, <1>7 DEF Stream

LEMMA StreamStep == ASSUME IInv, Next PROVE Stream'
<1>0. Types' BY TypesStep
<1>1. Stream /\ Types BY DEF IInv, Stream
<1>2. CASE Run \/ ReadTrace \/ CollectorWaits \/ FeedChunk \/ ScHangUp \/ MmHangUp \/ FeedMessage
  <2>1. UNCHANGED <<collPc, dsets, response, asked, i>>
    BY <1>2 DEF Run, ReadTrace, Discard, Record, Read, ReaderWaits, ReaderSpins, CollectorWaits,
                FeedChunk, ScHangUp, MmHangUp, FeedMessage, collector, world
  <2>2. Air' = Air
    <3>1. CASE FeedMessage BY <1>0, <1>1, <3>1, FeedingKeepsAir
    <3>2. CASE ~FeedMessage
      <4>1. UNCHANGED <<inbox, coming>>
        BY <1>2, <3>2 DEF Run, ReadTrace, Discard, Record, Read, ReaderWaits, ReaderSpins,
                CollectorWaits, FeedChunk, ScHangUp, MmHangUp, streams, world
      <4> QED BY <4>1 DEF Air
    <3> QED BY <3>1, <3>2
  <2> QED BY <1>1, <2>1, <2>2, SameStream
<1>3. CASE CollectTraces /\ ~CollectorWaits
  BY <1>0, <1>1, <1>3, SendRequestStream, ReadHeaderStream, ReadBodyStream, StoreTraceStream,
     CollectorEndsStream DEF CollectTraces
<1>4. CASE SleepOver BY <1>1, <1>4, SleepOverStream
<1>5. CASE Answer \/ ForeignMessage BY <1>0, <1>1, <1>5, AnswerStream, ForeignMessageStream
<1> QED BY <1>2, <1>3, <1>4, <1>5 DEF Next, CollectTraces, World

-----------------------------------------------------------------------------
(* Together.                                                               *)

LEMMA InitInvariant == Init => IInv
BY InitTypes, InitTurns, InitControl, InitFresh, InitNoticed, InitStream DEF IInv, Stream

LEMMA NextInvariant == IInv /\ [Next]_vars => IInv'
<1> SUFFICES ASSUME IInv, [Next]_vars PROVE IInv' OBVIOUS
<1>1. CASE Next
  BY <1>1, TypesStep, TurnsStep, ControlStep, FreshStep, NoticedStep, StreamStep
     DEF IInv, Stream
<1>2. CASE UNCHANGED vars
  <2>1. Types' /\ Turns' /\ Requested' /\ Handover'
    BY <1>2 DEF vars, IInv, Types, TypeOK, Slot, Piece, Chunk, Requests, Turns, Stopped,
                Sleeping, Requested, Handover
  <2>2. Fresh' /\ FreshTraces' /\ Noticed'
    BY <1>2 DEF vars, IInv, Fresh, Backlogged, FreshTraces, Noticed
  <2>3. Stream'
    <3>1. Air' = Air BY <1>2 DEF vars, Air
    <3> QED BY <1>2, <3>1, SameStream DEF vars, IInv, Stream
  <2> QED BY <2>1, <2>2, <2>3 DEF IInv, Stream
<1> QED BY <1>1, <1>2

LEMMA Invariant == Spec => []IInv
BY InitInvariant, NextInvariant, PTL DEF Spec

\* Tasks, buffers, queue and file stay what their types say: in particular a
\* task is never put in line twice, the queue never holds two traces, and the
\* file never more than ntraces (tools/sc_receiver_loop.py).
THEOREM TypeCorrect == Spec => []TypeOK
<1>1. IInv => TypeOK BY DEF IInv, Types
<1> QED BY <1>1, Invariant, PTL

\* No trace holds a chunk from before the trace in front of it was stored:
\* whatever the chunks and messages do, the reader has had its turn to throw the
\* backlog away before the collector sets the trigger again (lines 24-33, 46-72).
THEOREM TracesAreFresh == Spec => []FreshTraces
<1>1. IInv => FreshTraces BY DEF IInv
<1> QED BY <1>1, Invariant, PTL

\* The outputs are the bodies of the messages in the order in which they came,
\* none lost and none taken twice: the k-th is a stray message's or answers the
\* request that is as many before the k-th as strays were stored (lines 46-65).
THEOREM OutputsAreShiftedByStrays == Spec => []OutputsShift
<1>1. IInv => OutputsShift BY DEF IInv
<1> QED BY <1>1, Invariant, PTL

\* The collector is left waiting for a trace for ever only if no chunk came while
\* it was waiting for the answer's header (lines 26-29, 46-58).
THEOREM TriggerIsMissedOnlyLate == Spec => []MissedOnlyLate
<1>1. IInv => MissedOnlyLate
  BY DEF IInv, Noticed, Missed, MissedOnlyLate
<1> QED BY <1>1, Invariant, PTL

=============================================================================
