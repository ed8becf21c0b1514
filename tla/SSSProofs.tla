----------------------------- MODULE SSSProofs ------------------------------
(***************************************************************************)
(* Proofs about the SSS, for any devices and any launches of them.         *)
(*                                                                         *)
(* None of the properties of module SSS is inductive by itself: that the   *)
(* table is truthful depends on who may be served when, on which entries   *)
(* are doomed and where the scan stands, and on how many pieces of a       *)
(* request are under way.  IInv says so.                                   *)
(***************************************************************************)
EXTENDS SSS, TLAPS

\* One launch of a device at a time.
LiveOnce ==
    \A b, c \in Boots :
        IdOf[b] = IdOf[c] /\ link[b] = "open" /\ link[c] = "open" => b = c

\* A socket the server has closed belongs to a dead launch and is polled no
\* more as an unattributed one.
ClosedIsDead ==
    \A b \in closed : link[b] = "closed" /\ b \notin backlog \cup unattr

\* The socket being served is polled: unattributed, or its device's own.
Serving ==
    InTransaction =>
        /\ cur \in Boots
        /\ link[cur] # "unused"
        /\ cur \notin backlog \cup closed
        /\ cur \in unattr \/ (devs[IdOf[cur]].csock = cur /\ IdOf[cur] \notin todo)

\* Is the scan of the table under way?
InAttrScan == sssPc = "attr" \/ (InTransaction /\ cur \notin unattr)

Scanning ==
    /\ sssPc = "unattr" => todo \subseteq unattr
    /\ InAttrScan => todo \subseteq Known(devs)

\* Entries about to be forgotten have been scanned, and their sockets closed.
OldIdsDead ==
    /\ \A d \in oldIds : devs[d].csock \in closed /\ d \notin todo
    /\ ~InAttrScan /\ sssPc # "exited" => oldIds = {}

\* A doomed entry is yet to be scanned, in the scan that is under way.
DoomedAhead ==
    \A d \in Devices : Doomed(d) => sssPc = "exited" \/ (InAttrScan /\ d \in todo)

\* The pieces of a request are either queued or in the server's hands.
Pieces ==
    /\ \A b \in Boots :
          /\ arrived[b] + InHand(b) <= Whole
          /\ link[b] = "unused" => arrived[b] = 0
          /\ link[b] # "open" => phase[b] = "idle" /\ reply[b] = None
          /\ link[b] = "open" =>
                \/ phase[b] = "idle" /\ reply[b] = None /\ arrived[b] + InHand(b) = 0
                \/ phase[b] = "half" /\ reply[b] = None /\ arrived[b] + InHand(b) = 1
                \/ phase[b] = "wait" /\ reply[b] = None /\ arrived[b] + InHand(b) = Whole
                \/ phase[b] = "wait" /\ reply[b] # None /\ arrived[b] + InHand(b) = 0
    /\ sssPc = "answer" => got = Whole
    /\ sssPc = "recv" => got < Whole

Home == OneHome /\ LiveOnce /\ ClosedIsDead
Scan == Serving /\ Scanning /\ OldIdsDead /\ DoomedAhead

IInv == TypeOK /\ Home /\ Scan /\ Pieces /\ AnswerStands /\ ExitCause

-----------------------------------------------------------------------------

\* What an entry of the table can be.
LEMMA Entry ==
    ASSUME TypeOK, NEW d \in Devices
    PROVE  \/ devs[d] = NoDev /\ devs[d].csock = None /\ devs[d].status = Absent
           \/ devs[d] # NoDev /\ devs[d].csock \in Boots /\ devs[d].status \in Ops
BY ScewlAssumption DEF TypeOK, Device, NoDev, Ops, REG, DEREG, None, Absent

\* The server starts in the invariant.
THEOREM InitIInv == Init => IInv
<1> SUFFICES ASSUME Init PROVE IInv OBVIOUS
<1> USE ScewlAssumption DEF Init, ClientInit, ServerInit, NoDev
<1>1. TypeOK BY DEF TypeOK, Device, Ops, Data, Whole
<1>2. Home BY DEF Home, OneHome, LiveOnce, ClosedIsDead, Recorded
<1>3. Scan
  BY DEF Scan, Serving, Scanning, OldIdsDead, DoomedAhead, InTransaction, InAttrScan, Doomed
<1>4. Pieces BY DEF Pieces, InHand, InTransaction, Whole
<1>5. AnswerStands BY DEF AnswerStands, Ops, REG, DEREG, None
<1>6. ExitCause BY DEF ExitCause
<1> QED BY <1>1, <1>2, <1>3, <1>4, <1>5, <1>6 DEF IInv

-----------------------------------------------------------------------------
(* The end of a transaction.                                               *)

\* What a transaction may make of the table.
Fits(table) ==
    /\ table \in [Devices -> Device \cup {NoDev}]
    /\ \A d \in Devices : d # IdOf[cur] => table[d] = devs[d]
    /\ table[IdOf[cur]] = devs[IdOf[cur]] \/ table[IdOf[cur]].csock = cur

\* A transaction serves the connection of a device that can still be answered
\* or whose entry it holds.
LEMMA Serves ==
    ASSUME IInv, InTransaction
    PROVE  /\ cur \in Boots /\ IdOf[cur] \in Devices /\ reqOp[cur] \in Ops
           /\ link[cur] # "unused" /\ cur \notin backlog \cup closed
           /\ cur \in unattr \/ (devs[IdOf[cur]].csock = cur /\ IdOf[cur] \notin todo)
BY ScewlAssumption DEF IInv, TypeOK, Scan, Serving

\* However a transaction ends, the types, the homes of the connections and
\* the state of the scan are kept.
LEMMA Left ==
    ASSUME IInv, InTransaction, NEW table, Fits(table),
           \/ Returned(table)
           \/ Raised(table) /\ link[cur] = "closed",
           UNCHANGED <<link, phase, reqOp, arrived, backlog>>,
           reply' \in [Boots -> Data \cup {None}]
    PROVE  TypeOK' /\ Home' /\ Scan'
<1> DEFINE own == IdOf[cur]
<1> USE ScewlAssumption
<1>c. /\ cur \in Boots /\ own \in Devices
      /\ link[cur] # "unused" /\ cur \notin backlog \cup closed
      /\ cur \in unattr \/ (devs[own].csock = cur /\ own \notin todo)
  BY Serves
<1>n. cur' = None /\ got' = 0 /\ unattr' = unattr \ {cur} /\ devs' = table /\ sssPc' = "attr"
  BY DEF Returned, Raised, Leave, EnterAttr
<1>s. \/ cur \in unattr /\ todo' = Known(table) /\ oldIds' = {}
      \/ cur \notin unattr /\ todo' = todo /\ oldIds' = oldIds /\ closed' = closed
      \/ cur \notin unattr /\ todo' = todo /\ oldIds' = oldIds \cup {own}
  BY DEF Returned, Raised, EnterAttr
<1>v. closed' = closed \/ (closed' = closed \cup {cur} /\ link[cur] = "closed")
  BY DEF Returned, Raised
<1>b. \A d \in Devices : devs'[d].csock = devs[d].csock \/ (d = own /\ devs'[d].csock = cur)
  BY <1>c, <1>n DEF Fits
<1>t. TypeOK' BY <1>c, <1>n, <1>s, <1>v DEF IInv, TypeOK, Fits, Known, Whole
<1>2. Home'
  <2>1. OneHome'
    BY <1>c, <1>n, <1>b DEF IInv, Home, TypeOK, OneHome, Recorded, Fits
  <2>2. LiveOnce' BY DEF IInv, Home, LiveOnce
  <2>3. ClosedIsDead' BY <1>c, <1>n, <1>v DEF IInv, Home, ClosedIsDead, TypeOK
  <2> QED BY <2>1, <2>2, <2>3 DEF Home
<1>3. Scan'
  <2>1. Serving' /\ InAttrScan' BY <1>n DEF Serving, InTransaction, InAttrScan
  <2>2. Scanning'
    <3>1. CASE cur \in unattr
      BY <3>1, <1>n, <1>s DEF Scanning, Known
    <3>2. CASE cur \notin unattr
      <4>1. InAttrScan BY <3>2 DEF InAttrScan
      <4> QED BY <3>2, <4>1, <1>c, <1>n, <1>s DEF IInv, Scan, Scanning, Fits, Known
    <3> QED BY <3>1, <3>2
  <2>3. OldIdsDead'
    <3>1. CASE cur \in unattr BY <3>1, <2>1, <1>s DEF OldIdsDead
    <3>2. CASE cur \notin unattr
      <4>1. devs'[own].csock = cur BY <3>2, <1>c, <1>b
      <4>2. \A d \in oldIds : devs[d].csock \in closed /\ d \notin todo /\ d \in Devices
        BY DEF IInv, Scan, OldIdsDead, TypeOK
      <4>3. oldIds' = oldIds \/ cur \in closed' BY <3>2, <1>s, <1>v DEF Returned, Raised
      <4> QED BY <3>2, <2>1, <4>1, <4>2, <4>3, <1>b, <1>c, <1>s, <1>v DEF OldIdsDead
    <3> QED BY <3>1, <3>2
  <2>4. DoomedAhead'
    <3> SUFFICES ASSUME NEW d \in Devices, Doomed(d)' PROVE d \in todo'
      BY <2>1 DEF DoomedAhead
    <3>1. CASE cur \in unattr
      <4>1. devs'[d].csock \in Boots BY <1>t DEF Doomed, TypeOK
      <4>2. devs'[d] # NoDev BY <4>1 DEF NoDev
      <4> QED BY <4>2, <3>1, <1>n, <1>s, <1>c DEF Known
    <3>2. CASE cur \notin unattr
      <4>1. devs[own].csock = cur /\ devs'[own].csock = cur BY <3>2, <1>c, <1>b
      <4>2. d # own BY <4>1, <3>2, <1>c, <1>s, <1>v DEF Doomed, Returned, Raised
      <4>3. devs'[d] = devs[d] BY <4>2, <1>n DEF Fits
      <4>4. devs[d].csock # cur
        BY <4>2, <1>c DEF IInv, Home, OneHome, NoDev
      <4>5. Doomed(d) BY <3>2, <4>3, <4>4, <1>s, <1>v DEF Doomed
      <4> QED BY <4>5, <3>2, <1>s DEF IInv, Scan, DoomedAhead, InTransaction
    <3> QED BY <3>1, <3>2
  <2> QED BY <2>1, <2>2, <2>3, <2>4 DEF Scan
<1> QED BY <1>t, <1>2, <1>3

\* While a transaction is going on only the holder of the entry in question
\* can be unanswered: no other entry is affected, and no entry is doomed but
\* those still to be scanned.
LEMMA LeftAnswers ==
    ASSUME IInv, InTransaction, NEW table, Fits(table), TypeOK',
           \/ Returned(table)
           \/ Raised(table) /\ link[cur] = "closed",
           NEW b \in Boots, b # cur, reply[b] \in Ops, reply'[b] = reply[b],
           NEW own, own = IdOf[cur],
           link[cur] = "open" \/ table = devs \/ Doomed(own)'
    PROVE  devs'[IdOf[b]] = [status |-> reply'[b], csock |-> b] \/ Doomed(IdOf[b])'
<1> USE ScewlAssumption
<1>c. /\ cur \in Boots /\ IdOf[cur] \in Devices /\ IdOf[b] \in Devices
      /\ cur \notin closed
      /\ cur \in unattr \/ devs[IdOf[cur]].csock = cur
  BY Serves
<1>1. link[b] = "open" BY DEF IInv, TypeOK, Pieces, Ops, REG, DEREG, None
<1>2. \/ devs[IdOf[b]] = [status |-> reply[b], csock |-> b]
      \/ Doomed(IdOf[b])
  BY DEF IInv, AnswerStands
<1>3. closed \subseteq closed' /\ devs' = table
  BY DEF Returned, Raised, Leave
<1>4. IdOf[b] = IdOf[cur] => link[cur] # "open"
  BY <1>1, <1>c DEF IInv, Home, LiveOnce
<1>5. CASE devs[IdOf[b]] = [status |-> reply[b], csock |-> b]
  <2>1. CASE IdOf[b] = own BY <2>1, <1>3, <1>4, <1>5
  <2>2. CASE IdOf[b] # own BY <2>2, <1>3, <1>5, <1>c DEF Fits
  <2> QED BY <2>1, <2>2
<1>6. CASE Doomed(IdOf[b])
  <2>1. cur \notin unattr BY <1>6, <1>c DEF IInv, Scan, DoomedAhead, InTransaction, InAttrScan
  <2>2. IdOf[b] # IdOf[cur] BY <2>1, <1>6, <1>c DEF Doomed
  <2> QED BY <1>3, <1>6, <1>c, <2>1, <2>2 DEF Fits, Doomed, Returned, Raised
<1> QED BY <1>2, <1>5, <1>6

\* The table after a request has been recorded, or was a repetition.
LEMMA Recording ==
    ASSUME IInv, InTransaction
    PROVE  LET table == recorded(cur, reqOp[cur]) IN
           /\ Fits(table)
           /\ \/ table = devs /\ resp_op(cur, reqOp[cur]) = ALREADY
              \/ /\ table[IdOf[cur]] = [status |-> reqOp[cur], csock |-> cur]
                 /\ resp_op(cur, reqOp[cur]) = reqOp[cur]
BY Serves DEF Fits, recorded, repeated, resp_op, IInv, TypeOK, Device

\* The send succeeds: what the table says is what the device was told.
LEMMA AnswerStep ==
    ASSUME IInv, Answer
    PROVE  IInv'
<1> DEFINE table == recorded(cur, reqOp[cur])
<1> USE ScewlAssumption
<1>1. InTransaction /\ sssPc = "answer" BY DEF Answer, InTransaction
<1>2. /\ Fits(table)
      /\ \/ table = devs /\ resp_op(cur, reqOp[cur]) = ALREADY
         \/ /\ table[IdOf[cur]] = [status |-> reqOp[cur], csock |-> cur]
            /\ resp_op(cur, reqOp[cur]) = reqOp[cur]
  BY <1>1, Recording
<1>3. cur \in Boots /\ reqOp[cur] \in Ops /\ IdOf[cur] \in Devices BY <1>1, Serves
<1>4. /\ reply' = [reply EXCEPT ![cur] = resp_op(cur, reqOp[cur])]
      /\ link[cur] = "open" /\ UNCHANGED <<link, phase, reqOp, arrived, backlog>>
      /\ Returned(table)
  BY DEF Answer
<1>5. reply' \in [Boots -> Data \cup {None}]
  BY <1>2, <1>3, <1>4 DEF IInv, TypeOK, Data, Ops
<1>6. TypeOK' /\ Home' /\ Scan' BY <1>1, <1>2, <1>4, <1>5, Left
<1>7. Pieces'
  <2>1. got = Whole /\ InHand(cur) = Whole BY <1>1 DEF IInv, Pieces, InHand
  <2>2. \A b \in Boots : InHand(b)' = 0 /\ (b # cur => InHand(b) = 0)
    BY <1>4 DEF InHand, InTransaction, Returned, EnterAttr
  <2>3. sssPc' = "attr" /\ reply'[cur] # None
    BY <1>2, <1>3, <1>4
       DEF Returned, EnterAttr, Ops, REG, DEREG, ALREADY, None, IInv, TypeOK
  <2> QED BY <2>1, <2>2, <2>3, <1>3, <1>4 DEF IInv, Pieces, Whole, TypeOK
<1>8. AnswerStands'
  <2> SUFFICES ASSUME NEW b \in Boots, reply'[b] \in Ops
               PROVE  \/ devs'[IdOf[b]] = [status |-> reply'[b], csock |-> b]
                      \/ Doomed(IdOf[b])'
    BY DEF AnswerStands
  <2>1. CASE b = cur
    <3>1. devs' = table BY <1>4 DEF Returned, Leave
    <3>2. reply'[b] = resp_op(cur, reqOp[cur]) BY <2>1, <1>3, <1>4 DEF IInv, TypeOK
    <3> QED BY <2>1, <3>1, <3>2, <1>2 DEF Ops, REG, DEREG, ALREADY
  <2>2. CASE b # cur
    <3>1. reply'[b] = reply[b] BY <2>2, <1>4 DEF IInv, TypeOK
    <3> QED BY <2>2, <3>1, <1>1, <1>2, <1>4, <1>6, LeftAnswers
  <2> QED BY <2>1, <2>2
<1>9. ExitCause' BY <1>4 DEF ExitCause, Returned, EnterAttr
<1> QED BY <1>6, <1>7, <1>8, <1>9 DEF IInv

\* The device hung up: its socket leaves the pool, or its entry is forgotten.
LEMMA RecvEofStep ==
    ASSUME IInv, RecvEof
    PROVE  IInv'
<1> USE ScewlAssumption
<1>1. InTransaction /\ link[cur] = "closed" BY DEF RecvEof, InTransaction
<1>2. cur \in Boots /\ IdOf[cur] \in Devices BY <1>1, Serves
<1>3. Fits(devs) BY DEF Fits, IInv, TypeOK
<1>4. Raised(devs) /\ UNCHANGED <<link, phase, reqOp, arrived, reply, backlog>>
  BY DEF RecvEof, clientVars
<1>5. reply' \in [Boots -> Data \cup {None}] BY <1>4 DEF IInv, TypeOK
<1>6. TypeOK' /\ Home' /\ Scan' BY <1>1, <1>3, <1>4, <1>5, Left
<1>7. Pieces'
  <2>1. \A b \in Boots : InHand(b)' = 0 /\ (b # cur => InHand(b) = 0)
    BY <1>4 DEF InHand, InTransaction, Raised, EnterAttr
  <2> QED BY <2>1, <1>1, <1>2, <1>4 DEF IInv, Pieces, Whole, TypeOK, Raised, EnterAttr, InHand
<1>8. AnswerStands'
  <2> SUFFICES ASSUME NEW b \in Boots, reply'[b] \in Ops
               PROVE  \/ devs'[IdOf[b]] = [status |-> reply'[b], csock |-> b]
                      \/ Doomed(IdOf[b])'
    BY DEF AnswerStands
  <2>1. reply'[b] = reply[b] BY <1>4
  <2>2. b # cur BY <1>1, <1>2, <2>1 DEF IInv, TypeOK, Pieces, Ops, REG, DEREG, None
  <2> QED BY <2>1, <2>2, <1>1, <1>3, <1>4, <1>6, LeftAnswers
<1>9. ExitCause' BY <1>4 DEF ExitCause, Raised, EnterAttr
<1> QED BY <1>6, <1>7, <1>8, <1>9 DEF IInv

\* The send fails: what was recorded is doomed, or about to be forgotten.
LEMMA AnswerBrokenPipeStep ==
    ASSUME IInv, AnswerBrokenPipe
    PROVE  IInv'
<1> DEFINE table == recorded(cur, reqOp[cur])
<1> USE ScewlAssumption
<1>1. InTransaction /\ sssPc = "answer" /\ link[cur] = "closed"
  BY DEF AnswerBrokenPipe, InTransaction
<1>2. Fits(table) /\ (table = devs \/ table[IdOf[cur]].csock = cur)
  BY <1>1, Recording
<1>3. /\ cur \in Boots /\ IdOf[cur] \in Devices /\ cur \notin closed
      /\ cur \in unattr \/ devs[IdOf[cur]].csock = cur
  BY <1>1, Serves
<1>4. Raised(table) /\ UNCHANGED <<link, phase, reqOp, arrived, reply, backlog>>
  BY DEF AnswerBrokenPipe, clientVars
<1>5. reply' \in [Boots -> Data \cup {None}] BY <1>4 DEF IInv, TypeOK
<1>6. TypeOK' /\ Home' /\ Scan' BY <1>1, <1>2, <1>4, <1>5, Left
<1>7. Pieces'
  <2>1. \A b \in Boots : InHand(b)' = 0 /\ (b # cur => InHand(b) = 0)
    BY <1>4 DEF InHand, InTransaction, Raised, EnterAttr
  <2> QED BY <2>1, <1>1, <1>3, <1>4 DEF IInv, Pieces, Whole, TypeOK, Raised, EnterAttr, InHand
<1>8. AnswerStands'
  <2> SUFFICES ASSUME NEW b \in Boots, reply'[b] \in Ops
               PROVE  \/ devs'[IdOf[b]] = [status |-> reply'[b], csock |-> b]
                      \/ Doomed(IdOf[b])'
    BY DEF AnswerStands
  <2>1. reply'[b] = reply[b] BY <1>4
  <2>2. b # cur BY <1>1, <1>3, <2>1 DEF IInv, TypeOK, Pieces, Ops, REG, DEREG, None
  <2>3. IdOf[b] \in Devices BY DEF TypeOK
  <2>4. CASE cur \in unattr
    <3>1. devs' = table /\ closed' = closed \cup {cur} /\ oldIds' = {}
      BY <2>4, <1>4 DEF Raised, Leave, EnterAttr
    <3>2. PICK own \in Devices : own = IdOf[cur] BY <1>3
    <3>3. table = devs \/ Doomed(own)' BY <3>1, <3>2, <1>2 DEF Doomed
    <3> QED BY <3>2, <3>3, <2>1, <2>2, <1>1, <1>2, <1>4, <1>6, LeftAnswers
  <2>5. CASE cur \notin unattr
    <3>1. IdOf[b] # IdOf[cur]
      <4>1. devs[IdOf[cur]].csock = cur /\ ~Doomed(IdOf[cur])
        BY <2>5, <1>3 DEF Doomed
      <4>2. devs[IdOf[b]] = [status |-> reply[b], csock |-> b] \/ Doomed(IdOf[b])
        BY <2>1 DEF IInv, AnswerStands
      <4> QED BY <4>1, <4>2, <2>2
    <3>2. devs'[IdOf[b]] = devs[IdOf[b]] BY <3>1, <2>3, <1>2, <1>4 DEF Fits, Raised, Leave
    <3>3. \/ devs[IdOf[b]] = [status |-> reply[b], csock |-> b] \/ Doomed(IdOf[b])
      BY <2>1 DEF IInv, AnswerStands
    <3>4. Doomed(IdOf[b]) => Doomed(IdOf[b])'
      BY <3>1, <3>2, <2>5, <1>4 DEF Doomed, Raised
    <3> QED BY <3>2, <3>3, <3>4, <2>1
  <2> QED BY <2>4, <2>5
<1>9. ExitCause' BY <1>4 DEF ExitCause, Raised, EnterAttr
<1> QED BY <1>6, <1>7, <1>8, <1>9 DEF IInv

-----------------------------------------------------------------------------
(* The other steps of the server.                                          *)

\* The other actions of the server, one lemma each.
LEMMA AcceptConnStep ==
    ASSUME IInv, NEW b \in Boots, AcceptConn(b)
    PROVE  IInv'
<1> USE ScewlAssumption DEF IInv, TypeOK, AcceptConn, clientVars
<1>1. TypeOK' BY DEF Whole
<1>2. Home' BY DEF Home, OneHome, LiveOnce, ClosedIsDead, Recorded, NoDev
<1>3. Scan'
  BY DEF Scan, Serving, Scanning, OldIdsDead, DoomedAhead, InTransaction, InAttrScan, Doomed, Home, OneHome, ClosedIsDead
<1>4. Pieces' BY DEF Pieces, InHand, InTransaction
<1>5. AnswerStands' BY DEF AnswerStands, Doomed
<1>6. ExitCause' BY DEF ExitCause, Doomed
<1> QED BY <1>1, <1>2, <1>3, <1>4, <1>5, <1>6

\* As AcceptConnStep, for the end of the accepts.
LEMMA AcceptNoneStep ==
    ASSUME IInv, AcceptNone
    PROVE  IInv'
<1> USE ScewlAssumption DEF IInv, TypeOK, AcceptNone, clientVars, EnterUnattr
<1>1. TypeOK' BY DEF Whole
<1>2. Home' BY DEF Home, OneHome, LiveOnce, ClosedIsDead, Recorded
<1>3. Scan'
  BY DEF Scan, Serving, Scanning, OldIdsDead, DoomedAhead, InTransaction, InAttrScan, Doomed
<1>4. Pieces' BY DEF Pieces, InHand, InTransaction
<1>5. AnswerStands' BY DEF AnswerStands, Doomed
<1>6. ExitCause' BY DEF ExitCause, Doomed
<1> QED BY <1>1, <1>2, <1>3, <1>4, <1>5, <1>6

\* As AcceptConnStep, for a poll of an unattributed socket.
LEMMA PollUnattrStep ==
    ASSUME IInv, NEW b \in Boots, PollUnattr(b)
    PROVE  IInv'
<1> USE ScewlAssumption DEF IInv, TypeOK, PollUnattr, clientVars, StartTransaction
<1>1. TypeOK' BY DEF Whole
<1>2. Home' BY DEF Home, OneHome, LiveOnce, ClosedIsDead, Recorded
<1>3. Scan'
  BY DEF Scan, Serving, Scanning, OldIdsDead, DoomedAhead, InTransaction, InAttrScan, Doomed, Home, OneHome, ClosedIsDead
<1>4. Pieces' BY DEF Pieces, InHand, InTransaction, Whole
<1>5. AnswerStands' BY DEF AnswerStands, Doomed
<1>6. ExitCause' BY DEF ExitCause, Doomed
<1> QED BY <1>1, <1>2, <1>3, <1>4, <1>5, <1>6

\* As AcceptConnStep, for the start of the scan of the table.
LEMMA UnattrDoneStep ==
    ASSUME IInv, UnattrDone
    PROVE  IInv'
<1> USE ScewlAssumption DEF IInv, TypeOK, UnattrDone, clientVars, EnterAttr
<1>1. TypeOK' BY DEF Known, Whole
<1>2. Home' BY DEF Home, OneHome, LiveOnce, ClosedIsDead, Recorded
<1>3. Scan'
  BY DEF Scan, Serving, Scanning, OldIdsDead, DoomedAhead, InTransaction, InAttrScan, Doomed, Known
<1>4. Pieces' BY DEF Pieces, InHand, InTransaction
<1>5. AnswerStands' BY DEF AnswerStands, Doomed, Scan, OldIdsDead, InAttrScan, InTransaction
<1>6. ExitCause' BY DEF ExitCause, Doomed
<1> QED BY <1>1, <1>2, <1>3, <1>4, <1>5, <1>6

\* The scan reaches an entry: a doomed one ends the server, a readable one is
\* served.
LEMMA PollAttrStep ==
    ASSUME IInv, NEW d \in Devices, PollAttr(d)
    PROVE  IInv'
<1> USE ScewlAssumption DEF IInv, TypeOK, PollAttr, clientVars, StartTransaction
<1>1. /\ devs[d].csock \in Boots /\ IdOf[devs[d].csock] = d
      /\ devs[d].csock \in Recorded
      /\ d \notin oldIds /\ d \in todo /\ todo' = todo \ {d}
  <2>1. devs[d] # NoDev BY DEF Scan, Scanning, InAttrScan, Known
  <2> QED BY <2>1, Entry DEF Home, OneHome, Recorded, Scan, OldIdsDead
<1>2. TypeOK' BY <1>1 DEF Whole
<1>3. Home' BY DEF Home, OneHome, LiveOnce, ClosedIsDead, Recorded
<1>4. Scan'
  <2>1. CASE sssPc' = "recv"
    <3>1. /\ cur' = devs[d].csock /\ cur' \notin closed
          /\ cur' \notin backlog \cup unattr /\ link[cur'] # "unused"
      BY <1>1, <2>1 DEF Home, OneHome
    <3> QED BY <1>1, <2>1, <3>1
       DEF Scan, Serving, Scanning, OldIdsDead, DoomedAhead, InTransaction, InAttrScan,
           Doomed, Known
  <2>2. CASE sssPc' # "recv"
    BY <1>1, <2>2
       DEF Scan, Serving, Scanning, OldIdsDead, DoomedAhead, InTransaction, InAttrScan,
           Doomed, Known
  <2> QED BY <2>1, <2>2
<1>5. Pieces' BY DEF Pieces, InHand, InTransaction, Whole
<1>6. AnswerStands' BY DEF AnswerStands, Doomed
<1>7. ExitCause' BY <1>1 DEF ExitCause, Doomed, Home, ClosedIsDead
<1> QED BY <1>2, <1>3, <1>4, <1>5, <1>6, <1>7

\* Forgetting dead devices takes no entry from a live one.
LEMMA AttrDoneStep ==
    ASSUME IInv, AttrDone
    PROVE  IInv'
<1> USE ScewlAssumption DEF IInv, TypeOK, AttrDone, clientVars
<1>1. /\ \A d \in Devices : devs'[d] = devs[d] \/ (d \in oldIds /\ devs'[d] = NoDev)
      /\ \A d \in Devices \ oldIds : devs'[d] = devs[d]
  OBVIOUS
<1>2. \A d \in Devices : ~Doomed(d)
  BY DEF Scan, DoomedAhead, InAttrScan, InTransaction
<1>3. NoDev.csock \notin Boots BY DEF NoDev
<1>4. TypeOK' OBVIOUS
<1>5. Home'
  BY <1>1, <1>3 DEF Home, OneHome, LiveOnce, ClosedIsDead, Recorded
<1>6. Scan'
  <2>1. \A d \in Devices : ~Doomed(d)' BY <1>1, <1>2, <1>3 DEF Doomed
  <2> QED BY <2>1
    DEF Scan, Serving, Scanning, OldIdsDead, DoomedAhead, InTransaction, InAttrScan
<1>7. Pieces' BY DEF Pieces, InHand, InTransaction
<1>8. AnswerStands'
  <2> SUFFICES ASSUME NEW b \in Boots, reply[b] \in Ops
               PROVE  devs'[IdOf[b]] = [status |-> reply[b], csock |-> b]
    BY DEF AnswerStands
  <2>1. devs[IdOf[b]] = [status |-> reply[b], csock |-> b]
    BY <1>2 DEF AnswerStands
  <2>2. link[b] = "open" BY DEF Pieces, Ops, REG, DEREG, None
  <2>3. IdOf[b] \notin oldIds
    BY <2>1, <2>2 DEF Scan, OldIdsDead, Home, ClosedIsDead
  <2> QED BY <2>1, <2>3, <1>1
<1>9. ExitCause' BY DEF ExitCause
<1> QED BY <1>4, <1>5, <1>6, <1>7, <1>8, <1>9

\* What the server reads moves from the socket into its hands.
LEMMA RecvStep ==
    ASSUME IInv, Recv
    PROVE  IInv'
<1> USE ScewlAssumption DEF IInv, TypeOK, Recv
<1>1. TypeOK' BY DEF Whole, Pieces, InHand, InTransaction, Scan, Serving
<1>2. Home' BY DEF Home, OneHome, LiveOnce, ClosedIsDead, Recorded
<1>3. Scan'
  BY DEF Scan, Serving, Scanning, OldIdsDead, DoomedAhead, InTransaction, InAttrScan, Doomed
<1>4. Pieces' BY DEF Pieces, InHand, InTransaction, Whole, Scan, Serving
<1>5. AnswerStands' BY DEF AnswerStands, Doomed
<1>6. ExitCause' BY DEF ExitCause, Doomed
<1> QED BY <1>1, <1>2, <1>3, <1>4, <1>5, <1>6

-----------------------------------------------------------------------------
(* The steps of the clients.                                               *)

\* A new launch: its socket is nowhere yet, and no launch of the device is live.
LEMMA ConnectStep ==
    ASSUME IInv, NEW b \in Boots, Connect(b)
    PROVE  IInv'
<1> USE ScewlAssumption DEF IInv, TypeOK, Connect, serverVars
<1>1. TypeOK' OBVIOUS
<1>2. Home' BY DEF Home, OneHome, LiveOnce, ClosedIsDead, Recorded, Scan, Serving
<1>3. Scan'
  BY DEF Scan, Serving, Scanning, OldIdsDead, DoomedAhead, InTransaction, InAttrScan, Doomed, Home, OneHome, ClosedIsDead
<1>4. Pieces' BY DEF Pieces, InHand, InTransaction, Whole, Scan, Serving
<1>5. AnswerStands' BY DEF AnswerStands, Doomed
<1>6. ExitCause' BY DEF ExitCause, Doomed
<1> QED BY <1>1, <1>2, <1>3, <1>4, <1>5, <1>6

\* A header: no grant was outstanding.
LEMMA BeginRequestStep ==
    ASSUME IInv, NEW b \in Boots, NEW op \in Ops, BeginRequest(b, op)
    PROVE  IInv'
<1> USE ScewlAssumption DEF IInv, TypeOK, BeginRequest, serverVars
<1>1. TypeOK' BY DEF Pieces, InHand, Whole
<1>2. Home' BY DEF Home, OneHome, LiveOnce, ClosedIsDead, Recorded
<1>3. Scan'
  BY DEF Scan, Serving, Scanning, OldIdsDead, DoomedAhead, InTransaction, InAttrScan, Doomed
<1>4. Pieces' BY DEF Pieces, InHand, InTransaction, Whole
<1>5. AnswerStands' BY DEF AnswerStands, Doomed
<1>6. ExitCause' BY DEF ExitCause, Doomed
<1> QED BY <1>1, <1>2, <1>3, <1>4, <1>5, <1>6

\* A body completes the request.
LEMMA EndRequestStep ==
    ASSUME IInv, NEW b \in Boots, EndRequest(b)
    PROVE  IInv'
<1> USE ScewlAssumption DEF IInv, TypeOK, EndRequest, serverVars
<1>1. TypeOK' BY DEF Pieces, InHand, Whole
<1>2. Home' BY DEF Home, OneHome, LiveOnce, ClosedIsDead, Recorded
<1>3. Scan'
  BY DEF Scan, Serving, Scanning, OldIdsDead, DoomedAhead, InTransaction, InAttrScan, Doomed
<1>4. Pieces' BY DEF Pieces, InHand, InTransaction, Whole
<1>5. AnswerStands' BY DEF AnswerStands, Doomed
<1>6. ExitCause' BY DEF ExitCause, Doomed
<1> QED BY <1>1, <1>2, <1>3, <1>4, <1>5, <1>6

\* The device reads its answer.
LEMMA TakeReplyStep ==
    ASSUME IInv, NEW b \in Boots, TakeReply(b)
    PROVE  IInv'
<1> USE ScewlAssumption DEF IInv, TypeOK, TakeReply, serverVars
<1>1. TypeOK' OBVIOUS
<1>2. Home' BY DEF Home, OneHome, LiveOnce, ClosedIsDead, Recorded
<1>3. Scan'
  BY DEF Scan, Serving, Scanning, OldIdsDead, DoomedAhead, InTransaction, InAttrScan, Doomed
<1>4. Pieces' BY DEF Pieces, InHand, InTransaction, Whole
<1>5. AnswerStands' BY DEF AnswerStands, Doomed, Ops, REG, DEREG, None
<1>6. ExitCause' BY DEF ExitCause, Doomed
<1> QED BY <1>1, <1>2, <1>3, <1>4, <1>5, <1>6

\* A launch ends; its entry and its queued request stay.
LEMMA DisconnectStep ==
    ASSUME IInv, NEW b \in Boots, Disconnect(b)
    PROVE  IInv'
<1> USE ScewlAssumption DEF IInv, TypeOK, Disconnect, serverVars
<1>1. TypeOK' OBVIOUS
<1>2. Home' BY DEF Home, OneHome, LiveOnce, ClosedIsDead, Recorded
<1>3. Scan'
  BY DEF Scan, Serving, Scanning, OldIdsDead, DoomedAhead, InTransaction, InAttrScan, Doomed
<1>4. Pieces' BY DEF Pieces, InHand, InTransaction, Whole
<1>5. AnswerStands' BY DEF AnswerStands, Doomed, Ops, REG, DEREG, None
<1>6. ExitCause' BY DEF ExitCause, Doomed
<1> QED BY <1>1, <1>2, <1>3, <1>4, <1>5, <1>6

-----------------------------------------------------------------------------
(* The theorems.                                                           *)

\* Every step keeps the invariant.
THEOREM NextIInv == IInv /\ [Next]_vars => IInv'
<1> SUFFICES ASSUME IInv, [Next]_vars PROVE IInv' OBVIOUS
<1>1. CASE Server
  BY <1>1, AcceptConnStep, AcceptNoneStep, PollUnattrStep, UnattrDoneStep, PollAttrStep,
     AttrDoneStep, RecvStep, RecvEofStep, AnswerStep, AnswerBrokenPipeStep DEF Server
<1>2. ASSUME NEW b \in Boots, Client(b) PROVE IInv'
  BY <1>2, ConnectStep, BeginRequestStep, EndRequestStep, TakeReplyStep, DisconnectStep
     DEF Client
<1>3. CASE UNCHANGED vars
  <2> USE <1>3 DEF vars, IInv
  <2>1. TypeOK' BY DEF TypeOK
  <2>2. Home' BY DEF Home, OneHome, LiveOnce, ClosedIsDead, Recorded
  <2>3. Scan'
    BY DEF Scan, Serving, Scanning, OldIdsDead, DoomedAhead, InTransaction, InAttrScan,
           Doomed, Known
  <2>4. Pieces' BY DEF Pieces, InHand, InTransaction
  <2>5. AnswerStands' /\ ExitCause' BY DEF AnswerStands, ExitCause, Doomed
  <2> QED BY <2>1, <2>2, <2>3, <2>4, <2>5
<1> QED BY <1>1, <1>2, <1>3 DEF Next

\* The invariant holds throughout.
THEOREM SpecIInv == Spec => []IInv
BY InitIInv, NextIInv, PTL DEF Spec

\* The server's variables and its clients' keep their types.
THEOREM TypeCorrect == Spec => []TypeOK
<1>1. IInv => TypeOK BY DEF IInv
<1> QED BY <1>1, SpecIInv, PTL

\* A connection is in one place, and entries belong to their own devices.
THEOREM OneHomeAlways == Spec => []OneHome
<1>1. IInv => OneHome BY DEF IInv, Home
<1> QED BY <1>1, SpecIInv, PTL

\* The table tells live devices the truth, or is about to end the server.
THEOREM AnswersStand == Spec => []AnswerStands
<1>1. IInv => AnswerStands BY DEF IInv
<1> QED BY <1>1, SpecIInv, PTL

\* The server exits only on the entry of a launch that is over.
THEOREM ExitsForCause == Spec => []ExitCause
<1>1. IInv => ExitCause BY DEF IInv
<1> QED BY <1>1, SpecIInv, PTL

\* The only steps that change the table are the end of a transaction, for the
\* entry of the device served, and the deletion of old_ids.
LEMMA TableChanges ==
    ASSUME IInv, Next, NEW d \in Devices, devs'[d] # devs[d]
    PROVE  \/ AttrDone /\ d \in oldIds
           \/ /\ Answer \/ AnswerBrokenPipe
              /\ InTransaction /\ d = IdOf[cur] /\ devs'[d].csock = cur
<1>1. CASE UNCHANGED devs BY <1>1
<1>2. CASE AttrDone BY <1>2 DEF AttrDone
<1>3. CASE Answer \/ AnswerBrokenPipe
  <2>1. InTransaction BY <1>3 DEF Answer, AnswerBrokenPipe, InTransaction
  <2>2. devs' = recorded(cur, reqOp[cur])
    BY <1>3 DEF Answer, AnswerBrokenPipe, Returned, Raised, Leave
  <2> QED BY <1>3, <2>1, <2>2, Recording DEF Fits
<1>4. CASE RecvEof BY <1>4 DEF RecvEof, Raised, Leave
<1>5. ASSUME NEW b \in Boots, Client(b) PROVE UNCHANGED devs
  BY <1>5 DEF Client, Connect, BeginRequest, EndRequest, TakeReply, Disconnect, serverVars
<1> QED
  BY <1>1, <1>2, <1>3, <1>4, <1>5
     DEF Next, Server, AcceptConn, AcceptNone, PollUnattr, UnattrDone, PollAttr, Recv

\* A live launch keeps its entry, unless the queued request of a dead launch
\* of the same device replaces it by one that ends the server.
THEOREM HolderIsKept == Spec => HolderKept
<1>1. ASSUME IInv, Next, NEW d \in Devices,
             devs[d] # NoDev, devs'[d].csock # devs[d].csock
      PROVE  link[devs[d].csock] = "closed" \/ Doomed(d)'
  <2> DEFINE holder == devs[d].csock
  <2>1. holder \in Boots /\ IdOf[holder] = d /\ link[holder] \in {"open", "closed"}
    BY <1>1, Entry DEF IInv, Home, OneHome, Recorded, TypeOK
  <2>2. CASE AttrDone /\ d \in oldIds
    <3>1. devs[d].csock \in closed BY <1>1, <2>2 DEF IInv, Scan, OldIdsDead
    <3> QED BY <1>1, <3>1 DEF IInv, Home, ClosedIsDead
  <2>3. CASE InTransaction /\ d = IdOf[cur] /\ devs'[d].csock = cur /\ Answer
    <3>1. link[cur] = "open" /\ cur \in Boots BY <2>3, <1>1, Serves DEF Answer
    <3> QED BY <3>1, <2>1, <2>3, <1>1 DEF IInv, Home, LiveOnce
  <2>4. CASE InTransaction /\ d = IdOf[cur] /\ devs'[d].csock = cur /\ AnswerBrokenPipe
    <3>1. cur \in unattr BY <2>4, <1>1, Serves
    <3> QED BY <2>4, <3>1 DEF AnswerBrokenPipe, Raised, EnterAttr, Doomed
  <2>5. devs'[d] # devs[d] BY <1>1
  <2>6. \/ AttrDone /\ d \in oldIds
        \/ /\ Answer \/ AnswerBrokenPipe
           /\ InTransaction /\ d = IdOf[cur] /\ devs'[d].csock = cur
    BY <1>1, <2>5, TableChanges
  <2> QED BY <2>2, <2>3, <2>4, <2>6
<1>2. IInv /\ [Next]_vars =>
        [\A d \in Devices :
            devs[d] # NoDev /\ devs'[d].csock # devs[d].csock
                => link[devs[d].csock] = "closed" \/ Doomed(d)']_vars
  BY <1>1
<1> QED BY <1>2, SpecIInv, PTL DEF Spec, HolderKept

\* The server serves nobody whose entry is doomed.
LEMMA NoneServedDoomed ==
    ASSUME IInv, InTransaction, NEW d \in Devices, Doomed(d)
    PROVE  cur \notin unattr /\ cur \notin closed /\ d # IdOf[cur]
BY Serves DEF IInv, Scan, DoomedAhead, InAttrScan, InTransaction, Doomed

LEMMA DoomedFrozen ==
    ASSUME IInv, Next, NEW d \in Devices, Doomed(d)
    PROVE  devs'[d] = devs[d]
BY NoneServedDoomed, TableChanges DEF Doomed

\* A doomed entry is not touched before it ends the server.
THEOREM DoomedIsUntouched == Spec => DoomedUntouched
<1>1. IInv /\ [Next]_vars => [\A d \in Devices : Doomed(d) => devs'[d] = devs[d]]_vars
  BY DoomedFrozen
<1> QED BY <1>1, SpecIInv, PTL DEF Spec, DoomedUntouched

\* An entry that is doomed stays so.
LEMMA DoomedStays ==
    ASSUME IInv, Next, NEW d \in Devices, Doomed(d)
    PROVE  Doomed(d)'
<1>1. closed \subseteq closed'
  BY DEF Next, Server, AcceptConn, AcceptNone, PollUnattr, UnattrDone, PollAttr, AttrDone, Recv,
         RecvEof, Answer, AnswerBrokenPipe, Returned, Raised, Client, Connect, BeginRequest,
         EndRequest, TakeReply, Disconnect, serverVars
<1>2. CASE RecvEof \/ AnswerBrokenPipe
  <2>1. InTransaction BY <1>2 DEF RecvEof, AnswerBrokenPipe, InTransaction
  <2>2. oldIds' = oldIds \cup {IdOf[cur]}
    BY <1>2, <2>1, NoneServedDoomed DEF RecvEof, AnswerBrokenPipe, Raised
  <2> QED BY <1>1, <2>1, <2>2, NoneServedDoomed, DoomedFrozen DEF Doomed
<1>3. CASE ~(RecvEof \/ AnswerBrokenPipe)
  <2>1. oldIds' = oldIds \/ oldIds' = {}
    BY <1>3
    DEF Next, Server, AcceptConn, AcceptNone, PollUnattr, UnattrDone, PollAttr, AttrDone, Recv,
        Answer, Returned, EnterAttr, Client, Connect, BeginRequest, EndRequest, TakeReply,
        Disconnect, serverVars
  <2> QED BY <1>1, <2>1, DoomedFrozen DEF Doomed
<1> QED BY <1>2, <1>3

\* What the table says of a live launch, it says until that launch is answered
\* again, or the entry is doomed.
LEMMA EntryStays ==
    ASSUME IInv, Next, NEW b \in Boots, link[b] = "open", NEW op,
           devs[IdOf[b]] = [status |-> op, csock |-> b] \/ Doomed(IdOf[b]),
           ~(Answer /\ cur = b)
    PROVE  (devs[IdOf[b]] = [status |-> op, csock |-> b] \/ Doomed(IdOf[b]))'
<1> DEFINE d == IdOf[b]
<1>1. d \in Devices BY ScewlAssumption
<1>2. CASE Doomed(d) BY <1>1, <1>2, DoomedStays
<1>3. CASE devs[d] = [status |-> op, csock |-> b] /\ devs'[d] # devs[d]
  <2>1. CASE AttrDone /\ d \in oldIds
    <3>1. b \in closed BY <1>3, <2>1 DEF IInv, Scan, OldIdsDead
    <3> QED BY <3>1 DEF IInv, Home, ClosedIsDead
  <2>2. CASE InTransaction /\ d = IdOf[cur] /\ Answer
    <3>1. link[cur] = "open" /\ cur \in Boots BY <2>2, Serves DEF Answer
    <3> QED BY <2>2, <3>1 DEF IInv, Home, LiveOnce
  <2>3. CASE InTransaction /\ d = IdOf[cur] /\ devs'[d].csock = cur /\ AnswerBrokenPipe
    <3>1. cur # b BY <2>3 DEF AnswerBrokenPipe
    <3>2. cur \in unattr BY <1>3, <2>3, <3>1, Serves
    <3> QED BY <1>1, <2>3, <3>2 DEF AnswerBrokenPipe, Raised, EnterAttr, Doomed
  <2> QED BY <1>1, <1>3, <2>1, <2>2, <2>3, TableChanges
<1> QED BY <1>2, <1>3

\* The table gets an entry of a live launch only with an answer to it.
LEMMA EntryIsNews ==
    ASSUME IInv, Next, NEW b \in Boots, link[b] = "open", ~(Answer /\ cur = b),
           devs'[IdOf[b]].csock = b
    PROVE  devs'[IdOf[b]] = devs[IdOf[b]]
<1> DEFINE d == IdOf[b]
<1>1. d \in Devices /\ b # None BY ScewlAssumption
<1>2. CASE AttrDone /\ d \in oldIds BY <1>1, <1>2 DEF AttrDone, NoDev
<1>3. CASE AnswerBrokenPipe /\ devs'[d].csock = cur BY <1>3 DEF AnswerBrokenPipe
<1> QED BY <1>1, <1>2, <1>3, TableChanges

\* An answer to b repeats what the table says, or makes the table say it.
LEMMA AnswerSays ==
    ASSUME IInv, Answer
    PROVE  LET d == IdOf[cur] IN
           /\ d \in Devices /\ ~Doomed(d)
           /\ \/ devs' = devs /\ devs[d].status = reqOp[cur] /\ resp_op(cur, reqOp[cur]) = ALREADY
              \/ /\ devs[d].status # reqOp[cur]
                 /\ devs'[d] = [status |-> reqOp[cur], csock |-> cur]
                 /\ resp_op(cur, reqOp[cur]) = reqOp[cur]
<1>1. InTransaction BY DEF Answer, InTransaction
<1>2. cur \in Boots /\ IdOf[cur] \in Devices BY <1>1, Serves
<1>3. devs' = recorded(cur, reqOp[cur]) BY DEF Answer, Returned, Leave
<1> QED
  BY <1>1, <1>2, <1>3, NoneServedDoomed DEF recorded, repeated, resp_op, IInv, TypeOK

-----------------------------------------------------------------------------
(* The SSS keeps the Registrar's promise.                                  *)

\* Both modules speak of the same things.
LEMMA SameWords ==
    /\ Promise!Whole = Whole /\ Promise!NoDev = NoDev
    /\ Promise!Ops = Ops /\ Promise!None = None
    /\ Promise!REG = REG /\ Promise!ALREADY = ALREADY
BY DEF Promise!Whole, Whole, Promise!NoDev, NoDev, Promise!Ops, Ops, Promise!REG, REG,
       Promise!DEREG, DEREG, Promise!ALREADY, ALREADY, Promise!None, None,
       Promise!Absent, Absent

\* The steps that only look, and move pieces from the socket to the server.
LEMMA LookingStep ==
    ASSUME IInv, NEW b, NEW d,
           \/ AcceptConn(b) \/ PollUnattr(b) \/ AcceptNone \/ UnattrDone \/ Recv
           \/ PollAttr(d) /\ sssPc' \in {"recv", "attr"}
    PROVE  UNCHANGED Promise!vars
<1> USE ScewlAssumption
<1>1. UNCHANGED <<link, phase, reqOp, reply, devs>>
  BY DEF AcceptConn, PollUnattr, AcceptNone, UnattrDone, Recv, PollAttr, clientVars
<1>2. sssPc # "exited" /\ sssPc' # "exited"
  BY DEF AcceptConn, PollUnattr, AcceptNone, UnattrDone, Recv, PollAttr, EnterUnattr,
         EnterAttr, StartTransaction
<1>3. ASSUME NEW c \in Boots PROVE arrived'[c] + InHand(c)' = arrived[c] + InHand(c)
  <2>1. CASE Recv
    <3>1. cur \in Boots /\ arrived \in [Boots -> 0..Whole] /\ got \in 0..Whole
      BY <2>1 DEF IInv, TypeOK, Scan, Serving, InTransaction, Recv
    <3> QED BY <2>1, <3>1 DEF Recv, InHand, InTransaction, Whole
  <2>2. CASE ~Recv
    <3>1. arrived' = arrived /\ arrived[c] \in Nat
      BY <2>2 DEF AcceptConn, PollUnattr, AcceptNone, UnattrDone, PollAttr, clientVars,
                  IInv, TypeOK
    <3>2. InHand(c) = 0 /\ InHand(c)' = 0
      BY <2>2 DEF AcceptConn, PollUnattr, AcceptNone, UnattrDone, PollAttr, EnterUnattr,
                  EnterAttr, StartTransaction, InHand, InTransaction
    <3> QED BY <3>1, <3>2
  <2> QED BY <2>1, <2>2
<1>4. UNCHANGED Unserved BY <1>3 DEF Unserved
<1> QED BY <1>1, <1>2, <1>4 DEF Promise!vars

\* A transaction's end leaves nothing of the request unserved, and does not
\* bring the server down.
LEMMA EndsService ==
    ASSUME IInv, InTransaction, NEW table, Returned(table) \/ Raised(table),
           UNCHANGED arrived, arrived[cur] = 0
    PROVE  /\ cur \in Boots
           /\ Unserved' = [Unserved EXCEPT ![cur] = 0]
           /\ Unserved[cur] = got
           /\ devs' = table /\ sssPc # "exited" /\ sssPc' # "exited"
<1> USE ScewlAssumption
<1>1. cur \in Boots /\ got \in Nat BY Serves DEF IInv, TypeOK, Whole
<1>2. cur' = None /\ got' = 0 /\ sssPc' = "attr" /\ devs' = table
  BY DEF Returned, Raised, Leave, EnterAttr
<1>3. \A b \in Boots : InHand(b)' = 0 /\ arrived[b] \in Nat
  BY <1>2 DEF InHand, InTransaction, IInv, TypeOK, Whole
<1>4. \A b \in Boots \ {cur} : InHand(b) = 0 BY DEF InHand
<1>5. InHand(cur) = got BY DEF InHand
<1>6. Unserved[cur] = got BY <1>1, <1>5 DEF Unserved
<1>7. ASSUME NEW b \in Boots
      PROVE  arrived'[b] + InHand(b)' = IF b = cur THEN 0 ELSE arrived[b] + InHand(b)
  BY <1>3, <1>4
<1>8. Unserved' = [Unserved EXCEPT ![cur] = 0] BY <1>1, <1>7 DEF Unserved
<1> QED BY <1>1, <1>2, <1>6, <1>8 DEF InTransaction

\* An answer that is sent is the service of a request.
LEMMA AnswerServes ==
    ASSUME IInv, Answer
    PROVE  Promise!Serve(cur)
<1> DEFINE table == recorded(cur, reqOp[cur])
<1>1. InTransaction /\ got = Whole /\ sssPc = "answer"
  BY DEF Answer, InTransaction, IInv, Pieces
<1>2. cur \in Boots /\ IdOf[cur] \in Devices BY <1>1, Serves
<1>3. arrived[cur] = 0
  BY <1>1, <1>2 DEF IInv, Pieces, TypeOK, InHand, Whole
<1>4. Returned(table) /\ UNCHANGED arrived BY DEF Answer
<1>5. /\ Unserved' = [Unserved EXCEPT ![cur] = 0] /\ Unserved[cur] = Whole
      /\ devs' = table /\ sssPc # "exited" /\ sssPc' # "exited"
  BY <1>1, <1>3, <1>4, EndsService
<1>6. Promise!Record(cur)
  BY <1>5, SameWords DEF Promise!Record, Promise!Repeats, recorded, repeated
<1>7. reply' = [reply EXCEPT ![cur] = IF Promise!Repeats(cur) THEN ALREADY ELSE reqOp[cur]]
  BY DEF Answer, resp_op, repeated, Promise!Repeats
<1> QED BY <1>5, <1>6, <1>7, SameWords DEF Answer, Promise!Serve

\* So is one that cannot be sent, for a device that has gone.
LEMMA BrokenPipeServes ==
    ASSUME IInv, AnswerBrokenPipe
    PROVE  Promise!ServeDead(cur)
<1> DEFINE table == recorded(cur, reqOp[cur])
<1>1. InTransaction /\ got = Whole /\ sssPc = "answer"
  BY DEF AnswerBrokenPipe, InTransaction, IInv, Pieces
<1>2. cur \in Boots /\ IdOf[cur] \in Devices BY <1>1, Serves
<1>3. arrived[cur] = 0
  BY <1>1, <1>2 DEF IInv, Pieces, TypeOK, InHand, Whole
<1>4. Raised(table) /\ UNCHANGED <<link, phase, reqOp, arrived, reply>>
  BY DEF AnswerBrokenPipe, clientVars
<1>5. /\ Unserved' = [Unserved EXCEPT ![cur] = 0] /\ Unserved[cur] = Whole
      /\ devs' = table /\ sssPc # "exited" /\ sssPc' # "exited"
  BY <1>1, <1>3, <1>4, EndsService
<1>6. Promise!Record(cur)
  BY <1>5, SameWords DEF Promise!Record, Promise!Repeats, recorded, repeated
<1> QED BY <1>4, <1>5, <1>6 DEF AnswerBrokenPipe, Promise!ServeDead

\* A device that hung up before its request was complete is not served.
LEMMA EofDiscards ==
    ASSUME IInv, RecvEof
    PROVE  Promise!Discard(cur)
<1>1. InTransaction /\ sssPc = "recv" /\ got < Whole /\ arrived[cur] = 0
  BY DEF RecvEof, InTransaction, IInv, Pieces
<1>2. Raised(devs) /\ UNCHANGED <<link, phase, reqOp, arrived, reply>>
  BY DEF RecvEof, clientVars
<1>3. /\ Unserved' = [Unserved EXCEPT ![cur] = 0] /\ Unserved[cur] = got
      /\ devs' = devs /\ sssPc # "exited" /\ sssPc' # "exited"
  BY <1>1, <1>2, EndsService
<1> QED BY <1>1, <1>2, <1>3, SameWords DEF RecvEof, Promise!Discard

\* Outside a transaction nothing is in the server's hands.
LEMMA UnservedOutside ==
    ASSUME IInv, ~InTransaction, ~InTransaction', UNCHANGED arrived
    PROVE  UNCHANGED Unserved
BY DEF Unserved, InHand

\* Old entries are entries whose connection has ended.
LEMMA AttrDoneForgets ==
    ASSUME IInv, AttrDone
    PROVE  Promise!Forget(oldIds) /\ oldIds \in SUBSET Devices
<1> USE ScewlAssumption
<1>1. oldIds \in SUBSET Devices BY DEF IInv, TypeOK
<1>2. ASSUME NEW d \in oldIds PROVE devs[d] # NoDev /\ link[devs[d].csock] = "closed"
  BY <1>1, <1>2 DEF IInv, Scan, OldIdsDead, Home, ClosedIsDead, TypeOK, NoDev
<1>3. UNCHANGED Unserved
  BY UnservedOutside DEF AttrDone, InTransaction, clientVars
<1> QED BY <1>1, <1>2, <1>3, SameWords DEF AttrDone, clientVars, Promise!Forget

\* A poll of an entry is a look at it, or finds one that ends the server.
LEMMA PollAttrLooks ==
    ASSUME IInv, NEW d \in Devices, PollAttr(d)
    PROVE  UNCHANGED Promise!vars \/ Promise!GoDown
<1> USE ScewlAssumption
<1>1. CASE devs[d].csock \in closed
  <2>1. sssPc' = "exited" /\ sssPc = "attr" /\ UNCHANGED <<clientVars, devs>>
    BY <1>1 DEF PollAttr
  <2>2. devs[d] # NoDev /\ link[devs[d].csock] = "closed"
    BY <1>1 DEF IInv, Home, ClosedIsDead, TypeOK, NoDev
  <2>3. UNCHANGED Unserved
    BY <2>1, UnservedOutside DEF InTransaction, clientVars
  <2> QED BY <2>1, <2>2, <2>3, SameWords DEF clientVars, Promise!GoDown
<1>2. CASE devs[d].csock \notin closed
  <2>1. sssPc' \in {"recv", "attr"} BY <1>2 DEF PollAttr, StartTransaction
  <2> QED BY <2>1, LookingStep
<1> QED BY <1>1, <1>2

\* The devices' steps are the devices' steps.
LEMMA ClientRefines ==
    ASSUME IInv, NEW b \in Boots, Client(b)
    PROVE  Promise!Client(b)
<1> USE ScewlAssumption
<1>1. UNCHANGED <<devs, sssPc, cur, got>>
  BY DEF Client, Connect, BeginRequest, EndRequest, TakeReply, Disconnect, serverVars
<1>2. \A c \in Boots : InHand(c)' = InHand(c) /\ InHand(c) \in Nat /\ arrived[c] \in Nat
  BY <1>1 DEF InHand, InTransaction, IInv, TypeOK, Whole
<1>3. UNCHANGED arrived => UNCHANGED Unserved BY <1>2 DEF Unserved
<1>4. CASE Connect(b)
  BY <1>1, <1>3, <1>4 DEF Connect, Promise!Client, Promise!Connect
<1>5. ASSUME NEW op \in Ops, BeginRequest(b, op) PROVE Promise!BeginRequest(b, op)
  <2>1. arrived[b] + InHand(b) = 0
    BY <1>5 DEF BeginRequest, IInv, Pieces
  <2>2. \A c \in Boots : arrived'[c] + InHand(c)' = IF c = b THEN 1 ELSE arrived[c] + InHand(c)
    BY <1>2, <1>5, <2>1 DEF BeginRequest, IInv, TypeOK
  <2>3. Unserved' = [Unserved EXCEPT ![b] = 1] BY <2>2 DEF Unserved
  <2> QED BY <1>1, <1>5, <2>3 DEF BeginRequest, Promise!BeginRequest
<1>6. CASE EndRequest(b)
  <2>1. arrived[b] + InHand(b) = 1
    BY <1>6 DEF EndRequest, IInv, Pieces
  <2>2. \A c \in Boots : arrived'[c] + InHand(c)' = IF c = b THEN 2 ELSE arrived[c] + InHand(c)
    BY <1>2, <1>6, <2>1 DEF EndRequest, IInv, TypeOK
  <2>3. Unserved' = [Unserved EXCEPT ![b] = 2] BY <2>2 DEF Unserved
  <2>4. Promise!Whole = 2 BY SameWords DEF Whole
  <2>5. Promise!EndRequest(b)
    BY <1>1, <1>6, <2>3, <2>4 DEF EndRequest, Promise!EndRequest
  <2> QED BY <2>5 DEF Promise!Client
<1>7. CASE TakeReply(b)
  BY <1>1, <1>3, <1>7, SameWords DEF TakeReply, Promise!Client, Promise!TakeReply
<1>8. CASE Disconnect(b)
  BY <1>1, <1>3, <1>8, SameWords DEF Disconnect, Promise!Client, Promise!Disconnect
<1>9. CASE \E op \in Ops : BeginRequest(b, op)
  <2>1. PICK op \in Ops : BeginRequest(b, op) BY <1>9
  <2>2. Promise!BeginRequest(b, op) BY <1>5, <2>1
  <2> QED BY <2>2, SameWords DEF Promise!Client
<1> QED BY <1>4, <1>6, <1>7, <1>8, <1>9 DEF Client

\* Every step is a step of the Registrar or leaves what it speaks of alone.
LEMMA StepRefines ==
    ASSUME IInv, [Next]_vars
    PROVE  [Promise!Next]_(Promise!vars)
<1> USE ScewlAssumption
<1>1. CASE Answer \/ AnswerBrokenPipe \/ RecvEof
  <2>1. cur \in Boots
    BY <1>1, Serves DEF Answer, AnswerBrokenPipe, RecvEof, InTransaction
  <2> QED BY <1>1, <2>1, AnswerServes, BrokenPipeServes, EofDiscards
    DEF Promise!Next, Promise!Server
<1>2. CASE AttrDone BY <1>2, AttrDoneForgets DEF Promise!Next, Promise!Server
<1>3. ASSUME NEW d \in Devices, PollAttr(d) PROVE [Promise!Next]_(Promise!vars)
  BY <1>3, PollAttrLooks DEF Promise!Next, Promise!Server
<1>4. CASE Recv \/ AcceptNone \/ UnattrDone
  BY <1>4, LookingStep
<1>5. ASSUME NEW b \in Boots, AcceptConn(b) \/ PollUnattr(b)
      PROVE  [Promise!Next]_(Promise!vars)
  BY <1>5, LookingStep
<1>6. ASSUME NEW b \in Boots, Client(b) PROVE [Promise!Next]_(Promise!vars)
  BY <1>6, ClientRefines DEF Promise!Next
<1>7. CASE UNCHANGED vars
  <2>1. UNCHANGED Unserved BY <1>7 DEF vars, Unserved, InHand, InTransaction
  <2> QED BY <1>7, <2>1 DEF vars, Promise!vars
<1> QED BY <1>1, <1>2, <1>3, <1>4, <1>5, <1>6, <1>7 DEF Next, Server

\* For any devices and launches, the server is a Registrar: a table whose
\* entries change by whole requests served one at a time, and are dropped only
\* when the launch that made them is over.
THEOREM SssIsRegistrar == Spec => IsRegistrar
<1>1. Init => Promise!Init
  <2> SUFFICES ASSUME Init PROVE Promise!Init OBVIOUS
  <2>1. Unserved = [b \in Boots |-> 0]
    BY DEF Init, ClientInit, ServerInit, Unserved, InHand, InTransaction
  <2> QED BY <2>1, SameWords
    DEF Init, ClientInit, ServerInit, Promise!Init, Promise!ClientInit, Promise!TableInit
<1>2. IInv /\ [Next]_vars => [Promise!Next]_(Promise!vars) BY StepRefines
<1> QED BY <1>1, <1>2, SpecIInv, PTL DEF Spec, IsRegistrar, Promise!Spec
=============================================================================
