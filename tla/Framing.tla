------------------------------ MODULE Framing ------------------------------
(***************************************************************************)
(* How messages are found in a stream of bytes: read_msg of the controller *)
(* (controller/controller.c, over intf_read of interface.c) and scewl_recv *)
(* of the CPU's driver (scewl_bus_driver.c, over full_read and read).      *)
(* The two follow the same plan and differ in what they do when a byte is  *)
(* not there.  The radio waves emulator does it in a third way: its        *)
(* deserialize works on the bytes received so far, and leaves them where   *)
(* they are until a message is complete.  One of the three is called       *)
(* again and again on one port, while the other end writes, and may hang   *)
(* up on the driver.                                                       *)
(*                                                                         *)
(* Each byte is read by a step of its own, since the next one may or may   *)
(* not have arrived by then.  A byte has one of Base values.  The header   *)
(* is the magic, one byte for the two identifiers, and the two of len.     *)
(*                                                                         *)
(* The emulator knows a second magic, that of the messages a man in the    *)
(* middle puts a header of his own in front of.                            *)
(***************************************************************************)
EXTENDS Naturals, Sequences, SequencesExt, Selecting

CONSTANTS
    Base,      \* the values of a byte are 0..Base-1
    S, C,      \* the bytes of the magic
    M,         \* the byte of the man in the middle's magic
    n,         \* the size of the caller's buffer
    Feeds      \* what may be written: sequences of messages after noise

Byte == 0..(Base - 1)

\* A body's length is a number of two bytes.
Body == {b \in Seq(Byte) : Len(b) < Base * Base}

SCEWL_MAGIC == <<S, C>>
MITM_MAGIC  == <<M, M>>
Part == [noise : Seq(Byte), ty : {SCEWL_MAGIC, MITM_MAGIC}, src : Byte, body : Body]

ASSUME FramingAssumption ==
    /\ Base \in Nat \ {0} /\ n \in Nat
    /\ {S, C, M} \subseteq Byte /\ S # C /\ M \notin {S, C}
    /\ \A feed \in Feeds : feed \in Seq(Part)

VARIABLES
    feed, whole,    \* what is written, and whether a message arrives at once
    fn, blocking,   \* which function reads it, and how
    coming,    \* what has not arrived yet, in the pieces it arrives in
    wire,      \* bytes that can be read
    eof,       \* the other end has hung up
    pc,        \* the place in the function
    hdr,       \* bytes of the header after the magic
    data,      \* what has been put in the caller's buffer
    skipped,   \* how far the loop that throws away the rest has come
    res,       \* FALSE once it is clear that SCEWL_NO_MSG is returned
    got        \* the messages returned so far

setup == <<feed, whole, fn, blocking>>
port  == <<coming, wire, eof>>
vars  == <<feed, whole, fn, blocking, coming, wire, eof, pc, hdr, data,
           skipped, res, got>>

\* send_msg, scewl_send and mitm.py: what a message looks like on the wire.
Header(p) == p.ty \o <<p.src, Len(p.body) % Base, Len(p.body) \div Base>>
Frame(p) == p.noise \o Header(p) \o p.body

Functions == {"read_msg", "scewl_recv", "deserialize"}

\* raw_hdr is what the emulator sends on in front of the body.
Message == [raw_hdr : Seq(Byte), src : Byte, body : Seq(Byte)]

TypeOK ==
    /\ feed \in Feeds /\ whole \in BOOLEAN
    /\ fn \in Functions /\ blocking \in BOOLEAN
    /\ \A i \in DOMAIN coming : coming[i] \in Seq(Byte)
    /\ wire \in Seq(Byte)
    /\ eof \in BOOLEAN
    /\ pc \in {"magicS", "magicC", "header", "body", "rest"}
    /\ hdr \in Seq(Byte) /\ Len(hdr) <= 3
    /\ data \in Seq(Byte) /\ Len(data) <= n
    /\ skipped \in Nat
    /\ res \in BOOLEAN
    /\ \A i \in DOMAIN got : got[i] \in Message

frames == [i \in DOMAIN feed |-> Frame(feed[i])]
bytewise(seq) == [i \in DOMAIN seq |-> <<seq[i]>>]

Init ==
    /\ feed \in Feeds /\ whole \in BOOLEAN
    /\ fn \in Functions /\ blocking \in (IF fn = "deserialize" THEN {FALSE} ELSE BOOLEAN)
    /\ fn # "deserialize" => \A i \in DOMAIN feed : feed[i].ty = SCEWL_MAGIC
    /\ coming = IF whole THEN frames ELSE bytewise(FlattenSeq(frames))
    /\ wire = <<>> /\ eof = FALSE
    /\ pc = "magicS" /\ hdr = <<>> /\ data = <<>> /\ skipped = 0 /\ res = TRUE
    /\ got = <<>>

-----------------------------------------------------------------------------
(* The other end.                                                          *)

Arrive ==
    /\ coming # <<>>
    /\ wire' = wire \o Head(coming)
    /\ coming' = Tail(coming)
    /\ UNCHANGED <<setup, eof, pc, hdr, data, skipped, res, got>>

\* A controller's port stays open; QEMU is at its other end.  The driver's
\* peer has read what the driver wrote, so that it is the end of the stream and
\* not ECONNRESET that the driver sees.
HangUp ==
    /\ fn = "scewl_recv"
    /\ ~eof /\ eof' = TRUE
    /\ coming' = <<>>
    /\ UNCHANGED <<setup, wire, pc, hdr, data, skipped, res, got>>

-----------------------------------------------------------------------------
(* The readers.                                                            *)

Take == wire # <<>> /\ wire' = Tail(wire) /\ UNCHANGED <<coming, eof>>
byte == Head(wire)

\* A read that may wait returns without a byte only at the end of the stream.
NoByte(wait) == wire = <<>> /\ (wait => eof) /\ UNCHANGED port

len ==
    (IF Len(hdr) > 1 THEN hdr[2] ELSE 0) + (IF Len(hdr) > 2 THEN Base * hdr[3] ELSE 0)
max_unbounded == len
max == IF len < n THEN len ELSE n
rest == len - max          \* what is thrown away
src == IF hdr = <<>> THEN 0 ELSE hdr[1]

\* The call returns; the next one starts from nothing.
Return ==
    /\ pc' = "magicS" /\ hdr' = <<>> /\ data' = <<>> /\ skipped' = 0 /\ res' = TRUE

FindS ==
    /\ pc = "magicS"
    /\ Take
    /\ pc' = IF byte = S THEN "magicC" ELSE "magicS"
    /\ UNCHANGED <<setup, hdr, data, skipped, res, got>>

\* Any byte but another S ends the search: one of the two is enough.
FindC_anyByte ==
    /\ pc = "magicC"
    /\ Take
    /\ pc' = "header"
    /\ UNCHANGED <<setup, hdr, data, skipped, res, got>>
FindC ==
    /\ pc = "magicC"
    /\ Take
    /\ pc' = IF byte = S THEN "magicC" ELSE "header"
    /\ UNCHANGED <<setup, hdr, data, skipped, res, got>>

\* Nothing there in the search: SCEWL_NO_MSG.
FindNothing ==
    /\ pc \in {"magicS", "magicC"}
    /\ NoByte(blocking)
    /\ Return
    /\ UNCHANGED <<setup, got>>

ReadHeader ==
    /\ pc = "header"
    /\ Take
    /\ hdr' = Append(hdr, byte)
    /\ pc' = IF Len(hdr') = 3 THEN "body" ELSE "header"
    /\ UNCHANGED <<setup, data, skipped, res, got>>

\* read_msg gives up.  scewl_recv goes on, and if not even the first byte was
\* there takes full_read's -1, compared as a size_t, for a whole header.
HeaderMissing ==
    /\ pc = "header"
    /\ NoByte(blocking)
    /\ \/ fn = "read_msg" /\ Return
       \/ /\ fn = "scewl_recv"
          /\ res' = (hdr = <<>> /\ ~eof)
          /\ pc' = "body"
          /\ UNCHANGED <<hdr, data, skipped>>
    /\ UNCHANGED <<setup, got>>

ReadBody ==
    /\ pc = "body" /\ Len(data) < max
    /\ Take
    /\ data' = Append(data, byte)
    /\ UNCHANGED <<setup, pc, hdr, skipped, res, got>>

BodyMissing_unnoticed ==
    /\ pc = "body" /\ Len(data) < max
    /\ NoByte(blocking)
    /\ pc' = "rest"
    /\ UNCHANGED <<setup, hdr, data, skipped, res, got>>
BodyMissing ==
    /\ pc = "body" /\ Len(data) < max
    /\ NoByte(blocking)
    /\ pc' = "rest" /\ res' = FALSE
    /\ UNCHANGED <<setup, hdr, data, skipped, got>>

\* Each turn of the loop that throws away the rest reads a byte if there is
\* one.  The driver's read waits for it in a blocking call, the controller's
\* never does.
AtRest == pc = "rest" \/ (pc = "body" /\ Len(data) = max)
SkipByte ==
    /\ AtRest /\ skipped < rest
    /\ Take \/ NoByte(blocking /\ fn = "scewl_recv")
    /\ pc' = "rest" /\ skipped' = skipped + 1
    /\ UNCHANGED <<setup, hdr, data, res, got>>

Finish ==
    /\ AtRest /\ skipped = rest
    /\ got' = IF res THEN Append(got, [raw_hdr |-> <<>>, src |-> src, body |-> data]) ELSE got
    /\ Return
    /\ UNCHANGED <<setup, port>>

\* deserialize drops bytes until a magic is in front, or no more are left than
\* a magic has.
Scanned_forSC(buf) ==
    LET at == {i \in DOMAIN buf : Len(buf) - i < 2 \/ SubSeq(buf, i, i + 1) = SCEWL_MAGIC}
    IN  IF buf = <<>> THEN buf ELSE SubSeq(buf, Min(at), Len(buf))
Scanned(buf) ==
    LET at == {i \in DOMAIN buf :
                  Len(buf) - i < 2 \/ SubSeq(buf, i, i + 1) \in {SCEWL_MAGIC, MITM_MAGIC}}
    IN  IF buf = <<>> THEN buf ELSE SubSeq(buf, Min(at), Len(buf))

\* A message is returned when all of it is there, whatever its size.  A man in
\* the middle's header is not sent on.
Deserialize ==
    LET buf  == Scanned(wire)
        size == 5 + buf[4] + Base * buf[5]
    IN  /\ IF Len(buf) >= 5 /\ Len(buf) >= size
           THEN /\ got' = Append(got,
                       [raw_hdr |-> IF SubSeq(buf, 1, 2) = MITM_MAGIC THEN <<>> ELSE SubSeq(buf, 1, 5),
                        src |-> buf[3], body |-> SubSeq(buf, 6, size)])
                /\ wire' = SubSeq(buf, size + 1, Len(buf))
           ELSE wire' = buf /\ buf # wire /\ UNCHANGED got
        /\ UNCHANGED <<setup, coming, eof, pc, hdr, data, skipped, res>>

Reader ==
    \/ /\ fn \in {"read_msg", "scewl_recv"}
       /\ \/ FindS \/ FindC \/ FindNothing
          \/ ReadHeader \/ HeaderMissing
          \/ ReadBody \/ BodyMissing
          \/ SkipByte \/ Finish
    \/ fn = "deserialize" /\ Deserialize

Next == Arrive \/ HangUp \/ Reader

Spec == Init /\ [][Next]_vars

\* What is written arrives, and the reader's caller keeps calling.
FairSpec == Spec /\ WF_vars(Arrive) /\ WF_vars(Reader)

-----------------------------------------------------------------------------
(* What the readers should return.                                         *)

fits(p) == fn = "deserialize" \/ Len(p.body) <= n
Expected == [i \in DOMAIN feed |->
                [raw_hdr |-> IF fn = "deserialize" /\ feed[i].ty = SCEWL_MAGIC
                             THEN Header(feed[i]) ELSE <<>>,
                 src |-> feed[i].src,
                 body |-> IF fits(feed[i]) THEN feed[i].body ELSE SubSeq(feed[i].body, 1, n)]]

\* The noise does not start a message.  To read_msg and scewl_recv every S does
\* that another byte comes after: S appears in the noise only as a run of S at
\* its end, which the search must not stumble over.  To deserialize both magics
\* do, those too that the noise's last byte forms with the message's first.
QuietNoise ==
    \A p \in DOMAIN feed : \A i \in DOMAIN feed[p].noise :
        IF fn = "deserialize"
        THEN SubSeq(feed[p].noise \o feed[p].ty, i, i + 1) \notin {SCEWL_MAGIC, MITM_MAGIC}
        ELSE feed[p].noise[i] = S => \A j \in i..Len(feed[p].noise) : feed[p].noise[j] = S

\* S appears nowhere but in the magic.
SOnlyInMagic ==
    \A p \in DOMAIN feed :
        S \notin {feed[p].src, Len(feed[p].body) % Base, Len(feed[p].body) \div Base}
                    \cup {feed[p].noise[i] : i \in DOMAIN feed[p].noise}
                    \cup {feed[p].body[i] : i \in DOMAIN feed[p].body}

\* Every byte is there when it is wanted, or waited for.
NoGaps ==
    \/ whole \/ fn = "deserialize"
    \/ blocking /\ (fn = "scewl_recv" \/ \A p \in DOMAIN feed : fits(feed[p]))

\* Without gaps the stream is cut where the writer put it together: what is
\* returned are the messages written, in order, each cut to the buffer's size,
\* whatever their bytes are and whatever quiet noise lies between them.  The
\* emulator also takes the two magics for what they are.
InSync == QuietNoise /\ NoGaps => IsPrefix(got, Expected)

\* And they all are, unless the other end hangs up.
AllReturned == QuietNoise /\ NoGaps ~> Len(got) = Len(feed) \/ eof

\* What a non-blocking scewl_recv returns that finds the magic and nothing
\* after it yet: the -1 of full_read passes for a whole header.
Empty == [raw_hdr |-> <<>>, src |-> 0, body |-> <<>>]
Genuine ==
    IF fn = "scewl_recv" /\ ~blocking THEN Select(got, Message \ {Empty}) ELSE got

\* With gaps messages are lost, but as long as S is nowhere but in the magic
\* none is cut short, mixed with another, returned twice or out of turn: what
\* is returned are messages that were written, in their order, and Empty is
\* all that is ever made up.  deserialize, which has no gaps, makes up nothing
\* if the noise starts no message.
NothingMadeUp ==
    (IF fn = "deserialize" THEN QuietNoise ELSE SOnlyInMagic) =>
        \E f \in [DOMAIN Genuine -> DOMAIN feed] :
            \A i \in DOMAIN Genuine :
                /\ Genuine[i] = Expected[f[i]]
                /\ \A j \in DOMAIN Genuine : i < j => f[i] < f[j]
=============================================================================
