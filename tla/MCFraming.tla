----------------------------- MODULE MCFraming -----------------------------
(* Bytes of two bits.  Bodies are shorter than the buffer, as long, longer  *)
(* and much longer, with and without the magic in them.  The noise holds    *)
(* bytes of both magics, and a whole one of the man in the middle.          *)
EXTENDS Framing

part(z, t, id, b) == [noise |-> z, ty |-> t, src |-> id, body |-> b]

\* S is 3, C is 2 and M is 1 in the configurations.
First ==
    {part(z, t, 1, b) : z \in {<<>>, <<3>>, <<2, 0, 3, 3>>, <<3, 1>>, <<1, 1, 0>>},
                        t \in {SCEWL_MAGIC, MITM_MAGIC},
                        b \in {<<1>>, <<3, 2>>, <<0, 1, 2, 0>>, <<1, 3, 2, 1, 1>>}}
Second ==
    {part(z, t, s, b) : z \in {<<>>, <<2, 3>>}, t \in {SCEWL_MAGIC, MITM_MAGIC},
                        s \in {2, 3}, b \in {<<>>, <<1, 0>>, <<3, 2, 1>>}}
MCFeeds == {<<p, q>> : p \in First, q \in Second}
=============================================================================
