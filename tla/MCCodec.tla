------------------------------ MODULE MCCodec ------------------------------
(***************************************************************************)
(* Instance of Codec for TLC: the codec's sample rate and the server's,    *)
(* with one frame duration, and a ring that one frame goes round.          *)
(***************************************************************************)
EXTENDS Codec

Ours == [rate |-> 16, duration |-> 60]
Default == [rate |-> 24, duration |-> 60]
MCFormats == {Ours, Default}
=============================================================================
