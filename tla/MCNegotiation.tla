---------------------------- MODULE MCNegotiation ---------------------------
(* Channels between two ranks for TLC. *)
EXTENDS Negotiation

\* Compatible orders, crossed for every two channels but 1 and 2; rank A
\* drives channels before and after the one it does not drive.  Channels 2
\* and 3 have one driver and different numbers, so that their threads may swap
\* them; channels 1 and 3 use one tag in opposite directions.
CrossedOrder == [A |-> <<2, 1, 3>>, B |-> <<3, 2, 1>>]
CrossedDriver == <<"B", "A", "A">>
CrossedSender == <<"A", "A", "B">>
CrossedNumbers == <<<<2, 1>>, <<1, 3>>, <<2, 2>>>>
CrossedTag == <<0, 2, 0>>

\* Two channels with the same driver and different numbers.
SharedOrder == [A |-> <<1, 2>>, B |-> <<1, 2>>]
SharedDriver == <<"A", "A">>
SharedNumbers == <<<<2, 1>>, <<1, 3>>>>
SharedTag == <<0, 2>>
=============================================================================
