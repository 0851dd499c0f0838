------------------------- MODULE MCCurlMultiEngine -------------------------
(* CurlMultiEngine for TLC: t1 can be cancelled, the others end by their    *)
(* deadline, the network or a shutdown.                                     *)
EXTENDS CurlMultiEngine

MCTransfers == {"t1", "t2"}
MCCancellable == {"t1"}
MCRequesters == {"r1"}
=============================================================================
