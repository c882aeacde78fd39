------------------------ MODULE MCSimulcastConsumer ------------------------
(***************************************************************************)
(* Two spatial and two temporal layers; the Sender Reports of the second   *)
(* stream are off by one; streams are dead, bad or good, and the second    *)
(* one may have no bitrate.  Timestamps have two bits, and they wrap       *)
(* between the two capture times.                                          *)
(***************************************************************************)
EXTENDS SimulcastConsumer

MCBase == [s \in Spatial |-> 3]
MCSkew == [s \in Spatial |-> s]
MCPreferable == {<<0, 0>>, <<1, 1>>}
MCRates == {[s \in Spatial |-> [t \in Temporal |-> 1]],
            [s \in Spatial |-> [t \in Temporal |-> IF s = 0 THEN 1 ELSE 0]]}
=============================================================================
