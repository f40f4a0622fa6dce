--------------------------- MODULE MCUdpEndpoint ---------------------------
(* Two servers that send each other requests and answers.                  *)
EXTENDS UdpEndpoint, TLC
CONSTANTS S1, S2, rqst, resp, long

MCSrc == [e \in Events |-> IF e = resp THEN S2 ELSE S1]
MCDst == [e \in Events |-> IF e = resp THEN S1 ELSE S2]
=============================================================================
