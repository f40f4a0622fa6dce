-------------------------------- MODULE Wire --------------------------------
(***************************************************************************)
(* Events on a TCP connection: event.py and the recv() of client.py and    *)
(* server.py.  A PDU is the base64 text of a YAML document; nothing marks  *)
(* its end, and what one recv() returns is decoded as one PDU.  A PDU      *)
(* longer than MTU is two elements of the stream, a "cut" and its "tail".  *)
(***************************************************************************)
EXTENDS Naturals, Sequences, FiniteSetsExt

\* n numbers the request, or says which one a reply answers: it is not in the
\* PDU, and only properties read it.  pad: the text ends in `='.
PDU(types) ==
  [type: types, n: Nat, pad: BOOLEAN, part: {"whole", "cut", "tail"}]

\* encode()
Encode(type, n, pad) == [type |-> type, n |-> n, pad |-> pad, part |-> "whole"]

\* What send() makes of a PDU; `long' if it exceeds MTU.
Pieces(p, long) ==
  IF long THEN <<[p EXCEPT !.part = "cut", !.pad = FALSE], [p EXCEPT !.part = "tail"]>>
          ELSE <<p>>

\* decode() of what one recv() returned, as a sequence of at most one event.
\* b64decode stops at the first padding; without one the documents run
\* together, and the last value of each key counts.  A piece of a document is
\* malformed, or reads as a shorter one.
Received(run) ==
  LET padded == {i \in DOMAIN run : run[i].pad}
      last == IF padded = {} THEN Len(run) ELSE Min(padded) IN
  IF \A i \in 1..last : run[i].part = "whole" THEN {<<run[last]>>}
  ELSE {<<>>} \cup (IF last = 1 /\ run[1].part = "cut" THEN {<<run[1]>>} ELSE {})
=============================================================================
