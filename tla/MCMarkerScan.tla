---------------------------- MODULE MCMarkerScan ----------------------------
(* An instance of MarkerScan: all bodies up to a length over two bytes, a  *)
(* marker that begins the way it ends.                                     *)
EXTENDS MarkerScan

CONSTANT MaxBody

MCMarker == <<"x", "y", "x">>
MCBodies == UNION {[1 .. n -> Symbols] : n \in 0 .. MaxBody}
=============================================================================
