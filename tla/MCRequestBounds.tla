---------------------------- MODULE MCRequestBounds ----------------------------
(* Instances of RequestBounds. *)
EXTENDS RequestBounds

(* Around every bound of the fields, and of what the handlers add. *)
MCCores == (0 .. 8) \cup (64 .. 65) \cup (127 .. 129) \cup (159 .. 161)
           \cup (1999 .. 2001) \cup (3999 .. 4001)
MCIds == (2 .. 4) \cup (44 .. 46) \cup (53 .. 55) \cup (63 .. 65)
=============================================================================
