---------------------------- MODULE MCRouteMaps ----------------------------
(* RouteMaps for TLC: the symmetries of its constants, and a start that    *)
(* saves the run some events: every channel exists already, and the event  *)
(* of its creation with an application has been sent.                      *)
EXTENDS RouteMaps, TLC

Symmetry == Permutations(Things) \cup Permutations(Devices) \cup Permutations(Requests)

ChannelsCreated ==
    /\ Cardinality(Channels) = 1
    /\ \E c \in Channels, a \in Apps :
          /\ meta = [e \in Entity |-> IF e = c THEN a ELSE "absent"]
          /\ stream = <<[op |-> "create", id |-> c, ext |-> a]>>
    /\ sending = [r \in Requests |-> None] /\ astray = {}

MCInit == ChannelsCreated /\ AdapterInit

MCSpec == MCInit /\ [][Next]_vars
============================================================================
