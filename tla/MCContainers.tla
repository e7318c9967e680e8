---------------------------- MODULE MCContainers ----------------------------
(***************************************************************************)
(* Instances of Containers for TLC.                                        *)
(***************************************************************************)
EXTENDS Containers

\* Three replicas; the last one is a group of two processes.
Three == << <<1>>, <<2>>, <<3, 4>> >>

\* Two replicas, one of them a group.
Two == << <<1>>, <<2, 3>> >>
=============================================================================
