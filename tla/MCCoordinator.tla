---------------------------- MODULE MCCoordinator ---------------------------
\* Two hosts that may be launched in any room.
EXTENDS Coordinator

AnyRoom == [h \in Hosts |-> Rooms]
=============================================================================
