-------------------------- MODULE ServerRefinement --------------------------
(***************************************************************************)
(* Server implements SessionContract.  A session exists for its client     *)
(* from its insertion into slaveSocketsMap to its destruction; it is       *)
(* leaving while it is in slavesForRemove.                                 *)
(***************************************************************************)
EXTENDS ServerInductive

\* The messages that end a session.
FarewellHeader == {"server_timeout", "server_conndown", "server_session_err"}

upMap        == pc \notin {"cleanup", "exit", "abort"}
statusMap    == [a \in Address |-> IF a \notin slaves THEN "absent"
                                   ELSE IF a \in remove THEN "leaving" ELSE "serving"]
clientMap    == [a \in Address |-> IF a \in slaves THEN peer[a] ELSE NoPeer]
transportMap == [a \in Address |-> IF a \in slaves THEN kind[a] ELSE "none"]
lateMap      == {a \in remove : sock[a] # "none"}
farewellMap  == {m \in out : m.header \in FarewellHeader}

Contract == INSTANCE SessionContract WITH
    Id <- Address, Client <- Peer, NoClient <- NoPeer,
    up <- upMap, status <- statusMap, client <- clientMap,
    transport <- transportMap, late <- lateMap, farewell <- farewellMap

\* Every behaviour of the server, seen through slaveSocketsMap, slavesForRemove
\* and the farewells it sends, is one the contract allows.
ImplementsContract == Contract!Spec
=============================================================================
