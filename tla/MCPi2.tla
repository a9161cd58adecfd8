------------------------------- MODULE MCPi2 --------------------------------
(* Pi2 with one or two processes, and the commands each of them issues.    *)
EXTENDS Pi2, TLC

CONSTANTS p1, p2

\* two processes that issue every command
Both == (p1 :> AllCmds @@ p2 :> AllCmds)
\* one of them moves the door while the other plays and switches the light
OneMover == (p1 :> DoorCmds @@ p2 :> {"SPEAKER", "LEDON", "LEDOFF"})
\* both move the door, one each way
TwoMovers == (p1 :> {"DOOROPEN"} @@ p2 :> {"DOORCLOSE"})
=============================================================================
