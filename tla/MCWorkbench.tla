---------------------------- MODULE MCWorkbench ----------------------------
(***************************************************************************)
(* Workbench for TLC, with two groups of clients: two requests at a time    *)
(* about one database, of which one at most connects, or one at a time by   *)
(* two sessions, one of which changes to the database of the other and back.*)
(***************************************************************************)
EXTENDS Workbench

CONSTANTS h1, h2, s1, s2, d1, d2

VARIABLE clients    \* the handlers in use, and the directories a session asks for

MCHandlers == {h1, h2}
MCSessions == {s1, s2}
MCDirectories == {d1, d2}
Groups ==
    {[handlers |-> {h1, h2}, directories |-> [s \in Sessions |-> {d1}]],
     [handlers |-> {h1}, directories |-> [s \in Sessions |-> IF s = s1 THEN {d1, d2} ELSE {d2}]]}

MCInit == Init /\ clients \in Groups

MCNext ==
    /\ Next
    /\ UNCHANGED clients
    /\ \A h \in Handlers \ clients.handlers : at'[h] = "ready"
    /\ \A s \in Sessions : \A n \in 1..Len(queue'[s]) :
          LET call == queue'[s][n] IN
          call.act # "close" =>
             /\ call.dir \in clients.directories[s]
             /\ call.act = "connect" => call.who = h1

MCSpec == MCInit /\ [][MCNext]_<<vars, clients>> /\ Fairness
=============================================================================
