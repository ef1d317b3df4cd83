------------------------------ MODULE MCServer ------------------------------
(* Small instances of the server process and of the supervisor it runs, for *)
(* TLC.  One behaviour is about one part: run knows the supervisor's         *)
(* connectors as one feed, and the supervisor knows run by stop alone.       *)
EXTENDS Supervisor, Genbad, TLC

CONSTANTS Parts
VARIABLE part

ServerInit == part \in Parts /\ Init /\ GbInit
ServerNext ==
  /\ UNCHANGED part
  /\ \/ part = "supervisor" /\ Next /\ UNCHANGED gbVars
     \/ part = "run" /\ GbNext /\ UNCHANGED vars
serverVars == <<part, vars, gbVars>>
ServerSpec ==
  /\ ServerInit /\ [][ServerNext]_serverVars
  /\ Fairness /\ (part = "run" => GbFairness)
=============================================================================
