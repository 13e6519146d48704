--------------------------------- MODULE MCLsp ---------------------------------
(* LspClient on a small instance, and what is checked of it. *)
EXTENDS LspClient, TLC

CONSTANTS d1, d2

OneServer == [d \in {d1, d2} |-> "cpp"]
TwoServers == d1 :> "cpp" @@ d2 :> "py"
SomeCaps == {[sync |-> SyncIncremental, hover |-> TRUE, formatting |-> TRUE],
             [sync |-> SyncFull, hover |-> FALSE, formatting |-> FALSE]}
===============================================================================
