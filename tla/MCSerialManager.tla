--------------------------- MODULE MCSerialManager ---------------------------
(* Instances of SerialManager for TLC.                                     *)
EXTENDS SerialManager, TLC

(* Clients are interchangeable, and so are ports.                          *)
Symmetry == Permutations(Clients) \cup Permutations(Ports)

(* Every client sends what changes the tables.                             *)
TableCommands ==
  [c \in Clients |-> {"open", "closePort", "stopLog", "startLog", "updateLog"}]

(* One client starts logs, the others stop them and close the port.  Each  *)
(* side has a command that holds `ports` over an await.                    *)
StartingClient == CHOOSE c \in Clients : TRUE

SplitCommands ==
  [c \in Clients |-> IF c = StartingClient THEN {"open", "startLog", "status"}
                                          ELSE {"closePort", "stopLog", "write"}]
==============================================================================
