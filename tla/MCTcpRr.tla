------------------------------ MODULE MCTcpRr ------------------------------
(* Instances of TcpRr for TLC: the constants are numbers.                  *)
EXTENDS TcpRr

\* The sizes differ from each other, no message fits a buffer or a socket.
LongRequest  == 5
LongResponse == 4
SmallBuffer  == 2
SmallSocket  == 3

============================================================================
