---------------------------- MODULE TestSession ----------------------------
(***************************************************************************)
(* What a test promises, whatever threads and sockets carry it out: the    *)
(* server's data plane is up before the first client takes part, at most   *)
(* NumClients clients take part, and the server goes on serving until each *)
(* of them is finished.  The loss of a client may abort the service.       *)
(***************************************************************************)
EXTENDS Naturals, FiniteSets

CONSTANTS Clients, NumClients

VARIABLES
  service,  \* "down", "up", "closed" (the test is over) or "aborted"
  status    \* of each client: "idle", "active", "finished" or "lost"

vars == <<service, status>>

Taking(s) == { c \in Clients : s[c] # "idle" }

Init ==
  /\ service = "down"
  /\ status = [c \in Clients |-> "idle"]

Open ==
  /\ service = "down"
  /\ service' = "up"
  /\ UNCHANGED status

\* The server admitted the client while it was up; the answer may reach the
\* client after the service was aborted.
Join(c) ==
  /\ service \in {"up", "aborted"}
  /\ status[c] = "idle"
  /\ Cardinality(Taking(status)) < NumClients
  /\ status' = [status EXCEPT ![c] = "active"]
  /\ UNCHANGED service

Leave(c) ==
  /\ status[c] = "active"
  /\ \E to \in {"finished", "lost"} : status' = [status EXCEPT ![c] = to]
  /\ UNCHANGED service

Close ==
  /\ service = "up"
  /\ \A c \in Clients : status[c] \in {"idle", "finished"}
  /\ Cardinality(Taking(status)) = NumClients
  /\ service' = "closed"
  /\ UNCHANGED status

Abort ==
  /\ service = "up"
  /\ service' = "aborted"
  /\ UNCHANGED status

Next ==
  \/ Open \/ Close \/ Abort
  \/ \E c \in Clients : Join(c) \/ Leave(c)

Spec == Init /\ [][Next]_vars

============================================================================
