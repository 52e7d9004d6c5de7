------------------------------ MODULE TEEProxy ------------------------------
(***************************************************************************)
(* What the TEE proxy promises the processes it serves, without ids, maps  *)
(* and layers: every process has shared memory of its own, nobody else's   *)
(* step touches it, and a command of a process works on that memory alone. *)
(*                                                                         *)
(* The promise is weaker while the proxy is exposed: it was restarted with *)
(* clients in it, and buffers that nobody holds are still in the TEE.      *)
(* OTGuard on top of NativeLibtee is shown to implement this               *)
(* specification.                                                          *)
(***************************************************************************)
EXTENDS Maps

CONSTANTS
    Pids,      \* processes
    SmIds,     \* names a process gives its buffers
    Holds      \* what the proxy can tell buffers apart by

VARIABLES
    clients,   \* processes with an open context
    memory,    \* per process: hold -> the buffer behind it
    work,      \* what the TEE runs in this step: for whom, on which buffers
    exposed    \* has the proxy forgotten clients whose buffers are still there?

proxyVars == <<clients, memory, work, exposed>>

Buffers == [pid : Pids, smid : SmIds]
OwnBuffers(c) == {b \in Buffers : b.pid = c}
Nothing == [c \in Pids |-> EmptyMap]

Init ==
    /\ clients = {}
    /\ memory = Nothing
    /\ work = {}
    /\ exposed = FALSE

\* A context is opened, or a call ends without an effect.
Join(c) ==
    /\ clients' = clients \cup {c}
    /\ work' = {}
    /\ UNCHANGED <<memory, exposed>>

Refuse ==
    /\ work' = {}
    /\ UNCHANGED <<clients, memory, exposed>>

\* A client gets a buffer under a hold that no client has; it is the client's
\* own unless the proxy is exposed.
Register(c) ==
    /\ c \in clients
    /\ work' = {}
    /\ UNCHANGED <<clients, exposed>>
    /\ \E h \in Holds, b \in IF exposed THEN Buffers ELSE OwnBuffers(c) :
          /\ \A d \in Pids : h \notin DOMAIN memory[d]
          /\ memory' = [memory EXCEPT ![c] = MapPut(@, h, b)]

\* A client gives up some of its own holds.
Release(c) ==
    /\ c \in clients
    /\ work' = {}
    /\ UNCHANGED <<clients, exposed>>
    /\ \E gone \in SUBSET DOMAIN memory[c] :
          memory' = [memory EXCEPT ![c] = MapRemove(@, gone)]

\* A client leaves with everything it holds; the last one takes the exposure
\* with it.
Leave(c) ==
    /\ c \in clients
    /\ clients' = clients \ {c}
    /\ memory' = [memory EXCEPT ![c] = EmptyMap]
    /\ work' = {}
    /\ exposed' = (exposed /\ clients' # {})

\* The TEE works for a client, on buffers this client holds.
Command(c) ==
    /\ c \in clients
    /\ UNCHANGED <<clients, memory, exposed>>
    /\ \E buffers \in SUBSET Buffers :
          /\ work' = {[pid |-> c, buffers |-> buffers]}
          /\ exposed \/ \A b \in buffers : \E h \in DOMAIN memory[c] : memory[c][h] = b

\* The proxy starts anew and knows nobody.
Restart ==
    /\ clients' = {}
    /\ memory' = Nothing
    /\ work' = {}
    /\ exposed' = (exposed \/ clients # {})

Next ==
    \/ Refuse
    \/ Restart
    \/ \E c \in Pids : Join(c) \/ Register(c) \/ Release(c) \/ Leave(c) \/ Command(c)

Spec == Init /\ [][Next]_proxyVars
=============================================================================
