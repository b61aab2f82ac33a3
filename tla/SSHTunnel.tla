------------------------------ MODULE SSHTunnel ------------------------------
(***************************************************************************)
(* The shared SSH client of internal/conn/sshtunnel.go.  Every connection  *)
(* of the process dials through one ssh.Client: dialers find it or make it *)
(* under tunnelMu, open a channel on it without the mutex, drop it when    *)
(* its transport has died, and try once more.  While a dialer makes the    *)
(* client, a callback on ITS context may close the TCP connection; other   *)
(* requests must not be hurt by that context once the client is shared.    *)
(*                                                                         *)
(* A jump host is configured (sshDialFunc is nil otherwise).  A Clients    *)
(* element stands for one TCP connection and the ssh.Client over it; an    *)
(* element nobody can reach any more stands for a new one again.           *)
(***************************************************************************)
EXTENDS FiniteSets

CONSTANTS
    Dialers,   \* goroutines that connect to a database
    Clients,   \* SSH connections
    NoClient,  \* tunnelConn is nil
    NoDialer   \* tunnelMu is free

ASSUME TunnelAssumption == NoClient \notin Clients /\ NoDialer \notin Dialers

VARIABLES
    mutex,     \* tunnelMu, as far as it is held across steps: by dialSSH
    shared,    \* tunnelConn
    status,    \* the transport of each client
    deadline,  \* clients whose TCP connection has the request's deadline set
    pc,        \* where each dialer is
    try,       \* its first or second attempt
    mine,      \* the client it works with
    ctx,       \* its context: "live" or "done"
    shook,     \* its NewClientConn returned without error
    callback   \* its context.AfterFunc

vars == <<mutex, shared, status, deadline, pc, try, mine, ctx, shook, callback>>

(* "down" is the network's doing, "closed" is pgbot's.                      *)
Statuses == {"unused", "connecting", "up", "down", "closed"}
PCs == {"idle", "get", "tcp", "handshake", "stop", "join", "open", "drop"}
Holding == {"tcp", "handshake", "stop", "join"}
Working == {"handshake", "stop", "join", "open", "drop"}
Armed == {"armed", "running"}
Open == {"connecting", "up"}

(* What is left of a client after Close.                                    *)
Close(c) == status' = [status EXCEPT ![c] = "closed"]
Dead(c) == status[c] \in {"down", "closed"}

(* An id that may stand for a new connection: nobody refers to it.          *)
Fresh(c) == c # shared /\ \A d \in Dialers : mine[d] # c

Return(d) == pc' = [pc EXCEPT ![d] = "idle"]
Goto(d, l) == pc' = [pc EXCEPT ![d] = l]
-----------------------------------------------------------------------------
Init ==
    /\ mutex = NoDialer /\ shared = NoClient
    /\ status = [c \in Clients |-> "unused"]
    /\ deadline = {}
    /\ pc = [d \in Dialers |-> "idle"]
    /\ try = [d \in Dialers |-> 1]
    /\ mine = [d \in Dialers |-> NoClient]
    /\ ctx = [d \in Dialers |-> "live"]
    /\ shook = [d \in Dialers |-> FALSE]
    /\ callback = [d \in Dialers |-> "none"]

(* The pool calls the dial function with the context of a new request.      *)
Dial(d) ==
    /\ pc[d] = "idle"
    /\ Goto(d, "get")
    /\ try' = [try EXCEPT ![d] = 1]
    /\ mine' = [mine EXCEPT ![d] = NoClient]
    /\ ctx' = [ctx EXCEPT ![d] = "live"]
    /\ shook' = [shook EXCEPT ![d] = FALSE]
    /\ callback' = [callback EXCEPT ![d] = "none"]
    /\ UNCHANGED <<mutex, shared, status, deadline>>

(* tunnelClient: take the shared client, or keep the mutex and make one.    *)
Get(d) ==
    /\ pc[d] = "get" /\ mutex = NoDialer
    /\ IF shared # NoClient
         THEN /\ mine' = [mine EXCEPT ![d] = shared]
              /\ Goto(d, "open")
              /\ UNCHANGED mutex
         ELSE /\ mutex' = d
              /\ Goto(d, "tcp")
              /\ UNCHANGED mine
    /\ UNCHANGED <<shared, status, deadline, try, ctx, shook, callback>>

(* A slip of DialFails: an error return without the unlock.                 *)
DialFailsLocked(d) ==
    /\ pc[d] = "tcp"
    /\ Return(d)
    /\ UNCHANGED <<mutex, shared, status, deadline, try, mine, ctx, shook, callback>>

(* dialSSH fails before the handshake: configuration, credentials, TCP.     *)
DialFails(d) ==
    /\ pc[d] = "tcp"
    /\ mutex' = NoDialer
    /\ Return(d)
    /\ UNCHANGED <<shared, status, deadline, try, mine, ctx, shook, callback>>

(* The TCP leg is up: its deadline is set, the cancel callback registered   *)
(* (AfterFunc runs at once on a context already done).                      *)
Connect(d) ==
    /\ pc[d] = "tcp"
    /\ \E c \in Clients :
        /\ Fresh(c)
        /\ status' = [status EXCEPT ![c] = "connecting"]
        /\ deadline' = deadline \cup {c}
        /\ mine' = [mine EXCEPT ![d] = c]
    /\ callback' = [callback EXCEPT ![d] = IF ctx[d] = "live" THEN "armed" ELSE "running"]
    /\ Goto(d, "handshake")
    /\ UNCHANGED <<mutex, shared, try, ctx, shook>>

(* NewClientConn returns.                                                   *)
Handshake(d) ==
    /\ pc[d] = "handshake"
    /\ \/ /\ status[mine[d]] = "connecting"
          /\ status' = [status EXCEPT ![mine[d]] = "up"]
          /\ shook' = [shook EXCEPT ![d] = TRUE]
       \/ UNCHANGED <<status, shook>>
    /\ Goto(d, "stop")
    /\ UNCHANGED <<mutex, shared, deadline, try, mine, ctx, callback>>

(* Slips of Publish: the handshake's deadline stays on the connection; a    *)
(* failed handshake does not close it.                                      *)
PublishWithDeadline(d) ==
    /\ pc[d] = "stop" /\ callback[d] = "armed"
    /\ callback' = [callback EXCEPT ![d] = "stopped"]
    /\ mutex' = NoDialer
    /\ IF shook[d]
         THEN shared' = mine[d] /\ Goto(d, "open") /\ UNCHANGED status
         ELSE Close(mine[d]) /\ Return(d) /\ UNCHANGED shared
    /\ UNCHANGED <<deadline, try, mine, ctx, shook>>

PublishUnclosed(d) ==
    /\ pc[d] = "stop" /\ callback[d] = "armed"
    /\ callback' = [callback EXCEPT ![d] = "stopped"]
    /\ deadline' = deadline \ {mine[d]}
    /\ mutex' = NoDialer
    /\ IF shook[d] THEN shared' = mine[d] /\ Goto(d, "open") ELSE Return(d) /\ UNCHANGED shared
    /\ UNCHANGED <<status, try, mine, ctx, shook>>

(* stopCancel() came in time: on success clear the deadline and publish the *)
(* client, on failure close the connection.                                 *)
Publish(d) ==
    /\ pc[d] = "stop" /\ callback[d] = "armed"
    /\ callback' = [callback EXCEPT ![d] = "stopped"]
    /\ deadline' = deadline \ {mine[d]}
    /\ mutex' = NoDialer
    /\ IF shook[d]
         THEN /\ shared' = mine[d]
              /\ Goto(d, "open")
              /\ UNCHANGED status
         ELSE /\ Close(mine[d])
              /\ Return(d)
              /\ UNCHANGED shared
    /\ UNCHANGED <<try, mine, ctx, shook>>

(* stopCancel() came too late: wait for the callback to end.                *)
StopLate(d) ==
    /\ pc[d] = "stop" /\ callback[d] \in {"running", "ran"}
    /\ Goto(d, "join")
    /\ UNCHANGED <<mutex, shared, status, deadline, try, mine, ctx, shook, callback>>

Join(d) ==
    /\ pc[d] = "join" /\ callback[d] = "ran"
    /\ Close(mine[d])
    /\ deadline' = deadline \ {mine[d]}
    /\ mutex' = NoDialer
    /\ Return(d)
    /\ UNCHANGED <<shared, try, mine, ctx, shook, callback>>

(* DialContext on the client returns a connection.                          *)
OpenOk(d) ==
    /\ pc[d] = "open" /\ status[mine[d]] = "up"
    /\ Return(d)
    /\ UNCHANGED <<mutex, shared, status, deadline, try, mine, ctx, shook, callback>>

(* An OpenChannelError over a healthy transport, or the request's own       *)
(* context ended, whatever the transport's state: the error is returned.    *)
OpenRefused(d) ==
    /\ pc[d] = "open" /\ (status[mine[d]] = "up" \/ ctx[d] = "done")
    /\ Return(d)
    /\ UNCHANGED <<mutex, shared, status, deadline, try, mine, ctx, shook, callback>>

(* transportDead: any other error.  The second attempt returns it.          *)
OpenDead(d) ==
    /\ pc[d] = "open" /\ Dead(mine[d]) /\ ctx[d] = "live"
    /\ IF try[d] = 1 THEN Goto(d, "drop") ELSE Return(d)
    /\ UNCHANGED <<mutex, shared, status, deadline, try, mine, ctx, shook, callback>>

(* A slip of Drop: whatever client is shared is closed.                     *)
DropAny(d) ==
    /\ pc[d] = "drop" /\ mutex = NoDialer
    /\ IF shared # NoClient
         THEN Close(shared) /\ shared' = NoClient
         ELSE UNCHANGED <<status, shared>>
    /\ try' = [try EXCEPT ![d] = 2]
    /\ Goto(d, "get")
    /\ UNCHANGED <<mutex, deadline, mine, ctx, shook, callback>>

(* dropTunnelClient: only while it is still the shared client.              *)
Drop(d) ==
    /\ pc[d] = "drop" /\ mutex = NoDialer
    /\ IF shared = mine[d]
         THEN Close(shared) /\ shared' = NoClient
         ELSE UNCHANGED <<status, shared>>
    /\ try' = [try EXCEPT ![d] = 2]
    /\ Goto(d, "get")
    /\ UNCHANGED <<mutex, deadline, mine, ctx, shook, callback>>

(* The request is cancelled or its deadline passes: while it dials, or at   *)
(* any time after the dial function returned.                               *)
Cancel(d) ==
    /\ ctx[d] = "live"
    /\ ctx' = [ctx EXCEPT ![d] = "done"]
    /\ callback' = [callback EXCEPT ![d] = IF @ = "armed" THEN "running" ELSE @]
    /\ UNCHANGED <<mutex, shared, status, deadline, pc, try, mine, shook>>

(* The AfterFunc callback closes the TCP connection.                        *)
Callback(d) ==
    /\ callback[d] = "running"
    /\ Close(mine[d])
    /\ callback' = [callback EXCEPT ![d] = "ran"]
    /\ UNCHANGED <<mutex, shared, deadline, pc, try, mine, ctx, shook>>

(* The connection's deadline passes.                                        *)
Expire(c) ==
    /\ c \in deadline /\ status[c] \in Open
    /\ Close(c)
    /\ UNCHANGED <<mutex, shared, deadline, pc, try, mine, ctx, shook, callback>>

(* The transport dies: idle timeout on the jump host, sleep, VPN.           *)
NetworkDrop(c) ==
    /\ status[c] \in Open
    /\ status' = [status EXCEPT ![c] = "down"]
    /\ UNCHANGED <<mutex, shared, deadline, pc, try, mine, ctx, shook, callback>>

(* CloseSSHTunnel, deferred by main.                                        *)
CloseSSHTunnel ==
    /\ mutex = NoDialer /\ shared # NoClient
    /\ Close(shared)
    /\ shared' = NoClient
    /\ UNCHANGED <<mutex, deadline, pc, try, mine, ctx, shook, callback>>

Step(d) ==
    \/ Get(d) \/ DialFails(d) \/ Connect(d) \/ Handshake(d) \/ Publish(d)
    \/ StopLate(d) \/ Join(d) \/ OpenOk(d) \/ OpenRefused(d) \/ OpenDead(d)
    \/ Drop(d)

Next ==
    \/ \E d \in Dialers : Dial(d) \/ Step(d) \/ Cancel(d) \/ Callback(d)
    \/ \E c \in Clients : Expire(c) \/ NetworkDrop(c)
    \/ CloseSSHTunnel

Spec == Init /\ [][Next]_vars

(* The network may leave a dial or a handshake without an answer for ever.  *)
(* What is assumed: a request's context ends, callbacks run, calls that     *)
(* cannot block return, the TCP dialer and NewClientConn return once the    *)
(* context is done or the connection closed, and sync.Mutex lets no waiter  *)
(* starve.                                                                  *)
Gives(d) ==
    \/ DialFails(d) /\ ctx[d] = "done"
    \/ Handshake(d) /\ status[mine[d]] # "connecting"

Fairness == \A d \in Dialers :
    /\ WF_vars(Cancel(d)) /\ WF_vars(Callback(d)) /\ WF_vars(Gives(d))
    /\ WF_vars(Publish(d) \/ StopLate(d) \/ Join(d))
    /\ WF_vars(OpenOk(d) \/ OpenRefused(d) \/ OpenDead(d))
    /\ SF_vars(Get(d)) /\ SF_vars(Drop(d))

FairSpec == Spec /\ Fairness
-----------------------------------------------------------------------------
(* The types of the tunnel's state; a dialer that works with a client has   *)
(* one.                                                                     *)
TypeOK ==
    /\ mutex \in Dialers \cup {NoDialer}
    /\ shared \in Clients \cup {NoClient}
    /\ status \in [Clients -> Statuses]
    /\ deadline \in SUBSET Clients
    /\ pc \in [Dialers -> PCs]
    /\ try \in [Dialers -> {1, 2}]
    /\ mine \in [Dialers -> Clients \cup {NoClient}]
    /\ \A d \in Dialers : pc[d] \in Working => mine[d] \in Clients
    /\ ctx \in [Dialers -> {"live", "done"}]
    /\ shook \in [Dialers -> BOOLEAN]
    /\ callback \in [Dialers -> {"none", "armed", "running", "ran", "stopped"}]

(* Nothing of the request that made the shared client can still close it:   *)
(* its deadline is cleared and its cancel callback stopped before others    *)
(* can see the client.                                                      *)
SharedIsDetached ==
    shared # NoClient =>
        /\ shared \notin deadline
        /\ \A d \in Dialers : mine[d] = shared => callback[d] \notin Armed

(* pgbot closes the shared client only when its transport has already died, *)
(* or at exit: one request's failure or end never cuts the connections of   *)
(* the others.                                                              *)
NeverCutsLiveTunnel ==
    [][shared # NoClient /\ status[shared] = "up" /\ status'[shared] = "closed"
          => CloseSSHTunnel]_vars

(* No SSH connection is left open behind the shared one: an open transport  *)
(* is the shared client's or the one being made under the mutex.            *)
NoLeakedTransport ==
    \A c \in Clients : status[c] \in Open =>
        \/ c = shared
        \/ \E d \in Dialers : mutex = d /\ mine[d] = c

(* Every dial returns, even though waiting for tunnelMu heeds no context:   *)
(* the holder's context releases it.                                        *)
DialReturns == \A d \in Dialers : pc[d] # "idle" ~> pc[d] = "idle"
=============================================================================
