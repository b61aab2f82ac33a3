------------------------ MODULE TunnelAndTail_proofs ------------------------
(***************************************************************************)
(* The two long-lived connections: the safety of the shared SSH client,    *)
(* for any number of dialers, and of the log follower, for any log, any    *)
(* rotations and any cut of the reads.                                     *)
(***************************************************************************)
EXTENDS SSHTunnel, LogTail, SequenceTheorems, WellFoundedInduction, TLAPS

-----------------------------------------------------------------------------
(* The SSH tunnel.                                                          *)

(* A dialer past the TCP leg works on a client of its own.                  *)
Making == {"handshake", "stop", "join"}

(* The mutex is the dialer's that makes the client, and none is shared then.*)
MutexOK ==
    /\ \A d \in Dialers : mutex = d <=> pc[d] \in Holding
    /\ mutex # NoDialer => shared = NoClient

(* Whose client it is: a client being made is its dialer's only.            *)
MineOK ==
    /\ \A d, e \in Dialers : pc[d] \in Making /\ mine[e] = mine[d] => e = d
    /\ \A d \in Dialers : pc[d] = "drop" => Dead(mine[d])

(* What can still close a client belongs to a dialer that is making it.     *)
DetachOK ==
    /\ \A d \in Dialers : callback[d] \in Armed => pc[d] \in Making
    /\ \A c \in deadline : \E d \in Dialers : pc[d] \in Making /\ mine[d] = c

(* An open transport is the shared client's or the one being made.          *)
LiveOK ==
    \A c \in Clients : status[c] \in Open =>
        c = shared \/ \E d \in Dialers : pc[d] \in Making /\ mine[d] = c

IInv == TypeOK /\ MutexOK /\ MineOK /\ DetachOK /\ LiveOK
-----------------------------------------------------------------------------
(* The types, step by step.                                                 *)
LEMMA TypeStep ==
    ASSUME IInv, [Next]_vars
    PROVE  TypeOK'
<1> USE TunnelAssumption DEF TypeOK, PCs, Statuses, Working, Goto, Return, Close
<1> TypeOK
  BY DEF IInv
<1>1. ASSUME NEW d \in Dialers, Dial(d) PROVE TypeOK'
  BY <1>1 DEF Dial
<1>2. ASSUME NEW d \in Dialers, Get(d) PROVE TypeOK'
  BY <1>2 DEF Get
<1>3. ASSUME NEW d \in Dialers, DialFails(d) PROVE TypeOK'
  BY <1>3 DEF DialFails
<1>4. ASSUME NEW d \in Dialers, Connect(d) PROVE TypeOK'
  BY <1>4 DEF Connect
<1>5. ASSUME NEW d \in Dialers, Handshake(d) PROVE TypeOK'
  BY <1>5 DEF Handshake
<1>6. ASSUME NEW d \in Dialers, Publish(d) PROVE TypeOK'
  BY <1>6 DEF Publish
<1>7. ASSUME NEW d \in Dialers, StopLate(d) PROVE TypeOK'
  BY <1>7 DEF StopLate
<1>8. ASSUME NEW d \in Dialers, Join(d) PROVE TypeOK'
  BY <1>8 DEF Join
<1>9. ASSUME NEW d \in Dialers, OpenOk(d) \/ OpenRefused(d) \/ OpenDead(d) PROVE TypeOK'
  BY <1>9 DEF OpenOk, OpenRefused, OpenDead
<1>10. ASSUME NEW d \in Dialers, Drop(d) PROVE TypeOK'
  BY <1>10 DEF Drop
<1>11. ASSUME NEW d \in Dialers, Cancel(d) PROVE TypeOK'
  BY <1>11 DEF Cancel
<1>12. ASSUME NEW d \in Dialers, Callback(d) PROVE TypeOK'
  BY <1>12 DEF Callback
<1>13. ASSUME NEW c \in Clients, Expire(c) \/ NetworkDrop(c) PROVE TypeOK'
  BY <1>13 DEF Expire, NetworkDrop
<1>14. CASE CloseSSHTunnel
  BY <1>14 DEF CloseSSHTunnel
<1>15. CASE UNCHANGED vars
  BY <1>15 DEF vars
<1> QED
  BY <1>1, <1>2, <1>3, <1>4, <1>5, <1>6, <1>7, <1>8, <1>9, <1>10, <1>11, <1>12, <1>13, <1>14,
     <1>15 DEF Next, Step

(* tunnelMu: held exactly from Get's miss to the end of dialSSH.            *)
LEMMA MutexStep ==
    ASSUME IInv, [Next]_vars
    PROVE  MutexOK'
<1> USE TunnelAssumption DEF TypeOK, PCs, Statuses, Working, Open, Holding, Making, Armed, Goto, Return, Close, Dead
<1> TypeOK /\ TypeOK' /\ MutexOK /\ MineOK /\ DetachOK /\ LiveOK
  BY TypeStep DEF IInv
<1>1. ASSUME NEW d \in Dialers, Dial(d) PROVE MutexOK'
  BY <1>1 DEF Dial, MutexOK, MineOK, DetachOK, LiveOK
<1>2. ASSUME NEW d \in Dialers, Get(d) PROVE MutexOK'
  BY <1>2 DEF Get, MutexOK, MineOK, DetachOK, LiveOK
<1>3. ASSUME NEW d \in Dialers, DialFails(d) PROVE MutexOK'
  BY <1>3 DEF DialFails, MutexOK, MineOK, DetachOK, LiveOK
<1>4. ASSUME NEW d \in Dialers, Connect(d) PROVE MutexOK'
  BY <1>4 DEF Connect, MutexOK, MineOK, DetachOK, LiveOK
<1>5. ASSUME NEW d \in Dialers, Handshake(d) PROVE MutexOK'
  BY <1>5 DEF Handshake, MutexOK, MineOK, DetachOK, LiveOK
<1>6. ASSUME NEW d \in Dialers, Publish(d) PROVE MutexOK'
  BY <1>6 DEF Publish, MutexOK, MineOK, DetachOK, LiveOK
<1>7. ASSUME NEW d \in Dialers, StopLate(d) PROVE MutexOK'
  BY <1>7 DEF StopLate, MutexOK, MineOK, DetachOK, LiveOK
<1>8. ASSUME NEW d \in Dialers, Join(d) PROVE MutexOK'
  BY <1>8 DEF Join, MutexOK, MineOK, DetachOK, LiveOK
<1>9. ASSUME NEW d \in Dialers, OpenOk(d) \/ OpenRefused(d) \/ OpenDead(d) PROVE MutexOK'
  BY <1>9 DEF OpenOk, OpenRefused, OpenDead, MutexOK, MineOK, DetachOK, LiveOK
<1>10. ASSUME NEW d \in Dialers, Drop(d) PROVE MutexOK'
  BY <1>10 DEF Drop, MutexOK, MineOK, DetachOK, LiveOK
<1>11. ASSUME NEW d \in Dialers, Cancel(d) PROVE MutexOK'
  BY <1>11 DEF Cancel, MutexOK, MineOK, DetachOK, LiveOK
<1>12. ASSUME NEW d \in Dialers, Callback(d) PROVE MutexOK'
  BY <1>12 DEF Callback, MutexOK, MineOK, DetachOK, LiveOK
<1>13. ASSUME NEW c \in Clients, Expire(c) \/ NetworkDrop(c) PROVE MutexOK'
  BY <1>13 DEF Expire, NetworkDrop, MutexOK, MineOK, DetachOK, LiveOK
<1>14. CASE CloseSSHTunnel
  BY <1>14 DEF CloseSSHTunnel, MutexOK, MineOK, DetachOK, LiveOK
<1>15. CASE UNCHANGED vars
  BY <1>15 DEF vars, MutexOK, MineOK, DetachOK, LiveOK
<1> QED
  BY <1>1, <1>2, <1>3, <1>4, <1>5, <1>6, <1>7, <1>8, <1>9, <1>10, <1>11, <1>12, <1>13, <1>14, <1>15
  DEF Next, Step

(* A fresh connection is nobody else's, and a client is dropped once dead.  *)
LEMMA MineStep ==
    ASSUME IInv, [Next]_vars
    PROVE  MineOK'
<1> USE TunnelAssumption DEF TypeOK, PCs, Statuses, Working, Open, Holding, Making, Armed, Goto, Return, Close, Dead
<1> TypeOK /\ TypeOK' /\ MutexOK /\ MineOK /\ DetachOK /\ LiveOK
  BY TypeStep DEF IInv
<1>1. ASSUME NEW d \in Dialers, Dial(d) PROVE MineOK'
  BY <1>1 DEF Dial, MutexOK, MineOK, DetachOK, LiveOK
<1>2. ASSUME NEW d \in Dialers, Get(d) PROVE MineOK'
  BY <1>2 DEF Get, MutexOK, MineOK, DetachOK, LiveOK
<1>3. ASSUME NEW d \in Dialers, DialFails(d) PROVE MineOK'
  BY <1>3 DEF DialFails, MutexOK, MineOK, DetachOK, LiveOK
<1>4. ASSUME NEW d \in Dialers, Connect(d) PROVE MineOK'
  BY <1>4 DEF Connect, Fresh, MutexOK, MineOK, DetachOK, LiveOK
<1>5. ASSUME NEW d \in Dialers, Handshake(d) PROVE MineOK'
  BY <1>5 DEF Handshake, MutexOK, MineOK, DetachOK, LiveOK
<1>6. ASSUME NEW d \in Dialers, Publish(d) PROVE MineOK'
  BY <1>6 DEF Publish, MutexOK, MineOK, DetachOK, LiveOK
<1>7. ASSUME NEW d \in Dialers, StopLate(d) PROVE MineOK'
  BY <1>7 DEF StopLate, MutexOK, MineOK, DetachOK, LiveOK
<1>8. ASSUME NEW d \in Dialers, Join(d) PROVE MineOK'
  BY <1>8 DEF Join, MutexOK, MineOK, DetachOK, LiveOK
<1>9. ASSUME NEW d \in Dialers, OpenOk(d) \/ OpenRefused(d) \/ OpenDead(d) PROVE MineOK'
  BY <1>9 DEF OpenOk, OpenRefused, OpenDead, MutexOK, MineOK, DetachOK, LiveOK
<1>10. ASSUME NEW d \in Dialers, Drop(d) PROVE MineOK'
  BY <1>10 DEF Drop, MutexOK, MineOK, DetachOK, LiveOK
<1>11. ASSUME NEW d \in Dialers, Cancel(d) PROVE MineOK'
  BY <1>11 DEF Cancel, MutexOK, MineOK, DetachOK, LiveOK
<1>12. ASSUME NEW d \in Dialers, Callback(d) PROVE MineOK'
  BY <1>12 DEF Callback, MutexOK, MineOK, DetachOK, LiveOK
<1>13. ASSUME NEW c \in Clients, Expire(c) \/ NetworkDrop(c) PROVE MineOK'
  BY <1>13 DEF Expire, NetworkDrop, MutexOK, MineOK, DetachOK, LiveOK
<1>14. CASE CloseSSHTunnel
  BY <1>14 DEF CloseSSHTunnel, MutexOK, MineOK, DetachOK, LiveOK
<1>15. CASE UNCHANGED vars
  BY <1>15 DEF vars, MutexOK, MineOK, DetachOK, LiveOK
<1> QED
  BY <1>1, <1>2, <1>3, <1>4, <1>5, <1>6, <1>7, <1>8, <1>9, <1>10, <1>11, <1>12, <1>13, <1>14, <1>15
  DEF Next, Step

(* Deadline and callback end with dialSSH, on every path out of it.         *)
LEMMA DetachStep ==
    ASSUME IInv, [Next]_vars
    PROVE  DetachOK'
<1> USE TunnelAssumption DEF TypeOK, PCs, Statuses, Working, Open, Holding, Making, Armed, Goto, Return, Close, Dead
<1> TypeOK /\ TypeOK' /\ MutexOK /\ MineOK /\ DetachOK /\ LiveOK
  BY TypeStep DEF IInv
<1>1. ASSUME NEW d \in Dialers, Dial(d) PROVE DetachOK'
  BY <1>1 DEF Dial, MutexOK, MineOK, DetachOK, LiveOK
<1>2. ASSUME NEW d \in Dialers, Get(d) PROVE DetachOK'
  BY <1>2 DEF Get, MutexOK, MineOK, DetachOK, LiveOK
<1>3. ASSUME NEW d \in Dialers, DialFails(d) PROVE DetachOK'
  BY <1>3 DEF DialFails, MutexOK, MineOK, DetachOK, LiveOK
<1>4. ASSUME NEW d \in Dialers, Connect(d) PROVE DetachOK'
  BY <1>4 DEF Connect, MutexOK, MineOK, DetachOK, LiveOK
<1>5. ASSUME NEW d \in Dialers, Handshake(d) PROVE DetachOK'
  BY <1>5 DEF Handshake, MutexOK, MineOK, DetachOK, LiveOK
<1>6. ASSUME NEW d \in Dialers, Publish(d) PROVE DetachOK'
  BY <1>6 DEF Publish, MutexOK, MineOK, DetachOK, LiveOK
<1>7. ASSUME NEW d \in Dialers, StopLate(d) PROVE DetachOK'
  BY <1>7 DEF StopLate, MutexOK, MineOK, DetachOK, LiveOK
<1>8. ASSUME NEW d \in Dialers, Join(d) PROVE DetachOK'
  BY <1>8 DEF Join, MutexOK, MineOK, DetachOK, LiveOK
<1>9. ASSUME NEW d \in Dialers, OpenOk(d) \/ OpenRefused(d) \/ OpenDead(d) PROVE DetachOK'
  BY <1>9 DEF OpenOk, OpenRefused, OpenDead, MutexOK, MineOK, DetachOK, LiveOK
<1>10. ASSUME NEW d \in Dialers, Drop(d) PROVE DetachOK'
  BY <1>10 DEF Drop, MutexOK, MineOK, DetachOK, LiveOK
<1>11. ASSUME NEW d \in Dialers, Cancel(d) PROVE DetachOK'
  BY <1>11 DEF Cancel, MutexOK, MineOK, DetachOK, LiveOK
<1>12. ASSUME NEW d \in Dialers, Callback(d) PROVE DetachOK'
  BY <1>12 DEF Callback, MutexOK, MineOK, DetachOK, LiveOK
<1>13. ASSUME NEW c \in Clients, Expire(c) \/ NetworkDrop(c) PROVE DetachOK'
  BY <1>13 DEF Expire, NetworkDrop, MutexOK, MineOK, DetachOK, LiveOK
<1>14. CASE CloseSSHTunnel
  BY <1>14 DEF CloseSSHTunnel, MutexOK, MineOK, DetachOK, LiveOK
<1>15. CASE UNCHANGED vars
  BY <1>15 DEF vars, MutexOK, MineOK, DetachOK, LiveOK
<1> QED
  BY <1>1, <1>2, <1>3, <1>4, <1>5, <1>6, <1>7, <1>8, <1>9, <1>10, <1>11, <1>12, <1>13, <1>14, <1>15
  DEF Next, Step

(* Every path out of dialSSH closes the connection or shares it.            *)
LEMMA LiveStep ==
    ASSUME IInv, [Next]_vars
    PROVE  LiveOK'
<1> USE TunnelAssumption DEF TypeOK, PCs, Statuses, Working, Open, Holding, Making, Armed, Goto, Return, Close, Dead
<1> TypeOK /\ TypeOK' /\ MutexOK /\ MineOK /\ DetachOK /\ LiveOK
  BY TypeStep DEF IInv
<1>1. ASSUME NEW d \in Dialers, Dial(d) PROVE LiveOK'
  BY <1>1 DEF Dial, MutexOK, MineOK, DetachOK, LiveOK
<1>2. ASSUME NEW d \in Dialers, Get(d) PROVE LiveOK'
  BY <1>2 DEF Get, MutexOK, MineOK, DetachOK, LiveOK
<1>3. ASSUME NEW d \in Dialers, DialFails(d) PROVE LiveOK'
  BY <1>3 DEF DialFails, MutexOK, MineOK, DetachOK, LiveOK
<1>4. ASSUME NEW d \in Dialers, Connect(d) PROVE LiveOK'
  BY <1>4 DEF Connect, MutexOK, MineOK, DetachOK, LiveOK
<1>5. ASSUME NEW d \in Dialers, Handshake(d) PROVE LiveOK'
  BY <1>5 DEF Handshake, MutexOK, MineOK, DetachOK, LiveOK
<1>6. ASSUME NEW d \in Dialers, Publish(d) PROVE LiveOK'
  BY <1>6 DEF Publish, MutexOK, MineOK, DetachOK, LiveOK
<1>7. ASSUME NEW d \in Dialers, StopLate(d) PROVE LiveOK'
  BY <1>7 DEF StopLate, MutexOK, MineOK, DetachOK, LiveOK
<1>8. ASSUME NEW d \in Dialers, Join(d) PROVE LiveOK'
  BY <1>8 DEF Join, MutexOK, MineOK, DetachOK, LiveOK
<1>9. ASSUME NEW d \in Dialers, OpenOk(d) \/ OpenRefused(d) \/ OpenDead(d) PROVE LiveOK'
  BY <1>9 DEF OpenOk, OpenRefused, OpenDead, MutexOK, MineOK, DetachOK, LiveOK
<1>10. ASSUME NEW d \in Dialers, Drop(d) PROVE LiveOK'
  BY <1>10 DEF Drop, MutexOK, MineOK, DetachOK, LiveOK
<1>11. ASSUME NEW d \in Dialers, Cancel(d) PROVE LiveOK'
  BY <1>11 DEF Cancel, MutexOK, MineOK, DetachOK, LiveOK
<1>12. ASSUME NEW d \in Dialers, Callback(d) PROVE LiveOK'
  BY <1>12 DEF Callback, MutexOK, MineOK, DetachOK, LiveOK
<1>13. ASSUME NEW c \in Clients, Expire(c) \/ NetworkDrop(c) PROVE LiveOK'
  BY <1>13 DEF Expire, NetworkDrop, MutexOK, MineOK, DetachOK, LiveOK
<1>14. CASE CloseSSHTunnel
  BY <1>14 DEF CloseSSHTunnel, MutexOK, MineOK, DetachOK, LiveOK
<1>15. CASE UNCHANGED vars
  BY <1>15 DEF vars, MutexOK, MineOK, DetachOK, LiveOK
<1> QED
  BY <1>1, <1>2, <1>3, <1>4, <1>5, <1>6, <1>7, <1>8, <1>9, <1>10, <1>11, <1>12, <1>13, <1>14, <1>15
  DEF Next, Step

-----------------------------------------------------------------------------
(* The strengthened invariant holds of every behaviour.                     *)
THEOREM Inductive == Spec => []IInv
<1>1. Init => IInv
  BY TunnelAssumption
  DEF Init, IInv, TypeOK, PCs, Statuses, Working, Open, MutexOK, MineOK, DetachOK, LiveOK, Holding, Making, Armed
<1>2. IInv /\ [Next]_vars => IInv'
  BY TypeStep, MutexStep, MineStep, DetachStep, LiveStep DEF IInv
<1> QED BY <1>1, <1>2, PTL DEF Spec

(* The tunnel's state keeps its types.                                      *)
THEOREM TypeCorrect == Spec => []TypeOK
<1>1. IInv => TypeOK
  BY DEF IInv
<1> QED BY <1>1, Inductive, PTL

(* While a client is shared no one holds the mutex, so nobody is making one,*)
(* and no deadline or callback is left that could close the shared one.     *)
LEMMA SharedMeansFree ==
    ASSUME IInv, shared # NoClient
    PROVE  \A d \in Dialers : pc[d] \notin Making /\ callback[d] \notin Armed
BY TunnelAssumption DEF IInv, TypeOK, MutexOK, DetachOK, Holding, Making

(* The request that made the shared client can no longer close it, for any  *)
(* number of concurrent dialers.                                            *)
THEOREM SharedDetached == Spec => []SharedIsDetached
<1>1. IInv => SharedIsDetached
  BY SharedMeansFree DEF IInv, DetachOK, SharedIsDetached
<1> QED BY <1>1, Inductive, PTL

(* No path out of dialSSH leaks an open connection.                         *)
THEOREM NothingLeaks == Spec => []NoLeakedTransport
<1>1. IInv => NoLeakedTransport
  BY DEF IInv, MutexOK, LiveOK, Open, Holding, Making, NoLeakedTransport
<1> QED BY <1>1, Inductive, PTL

(* One step closes a live shared client only at exit.                       *)
LEMMA CutStep ==
    ASSUME IInv, [Next]_vars, shared # NoClient, status[shared] = "up",
           status'[shared] = "closed"
    PROVE  CloseSSHTunnel
<1> USE DEF Close, Goto, Return
<1>0. /\ shared \in Clients /\ shared \notin deadline
      /\ status \in [Clients -> Statuses]
      /\ \A d \in Dialers : pc[d] \notin Making /\ callback[d] \notin Armed
      /\ \A d \in Dialers : pc[d] = "drop" => Dead(mine[d])
  BY SharedMeansFree DEF IInv, TypeOK, DetachOK, MineOK
<1>1. ASSUME NEW d \in Dialers, Dial(d) \/ Get(d) \/ DialFails(d) \/ StopLate(d) \/ OpenOk(d)
                                \/ OpenRefused(d) \/ OpenDead(d) \/ Cancel(d)
      PROVE  FALSE
  BY <1>1 DEF Dial, Get, DialFails, StopLate, OpenOk, OpenRefused, OpenDead, Cancel
<1>2. ASSUME NEW d \in Dialers, Connect(d) PROVE FALSE
  BY <1>0, <1>2 DEF Connect
<1>3. ASSUME NEW d \in Dialers, Handshake(d) \/ Publish(d) \/ Join(d) PROVE FALSE
  BY <1>0, <1>3 DEF Handshake, Publish, Join, Making
<1>4. ASSUME NEW d \in Dialers, Drop(d) PROVE FALSE
  BY <1>0, <1>4 DEF Drop, Dead
<1>5. ASSUME NEW d \in Dialers, Callback(d) PROVE FALSE
  BY <1>0, <1>5 DEF Callback, Armed
<1>6. ASSUME NEW c \in Clients, Expire(c) \/ NetworkDrop(c) PROVE FALSE
  BY <1>0, <1>6 DEF Expire, NetworkDrop
<1>7. ~ UNCHANGED vars
  BY DEF vars
<1> QED BY <1>1, <1>2, <1>3, <1>4, <1>5, <1>6, <1>7 DEF Next, Step

(* No dialer's failure, deadline, cancellation or retry ever cuts the live  *)
(* client that others use.                                                  *)
THEOREM LiveTunnelIsSafe == Spec => NeverCutsLiveTunnel
<1>1. IInv /\ [Next]_vars =>
        [shared # NoClient /\ status[shared] = "up" /\ status'[shared] = "closed"
          => CloseSSHTunnel]_vars
  BY CutStep
<1> QED BY <1>1, Inductive, PTL DEF Spec, NeverCutsLiveTunnel
-----------------------------------------------------------------------------
(* The log tail.  First, what the library's operators compute.              *)

(* The naturals are well ordered.                                           *)
Below == {p \in Nat \X Nat : p[1] < p[2]}

LEMMA LeastNatural ==
  ASSUME NEW T \in SUBSET Nat, T # {}
  PROVE  \E m \in T : \A n \in T : m <= n
<1>1. IsWellFoundedOn(Below, Nat)
  BY NatLessThanWellFounded, Zenon DEF OpToRel, Below
<1>2. PICK m \in T : \A n \in T : ~ (<<n, m>> \in Below)
  BY <1>1, WFMin, Zenon
<1>3. \A n \in T : ~ (n < m)
  BY <1>2 DEF Below
<1> QED
  BY <1>3, SMT

(* FlattenSeq joins its sequences one after the other.                      *)
FlattensTo(s, f, n) == f = [i \in 1 .. n |-> IF i = 1 THEN s[i] ELSE f[i - 1] \o s[i]]

LEMMA FlattenExists ==
  ASSUME NEW s, NEW n \in Nat \ {0}
  PROVE  \E f : FlattensTo(s, f, n)
<1> DEFINE T == {k \in Nat \ {0} : ~ \E f : FlattensTo(s, f, k)}
<1> SUFFICES ASSUME T # {}
             PROVE  FALSE
  OBVIOUS
<1>1. PICK m \in T : \A k \in T : m <= k
  BY LeastNatural
<1>2. CASE m = 1
  <2>1. FlattensTo(s, [i \in 1 .. 1 |-> s[i]], 1)
    BY DEF FlattensTo
  <2> QED
    BY <1>1, <1>2, <2>1
<1>3. CASE m # 1
  <2>1. m - 1 \in Nat \ {0} /\ m - 1 \notin T
    BY <1>1, <1>3
  <2>2. PICK g : FlattensTo(s, g, m - 1)
    BY <2>1
  <2> DEFINE h == [i \in 1 .. m |-> IF i = m THEN g[m - 1] \o s[m] ELSE g[i]]
  <2>3. \A i \in 1 .. m - 1 : g[i] = IF i = 1 THEN s[i] ELSE g[i - 1] \o s[i]
    BY <2>2 DEF FlattensTo
  <2>4. FlattensTo(s, h, m)
    <3> SUFFICES \A i \in 1 .. m : h[i] = IF i = 1 THEN s[i] ELSE h[i - 1] \o s[i]
      BY DEF FlattensTo
    <3> QED
      BY <1>1, <1>3, <2>3
  <2> QED
    BY <1>1, <2>4
<1> QED
  BY <1>2, <1>3

LEMMA FlattenIs ==
  ASSUME NEW s, Len(s) \in Nat \ {0}
  PROVE  \E f : FlattensTo(s, f, Len(s)) /\ FlattenSeq(s) = f[Len(s)]
<1> DEFINE f == CHOOSE f : f = [i \in 1 .. Len(s) |-> IF i = 1 THEN s[i] ELSE f[i - 1] \o s[i]]
<1>1. FlattensTo(s, f, Len(s))
  BY FlattenExists DEF FlattensTo
<1>2. FlattenSeq(s) = f[Len(s)]
  BY DEF FlattenSeq
<1> QED
  BY <1>1, <1>2

LEMMA FlattenAgrees ==
  ASSUME NEW S, NEW s \in Seq(Seq(S)), NEW x \in Seq(S), NEW f, NEW g,
         FlattensTo(s, f, Len(s)), FlattensTo(Append(s, x), g, Len(s) + 1)
  PROVE  \A i \in 1 .. Len(s) : g[i] = f[i] /\ f[i] \in Seq(S)
<1> DEFINE T == {i \in 1 .. Len(s) : ~ (g[i] = f[i] /\ f[i] \in Seq(S))}
<1> SUFFICES ASSUME T # {}
             PROVE  FALSE
  OBVIOUS
<1>0. Len(s) \in Nat
  BY LenProperties
<1>1. PICK m \in T : \A k \in T : m <= k
  <2>1. T \in SUBSET Nat
    BY <1>0
  <2> QED
    BY <2>1, LeastNatural
<1>2. /\ Append(s, x)[m] = s[m] /\ s[m] \in Seq(S)
      /\ Len(s) \in Nat
  BY AppendProperties, ElementOfSeq
<1>3. /\ f[m] = IF m = 1 THEN s[m] ELSE f[m - 1] \o s[m]
      /\ g[m] = IF m = 1 THEN s[m] ELSE g[m - 1] \o s[m]
  <2>1. m \in 1 .. Len(s) /\ m \in 1 .. Len(s) + 1
    BY <1>0
  <2>2. f[m] = IF m = 1 THEN s[m] ELSE f[m - 1] \o s[m]
    BY <2>1 DEF FlattensTo
  <2>3. g[m] = IF m = 1 THEN Append(s, x)[m] ELSE g[m - 1] \o Append(s, x)[m]
    BY <2>1 DEF FlattensTo
  <2> QED
    BY <1>2, <2>2, <2>3
<1>4. CASE m = 1
  BY <1>1, <1>2, <1>3, <1>4
<1>5. CASE m # 1
  <2>1. m - 1 \in 1 .. Len(s) /\ m - 1 \notin T
    BY <1>1, <1>5
  <2>2. g[m - 1] = f[m - 1] /\ f[m - 1] \in Seq(S)
    BY <2>1
  <2>3. f[m - 1] \o s[m] \in Seq(S)
    BY <1>2, <2>2, ConcatProperties
  <2> QED
    BY <1>3, <1>5, <2>2, <2>3
<1> QED
  BY <1>4, <1>5

LEMMA FlattenEmpty == FlattenSeq(<<>>) = <<>>
  BY DEF FlattenSeq

LEMMA FlattenAppend ==
  ASSUME NEW S, NEW s \in Seq(Seq(S)), NEW x \in Seq(S)
  PROVE  FlattenSeq(Append(s, x)) = FlattenSeq(s) \o x /\ FlattenSeq(s) \in Seq(S)
<1>1. /\ Len(Append(s, x)) = Len(s) + 1 /\ Len(s) \in Nat
      /\ Append(s, x)[Len(s) + 1] = x
  BY AppendProperties, LenProperties
<1>2. PICK g : FlattensTo(Append(s, x), g, Len(s) + 1) /\ FlattenSeq(Append(s, x)) = g[Len(s) + 1]
  <2>1. Len(s) + 1 \in Nat \ {0}
    BY <1>1
  <2> QED
    BY <1>1, <2>1, FlattenIs
<1>3. g[Len(s) + 1] = IF Len(s) = 0 THEN x ELSE g[Len(s)] \o x
  <2>1. Len(s) + 1 \in 1 .. Len(s) + 1 /\ (Len(s) + 1 = 1 <=> Len(s) = 0)
        /\ (Len(s) + 1) - 1 = Len(s)
    BY <1>1
  <2> QED
    BY <1>1, <1>2, <2>1 DEF FlattensTo
<1>4. CASE s = <<>>
  BY <1>1, <1>2, <1>3, <1>4, FlattenEmpty, ConcatEmptySeq, EmptySeq
<1>5. CASE s # <<>>
  <2>1. Len(s) \in Nat \ {0}
    BY <1>1, <1>5, EmptySeq
  <2>2. PICK f : FlattensTo(s, f, Len(s)) /\ FlattenSeq(s) = f[Len(s)]
    BY <2>1, FlattenIs
  <2>3. g[Len(s)] = f[Len(s)] /\ f[Len(s)] \in Seq(S)
    BY <1>2, <2>1, <2>2, FlattenAgrees
  <2> QED
    BY <1>2, <1>3, <2>1, <2>2, <2>3
<1> QED
  BY <1>4, <1>5

(* FoldLeft feeds a chunk piece by piece.                                   *)
FoldsTo(base, chunk, f, D) ==
  f = [S \in SUBSET D |->
         IF S = {} THEN base ELSE Feed(f[S \ {Max(S)}], chunk[Max(S)])]

LEMMA MaxIs ==
  ASSUME NEW S \in SUBSET Int, NEW m \in S, \A y \in S : m >= y
  PROVE  Max(S) = m
<1>1. \A x \in S : (\A y \in S : x >= y) => x = m
  OBVIOUS
<1> QED
  BY <1>1 DEF Max

LEMMA FoldExists ==
  ASSUME NEW base, NEW chunk, NEW n \in Nat
  PROVE  \E f : FoldsTo(base, chunk, f, 1 .. n)
<1> DEFINE T == {k \in Nat : ~ \E f : FoldsTo(base, chunk, f, 1 .. k)}
<1> SUFFICES ASSUME T # {}
             PROVE  FALSE
  OBVIOUS
<1>1. PICK m \in T : \A k \in T : m <= k
  BY LeastNatural
<1>2. CASE m = 0
  <2>1. FoldsTo(base, chunk, [S \in SUBSET (1 .. 0) |-> base], 1 .. 0)
    BY DEF FoldsTo
  <2> QED
    BY <1>1, <1>2, <2>1
<1>3. CASE m # 0
  <2>1. m - 1 \in Nat /\ m - 1 \notin T
    BY <1>1, <1>3
  <2>2. PICK g : FoldsTo(base, chunk, g, 1 .. m - 1)
    BY <2>1
  <2> DEFINE h == [S \in SUBSET (1 .. m) |->
                     IF m \in S THEN Feed(g[S \ {m}], chunk[m]) ELSE g[S]]
  <2>3. \A S \in SUBSET (1 .. m - 1) :
           g[S] = IF S = {} THEN base ELSE Feed(g[S \ {Max(S)}], chunk[Max(S)])
    BY <2>2 DEF FoldsTo
  <2>4. ASSUME NEW S \in SUBSET (1 .. m)
        PROVE  h[S] = IF S = {} THEN base ELSE Feed(h[S \ {Max(S)}], chunk[Max(S)])
    <3>1. CASE m \in S
      <4>1. Max(S) = m
        BY <1>1, <3>1, MaxIs
      <4>2. h[S \ {m}] = g[S \ {m}]
        OBVIOUS
      <4> QED
        BY <3>1, <4>1, <4>2
    <3>2. CASE m \notin S
      <4>1. S \in SUBSET (1 .. m - 1)
        BY <1>1, <3>2
      <4>2. h[S] = g[S] /\ h[S \ {Max(S)}] = g[S \ {Max(S)}]
        BY <3>2
      <4> QED
        BY <2>3, <4>1, <4>2
    <3> QED
      BY <3>1, <3>2
  <2>5. FoldsTo(base, chunk, h, 1 .. m)
    BY <2>4 DEF FoldsTo
  <2> QED
    BY <1>1, <2>5
<1> QED
  BY <1>2, <1>3

Piece == [entry : Nat, part : {"prefix", "message", "detail"}]
FeedRun(st, c, p, chunk) ==
    /\ st[0] = State(c, p, <<>>) /\ st[Len(chunk)] = Parse(c, p, chunk)
    /\ \A k \in 1 .. Len(chunk) : st[k] = Feed(st[k - 1], chunk[k])

LEMMA ParsePieces ==
  ASSUME NEW c, NEW p, NEW chunk \in Seq(Piece)
  PROVE  \E st : FeedRun(st, c, p, chunk)
<1> DEFINE base == State(c, p, <<>>)
           f == CHOOSE f : f = [A \in SUBSET DOMAIN chunk |->
                    IF A = {} THEN base ELSE Feed(f[A \ {Max(A)}], chunk[Max(A)])]
           st == [k \in 0 .. Len(chunk) |-> f[1 .. k]]
<1>1. DOMAIN chunk = 1 .. Len(chunk) /\ Len(chunk) \in Nat
  BY LenProperties
<1>2. FoldsTo(base, chunk, f, DOMAIN chunk)
  <2>1. \E g : FoldsTo(base, chunk, g, DOMAIN chunk)
    BY <1>1, FoldExists
  <2> QED
    BY <2>1 DEF FoldsTo
<1>3. Parse(c, p, chunk) = f[1 .. Len(chunk)]
  BY <1>1 DEF Parse, FoldLeft, MapThenFoldSet
<1> HIDE DEF f
<1>4. st[0] = base /\ base = State(c, p, <<>>)
  BY <1>1, <1>2 DEF FoldsTo
<1>5. ASSUME NEW k \in 1 .. Len(chunk)
      PROVE  st[k] = Feed(st[k - 1], chunk[k])
  <2>1. Max(1 .. k) = k /\ (1 .. k) \ {k} = 1 .. k - 1 /\ 1 .. k # {}
    <3>1. k \in 1 .. k /\ (1 .. k) \in SUBSET Int /\ \A y \in 1 .. k : k >= y
      BY <1>1
    <3>2. Max(1 .. k) = k
      BY <3>1, MaxIs
    <3>3. k \in Nat /\ k >= 1
      BY <1>1
    <3>4. (1 .. k) \ {k} = 1 .. k - 1 /\ 1 .. k # {}
      <4>1. \A x : x \in (1 .. k) \ {k} <=> x \in 1 .. k - 1
        BY <3>3
      <4>2. k \in 1 .. k
        BY <3>3
      <4> QED
        BY <4>1, <4>2
    <3> QED
      BY <3>2, <3>4
  <2>2. f[1 .. k] = Feed(f[1 .. k - 1], chunk[k])
    <3>1. (1 .. k) \in SUBSET DOMAIN chunk
      BY <1>1
    <3> QED
      BY <1>2, <2>1, <3>1 DEF FoldsTo
  <2> QED
    BY <1>1, <2>2
<1>6. st[Len(chunk)] = Parse(c, p, chunk)
  BY <1>1, <1>3
<1>7. FeedRun(st, c, p, chunk)
  <2> HIDE DEF st, base
  <2> QED
    BY <1>4, <1>5, <1>6, Zenon DEF FeedRun
<1> HIDE DEF st
<1> QED
  BY <1>7
-----------------------------------------------------------------------------
(* The pieces of a log, in the order the server writes them.                *)
Part(k) == <<"prefix", "message", "detail">>[((k - 1) % 3) + 1]
IsLog(data) ==
    /\ data \in Seq(Piece) /\ Len(data) % 3 = 0
    /\ \A k \in 1 .. Len(data) :
          data[k].part = Part(k) /\ (k % 3 # 1 => data[k].entry = data[k - 1].entry)

(* What the parser holds when it has read a log up to `offset`: the half of *)
(* a line, and the lines of the last entry unless it was flushed whole.     *)
InLine(offset) == IF offset % 3 = 1 THEN 1 ELSE 0
Holds(data, offset, c, p) ==
    /\ c = SubSeq(data, offset - InLine(offset) + 1, offset)
    /\ \/ p = <<>> /\ offset % 3 # 2
       \/ \E start \in 0 .. offset - InLine(offset) - 1 :
            /\ start % 3 = 0 /\ offset - InLine(offset) <= start + 3
            /\ p = SubSeq(data, start + 1, offset - InLine(offset))
Accounted(data, offset, g, c, p) ==
    /\ offset <= Len(data)
    /\ Holds(data, offset, c, p)
    /\ g \o p \o c = SubSeq(data, 1, offset)
Whole(entry) == entry = Pieces(entry[1].entry)

(* The inductive invariant: types (every file is a log), what rotation      *)
(* does to the generations, by which a file is recognised as the one the    *)
(* offset belongs to, and what the parser holds at every offset, which is   *)
(* what makes ConsumedIsAccounted inductive.                                *)
TailTypes ==
    /\ files \in [Names -> [gen : Nat, data : Seq(Piece)]]
    /\ \A n \in Names : IsLog(files[n].data)
    /\ current \in Names /\ written \in Nat
    /\ stat \in Names
    /\ pos \in [name : Names, size : Nat, offset : Nat, gen : Nat]
    /\ out \in Seq(Seq(Piece)) /\ got \in Seq(Piece) /\ pending \in Seq(Piece) /\ carry \in Seq(Piece)
    /\ slipped \in BOOLEAN
    /\ poll = "read" => pos.offset <= pos.size
Generations ==
    /\ \A n \in Names : files[n].gen <= files[current].gen
    /\ \A n \in {current, stat} : files[n].gen = 0 => n = First
    /\ \A m, n \in Names : m # n /\ files[m].gen = files[n].gen => files[n].gen = 0
    /\ pos.gen <= files[pos.name].gen
    /\ \A n \in Names \ {pos.name} : files[n].gen = pos.gen => files[n].gen = 0
    /\ pos.gen = 0 => pos.name = First
Accounting ==
    ~slipped /\ files[pos.name].gen = pos.gen =>
        Accounted(files[pos.name].data, pos.offset, got, carry, pending)
TailInv == TailTypes /\ Generations /\ Accounting
-----------------------------------------------------------------------------
(* A prefix of a sequence and one element more.                             *)
LEMMA SubSeqNext ==
  ASSUME NEW S, NEW d \in Seq(S), NEW a \in 1 .. Len(d), NEW b \in Nat, a <= b + 1, b < Len(d)
  PROVE  /\ Append(SubSeq(d, a, b), d[b + 1]) = SubSeq(d, a, b + 1)
         /\ SubSeq(d, a, b) \in Seq(S) /\ SubSeq(d, a, b + 1) \in Seq(S)
         /\ Len(SubSeq(d, a, b + 1)) = b + 2 - a
         /\ \A i \in 1 .. b + 2 - a : SubSeq(d, a, b + 1)[i] = d[a + i - 1]
<1> DEFINE s == SubSeq(d, a, b)  t == SubSeq(d, a, b + 1)
<1>0. Len(d) \in Nat /\ \A i \in 1 .. Len(d) : d[i] \in S
  BY LenProperties, ElementOfSeq
<1>1. /\ s \in Seq(S) /\ Len(s) = b + 1 - a
      /\ \A i \in 1 .. b + 1 - a : s[i] = d[a + i - 1]
  <2>1. \A i \in a .. b : d[i] \in S
    BY <1>0
  <2> QED
    BY <2>1, <1>0, SubSeqProperties
<1>2. /\ t \in Seq(S) /\ Len(t) = b + 2 - a
      /\ \A i \in 1 .. b + 2 - a : t[i] = d[a + i - 1]
  <2>1. \A i \in a .. b + 1 : d[i] \in S
    BY <1>0
  <2>2. a \in Int /\ b + 1 \in Int /\ a <= b + 1 /\ (b + 1) - a + 1 = b + 2 - a
    BY <1>0
  <2> QED
    BY <2>1, <2>2, SubSeqProperties
<1> HIDE DEF s, t
<1>3. d[b + 1] \in S
  BY <1>0
<1>4. /\ Append(s, d[b + 1]) \in Seq(S) /\ Len(Append(s, d[b + 1])) = Len(s) + 1
      /\ \A i \in 1 .. Len(s) : Append(s, d[b + 1])[i] = s[i]
      /\ Append(s, d[b + 1])[Len(s) + 1] = d[b + 1]
  BY <1>1, <1>3, AppendProperties
<1>5. Append(s, d[b + 1]) = t
  <2>1. Len(Append(s, d[b + 1])) = Len(t)
    BY <1>0, <1>1, <1>2, <1>4
  <2>2. \A i \in 1 .. Len(Append(s, d[b + 1])) : Append(s, d[b + 1])[i] = t[i]
    <3> SUFFICES ASSUME NEW i \in 1 .. b + 2 - a
                 PROVE  Append(s, d[b + 1])[i] = t[i]
      BY <1>0, <1>1, <1>4
    <3>1. CASE i = b + 2 - a
      BY <1>0, <1>1, <1>2, <1>4, <3>1
    <3>2. CASE i # b + 2 - a
      BY <1>0, <1>1, <1>2, <1>4, <3>2
    <3> QED
      BY <3>1, <3>2
  <2> QED
    BY <1>2, <1>4, <2>1, <2>2, SeqEqual
<1> QED
  BY <1>1, <1>2, <1>5 DEF s, t

LEMMA Joined ==
  ASSUME NEW S, NEW a \in Seq(S), NEW b \in Seq(S), NEW x \in S
  PROVE  a \o Append(b, x) = Append(a \o b, x) /\ a \o b \in Seq(S)
<1>1. Append(b, x) = b \o <<x>> /\ <<x>> \in Seq(S)
  BY AppendIsConcat
<1>2. a \o b \in Seq(S)
  BY ConcatProperties
<1>3. Append(a \o b, x) = (a \o b) \o <<x>>
  BY <1>2, AppendIsConcat
<1> QED
  BY <1>1, <1>2, <1>3, ConcatAssociative

LEMMA PiecesType ==
  ASSUME NEW e \in Nat
  PROVE  /\ Pieces(e) \in Seq(Piece) /\ Len(Pieces(e)) = 3
         /\ \A i \in 1 .. 3 : Pieces(e)[i].entry = e /\ Pieces(e)[i].part = Part(i)
<1>1. Pieces(e) \in [1 .. 3 -> Piece]
  BY DEF Pieces, Piece
<1>2. Pieces(e) \in Seq(Piece)
  BY <1>1, SeqDef
<1>3. 1 .. Len(Pieces(e)) = 1 .. 3 /\ Len(Pieces(e)) \in Nat
  BY <1>1, <1>2, LenProperties
<1>4. \A i \in 1 .. 3 : (i - 1) % 3 = i - 1
  OBVIOUS
<1> QED
  BY <1>2, <1>3, <1>4 DEF Pieces, Part

LEMMA JoinedPieces ==
  ASSUME NEW a \in Seq(Piece), NEW b \in Seq(Piece), NEW x \in Piece
  PROVE  a \o Append(b, x) = Append(a \o b, x) /\ a \o b \in Seq(Piece)
  BY Joined

(* Three pieces of a log from an entry's start are that entry.              *)
LEMMA EntryIsWhole ==
  ASSUME NEW d, IsLog(d), NEW k \in Nat, k % 3 = 0, k + 3 <= Len(d)
  PROVE  Whole(SubSeq(d, k + 1, k + 3))
<1> DEFINE s == SubSeq(d, k + 1, k + 3)
<1>0. d \in Seq(Piece) /\ Len(d) \in Nat /\ \A i \in 1 .. Len(d) : d[i] \in Piece
  BY LenProperties, ElementOfSeq DEF IsLog
<1>1. \A i \in k + 1 .. k + 3 : d[i] \in Piece
  BY <1>0
<1>2. s \in Seq(Piece) /\ Len(s) = 3 /\ \A i \in 1 .. 3 : s[i] = d[k + i]
  <2>1. s \in Seq(Piece) /\ Len(s) = 3 /\ \A i \in 1 .. (k + 3) - (k + 1) + 1 : s[i] = d[(k + 1) + i - 1]
    BY <1>1, SubSeqProperties
  <2> QED
    BY <2>1
<1>3. /\ d[k + 1].part = "prefix" /\ d[k + 2].part = "message" /\ d[k + 3].part = "detail"
      /\ d[k + 2].entry = d[k + 1].entry /\ d[k + 3].entry = d[k + 2].entry
  <2>1. k + 1 \in 1 .. Len(d) /\ k + 2 \in 1 .. Len(d) /\ k + 3 \in 1 .. Len(d)
    BY <1>0
  <2>2. /\ ((k + 1) - 1) % 3 = 0 /\ ((k + 2) - 1) % 3 = 1 /\ ((k + 3) - 1) % 3 = 2
        /\ (k + 2) % 3 # 1 /\ (k + 3) % 3 # 1
        /\ (k + 2) - 1 = k + 1 /\ (k + 3) - 1 = k + 2
    OBVIOUS
  <2> QED
    BY <2>1, <2>2 DEF IsLog, Part
<1>4. \A i \in 1 .. 3 : s[i] = Pieces(s[1].entry)[i]
  BY <1>0, <1>1, <1>2, <1>3 DEF Pieces, Piece
<1>5. Pieces(s[1].entry) \in Seq(Piece) /\ Len(Pieces(s[1].entry)) = 3
  <2>1. k + 1 \in k + 1 .. k + 3 /\ 1 \in 1 .. 3
    OBVIOUS
  <2>2. s[1] \in Piece
    BY <1>1, <1>2, <2>1
  <2>3. s[1].entry \in Nat
    BY <2>2 DEF Piece
  <2> QED
    BY <2>3, PiecesType
<1> QED
  BY <1>2, <1>4, <1>5, SeqEqual DEF Whole

(* One piece fed to a parser that holds what it should: it still does, and  *)
(* if an entry was completed, that entry is whole.                          *)
ParserType(s) ==
    s.carry \in Seq(Piece) /\ s.pending \in Seq(Piece) /\ s.done \in Seq(Seq(Piece))
Advances(s, t, x) ==
    \/ t.done = s.done /\ t.pending \o t.carry = Append(s.pending \o s.carry, x)
    \/ /\ t.done = Append(s.done, s.pending) /\ Whole(s.pending)
       /\ t.pending \o t.carry = Append(s.carry, x)

LEMMA PieceAt ==
  ASSUME NEW d, IsLog(d), NEW o \in Nat, o < Len(d)
  PROVE  d \in Seq(Piece) /\ Len(d) \in Nat /\ d[o + 1] \in Piece /\ d[o + 1].part = Part(o + 1)
<1>1. d \in Seq(Piece) /\ Len(d) \in Nat
  BY LenProperties DEF IsLog
<1>2. o + 1 \in 1 .. Len(d)
  BY <1>1
<1> QED
  BY <1>1, <1>2, ElementOfSeq DEF IsLog

LEMMA Parts ==
  ASSUME NEW o \in Nat
  PROVE  /\ o % 3 = 0 => /\ Part(o + 1) = "prefix" /\ InLine(o) = 0 /\ InLine(o + 1) = 1
                          /\ (o + 1) % 3 = 1
         /\ o % 3 = 1 => /\ Part(o + 1) = "message" /\ InLine(o) = 1 /\ InLine(o + 1) = 0
                          /\ (o + 1) % 3 = 2 /\ o >= 1
         /\ o % 3 = 2 => /\ Part(o + 1) = "detail" /\ InLine(o) = 0 /\ InLine(o + 1) = 0
                          /\ (o + 1) % 3 = 0
<1>1. (o + 1) - 1 = o
  OBVIOUS
<1>2. /\ o % 3 = 0 => (o + 1) % 3 = 1
      /\ o % 3 = 1 => (o + 1) % 3 = 2 /\ o >= 1
      /\ o % 3 = 2 => (o + 1) % 3 = 0
  OBVIOUS
<1>3. /\ o % 3 = 0 => Part(o + 1) = "prefix"
      /\ o % 3 = 1 => Part(o + 1) = "message"
      /\ o % 3 = 2 => Part(o + 1) = "detail"
  BY <1>1 DEF Part
<1>4. /\ o % 3 = 0 => InLine(o) = 0 /\ InLine(o + 1) = 1
      /\ o % 3 = 1 => InLine(o) = 1 /\ InLine(o + 1) = 0
      /\ o % 3 = 2 => InLine(o) = 0 /\ InLine(o + 1) = 0
  BY <1>2 DEF InLine
<1> QED
  BY <1>2, <1>3, <1>4

(* A place before the offset is a place of the log that is read.            *)
LEMMA StartBefore ==
  ASSUME NEW n \in Nat, NEW o \in Nat, o < n, NEW start \in 0 .. o - 1
  PROVE  start + 1 \in 1 .. n /\ start + 1 <= o + 1
OBVIOUS

(* The parts of an entry follow each other the same way wherever it stands  *)
(* in a log of whole entries.                                               *)
LEMMA PartsRepeat ==
  ASSUME NEW n \in Nat, n % 3 = 0, NEW i \in 1 .. 3
  PROVE  /\ ((n + i) - 1) % 3 = (i - 1) % 3 /\ ((n + i) % 3 # 1 => i # 1)
         /\ i # 1 => i - 1 \in 1 .. 3 /\ (n + i) - 1 = n + (i - 1)
<1>1. CASE i = 1
  BY <1>1
<1>2. CASE i = 2
  BY <1>2
<1>3. CASE i = 3
  BY <1>3
<1> QED
  BY <1>1, <1>2, <1>3

LEMMA FeedPrefix ==
  ASSUME NEW d, IsLog(d), NEW o \in Nat, o < Len(d), o % 3 = 0,
         NEW s, ParserType(s), Holds(d, o, s.carry, s.pending)
  PROVE  /\ ParserType(Feed(s, d[o + 1])) /\ Advances(s, Feed(s, d[o + 1]), d[o + 1])
         /\ Holds(d, o + 1, Feed(s, d[o + 1]).carry, Feed(s, d[o + 1]).pending)
<1> DEFINE x == d[o + 1]  t == Feed(s, x)
<1>1. /\ d \in Seq(Piece) /\ Len(d) \in Nat /\ x \in Piece /\ x.part = "prefix"
      /\ InLine(o) = 0 /\ InLine(o + 1) = 1 /\ (o + 1) % 3 = 1
  BY PieceAt, Parts
<1>2. t.carry = Append(s.carry, x) /\ t.pending = s.pending /\ t.done = s.done
  BY <1>1 DEF Feed, EndsLine, State
<1>3. s.carry = SubSeq(d, o + 1, o)
  <2>1. o - InLine(o) + 1 = o + 1
    BY <1>1
  <2>2. s.carry = SubSeq(d, o - InLine(o) + 1, o)
    BY Zenon DEF Holds
  <2> QED
    BY <2>1, <2>2, Zenon
<1>4. Append(SubSeq(d, o + 1, o), d[o + 1]) = SubSeq(d, o + 1, o + 1)
  <2>1. o + 1 \in 1 .. Len(d) /\ o + 1 <= o + 1
    BY <1>1
  <2> QED
    BY <1>1, <2>1, SubSeqNext
<1> HIDE DEF x, t
<1>5. t.carry = SubSeq(d, (o + 1) - InLine(o + 1) + 1, o + 1)
  <2>1. (o + 1) - InLine(o + 1) + 1 = o + 1
    BY <1>1
  <2> QED
    BY <1>2, <1>3, <1>4, <2>1 DEF x
<1>6. Holds(d, o + 1, t.carry, t.pending)
  <2>1. CASE s.pending = <<>>
    <3>1. t.pending = <<>> /\ (o + 1) % 3 # 2
      BY <1>1, <1>2, <2>1
    <3> QED
      BY <1>5, <3>1, Zenon DEF Holds
  <2>2. CASE s.pending # <<>>
    <3>1. PICK start \in 0 .. o - 1 :
             start % 3 = 0 /\ o <= start + 3 /\ s.pending = SubSeq(d, start + 1, o)
      BY <1>1, <2>2 DEF Holds
    <3>2. start \in 0 .. (o + 1) - InLine(o + 1) - 1 /\ (o + 1) - InLine(o + 1) = o
      BY <1>1, <3>1
    <3> QED
      BY <1>2, <1>5, <3>1, <3>2 DEF Holds
  <2> QED
    BY <2>1, <2>2
<1>7. ParserType(t)
  BY <1>1, <1>2, AppendProperties DEF ParserType
<1>8. Advances(s, t, x)
  <2>1. s.pending \o Append(s.carry, x) = Append(s.pending \o s.carry, x)
    BY <1>1, JoinedPieces DEF ParserType
  <2> QED
    BY <1>2, <2>1 DEF Advances
<1> QED
  BY <1>6, <1>7, <1>8 DEF t, x

LEMMA FeedMessage ==
  ASSUME NEW d, IsLog(d), NEW o \in Nat, o < Len(d), o % 3 = 1,
         NEW s, ParserType(s), Holds(d, o, s.carry, s.pending)
  PROVE  /\ ParserType(Feed(s, d[o + 1])) /\ Advances(s, Feed(s, d[o + 1]), d[o + 1])
         /\ Holds(d, o + 1, Feed(s, d[o + 1]).carry, Feed(s, d[o + 1]).pending)
<1> DEFINE x == d[o + 1]  t == Feed(s, x)  line == Append(s.carry, x)
<1>1. /\ d \in Seq(Piece) /\ Len(d) \in Nat /\ x \in Piece /\ x.part = "message" /\ o >= 1
      /\ InLine(o) = 1 /\ InLine(o + 1) = 0 /\ (o + 1) % 3 = 2
  BY PieceAt, Parts
<1>2. line = SubSeq(d, o, o + 1) /\ Len(line) = 2 /\ line[2] = x /\ line \in Seq(Piece)
  <2>1. s.carry = SubSeq(d, o, o)
    <3>1. o - InLine(o) + 1 = o
      BY <1>1
    <3> QED
      BY <3>1 DEF Holds
  <2>2. o \in 1 .. Len(d) /\ o <= o + 1 /\ o + 2 - o = 2 /\ 2 \in 1 .. 2 /\ o + 2 - 1 = o + 1
    BY <1>1
  <2>3. /\ Append(SubSeq(d, o, o), d[o + 1]) = SubSeq(d, o, o + 1)
        /\ SubSeq(d, o, o + 1) \in Seq(Piece) /\ Len(SubSeq(d, o, o + 1)) = o + 2 - o
        /\ \A i \in 1 .. o + 2 - o : SubSeq(d, o, o + 1)[i] = d[o + i - 1]
    BY <1>1, <2>2, SubSeqNext
  <2> QED
    BY <2>1, <2>2, <2>3
<1>3. /\ t.carry = <<>> /\ t.pending = line
      /\ t.done = IF s.pending = <<>> THEN s.done ELSE Append(s.done, s.pending)
  BY <1>1, <1>2 DEF Feed, FeedLine, EndsLine, State
<1> HIDE DEF x, t, line
<1>4. Holds(d, o + 1, t.carry, t.pending)
  <2>1. (o + 1) - InLine(o + 1) + 1 = o + 2 /\ SubSeq(d, o + 2, o + 1) = <<>>
    BY <1>1, SubSeqEmpty
  <2>2. /\ o - 1 \in 0 .. (o + 1) - InLine(o + 1) - 1 /\ (o - 1) % 3 = 0
        /\ (o + 1) - InLine(o + 1) <= (o - 1) + 3
        /\ (o - 1) + 1 = o /\ (o + 1) - InLine(o + 1) = o + 1
    BY <1>1
  <2> QED
    BY <1>2, <1>3, <2>1, <2>2 DEF Holds
<1>5. ParserType(t)
  <2>1. <<>> \in Seq(Piece) /\ Append(s.done, s.pending) \in Seq(Seq(Piece))
    BY EmptySeq, AppendProperties DEF ParserType
  <2> QED
    BY <1>2, <1>3, <2>1 DEF ParserType
<1>6. line \o <<>> = line
  BY <1>2, ConcatEmptySeq
<1>7. Advances(s, t, x)
  <2>1. CASE s.pending = <<>>
    <3>1. s.pending \o s.carry = s.carry
      BY <2>1, ConcatEmptySeq DEF ParserType
    <3> QED
      BY <1>3, <1>6, <2>1, <3>1 DEF Advances, line
  <2>2. CASE s.pending # <<>>
    <3>1. PICK start \in 0 .. o - 1 - 1 :
             start % 3 = 0 /\ o - 1 <= start + 3 /\ s.pending = SubSeq(d, start + 1, o - 1)
      BY <1>1, <2>2 DEF Holds
    <3>2. start = o - 4 /\ start \in Nat /\ start + 3 = o - 1 /\ start + 3 <= Len(d)
      BY <1>1, <3>1
    <3>3. Whole(s.pending)
      BY <3>1, <3>2, EntryIsWhole
    <3> QED
      BY <1>3, <1>6, <2>2, <3>3 DEF Advances, line
  <2> QED
    BY <2>1, <2>2
<1> QED
  BY <1>4, <1>5, <1>7 DEF t, x

LEMMA FeedDetail ==
  ASSUME NEW d, IsLog(d), NEW o \in Nat, o < Len(d), o % 3 = 2,
         NEW s, ParserType(s), Holds(d, o, s.carry, s.pending)
  PROVE  /\ ParserType(Feed(s, d[o + 1])) /\ Advances(s, Feed(s, d[o + 1]), d[o + 1])
         /\ Holds(d, o + 1, Feed(s, d[o + 1]).carry, Feed(s, d[o + 1]).pending)
<1> DEFINE x == d[o + 1]  t == Feed(s, x)  line == Append(s.carry, x)
<1>1. /\ d \in Seq(Piece) /\ Len(d) \in Nat /\ x \in Piece /\ x.part = "detail"
      /\ InLine(o) = 0 /\ InLine(o + 1) = 0 /\ (o + 1) % 3 = 0
  BY PieceAt, Parts
<1>2. s.carry = <<>>
  <2>1. o - InLine(o) + 1 = o + 1 /\ SubSeq(d, o + 1, o) = <<>>
    BY <1>1, SubSeqEmpty
  <2> QED
    BY <2>1 DEF Holds
<1>3. line \in Seq(Piece) /\ Len(line) = 1 /\ line[1] = x
  <2>1. s.carry \in Seq(Piece) /\ Len(s.carry) = 0
    BY <1>2, EmptySeq
  <2> QED
    BY <1>1, <2>1, AppendProperties
<1>4. PICK start \in 0 .. o - 1 :
         start % 3 = 0 /\ o <= start + 3 /\ s.pending = SubSeq(d, start + 1, o)
  BY <1>1 DEF Holds
<1>5. /\ start + 1 \in 1 .. Len(d) /\ start + 1 <= o + 1
      /\ Append(SubSeq(d, start + 1, o), d[o + 1]) = SubSeq(d, start + 1, o + 1)
      /\ SubSeq(d, start + 1, o + 1) \in Seq(Piece)
  <2>1. start + 1 \in 1 .. Len(d) /\ start + 1 <= o + 1
    BY <1>1, <1>4, StartBefore, Zenon
  <2> QED
    BY <1>1, <2>1, SubSeqNext
<1>6. s.pending # <<>>
  <2>1. Len(SubSeq(d, start + 1, o)) = o - (start + 1) + 1
    <3>1. \A i \in start + 1 .. o : d[i] \in Piece
      <4>1. \A i \in 1 .. Len(d) : d[i] \in Piece
        BY <1>1, ElementOfSeq
      <4>2. \A i \in start + 1 .. o : i \in 1 .. Len(d)
        <5>1. start \in Nat
          BY <1>4
        <5> QED
          BY <1>1, <5>1
      <4> QED
        BY <4>1, <4>2
    <3> QED
      BY <1>4, <3>1, SubSeqProperties
  <2> QED
    BY <1>4, <2>1, EmptySeq
<1>7. t.carry = <<>> /\ t.pending = s.pending \o line /\ t.done = s.done
  BY <1>1, <1>3, <1>6 DEF Feed, FeedLine, EndsLine, State
<1>8. /\ t.pending = Append(s.pending \o s.carry, x) /\ s.pending \o s.carry = s.pending
      /\ t.pending \in Seq(Piece)
  <2>1. s.pending \o s.carry = s.pending
    BY <1>2, ConcatEmptySeq DEF ParserType
  <2>2. s.pending \o Append(s.carry, x) = Append(s.pending \o s.carry, x)
    BY <1>1, JoinedPieces DEF ParserType
  <2> QED
    BY <1>1, <1>7, <2>1, <2>2, AppendProperties DEF ParserType
<1> HIDE DEF x, t, line
<1>9. Holds(d, o + 1, t.carry, t.pending)
  <2>1. (o + 1) - InLine(o + 1) + 1 = o + 2 /\ SubSeq(d, o + 2, o + 1) = <<>>
    BY <1>1, SubSeqEmpty
  <2>2. /\ start \in 0 .. (o + 1) - InLine(o + 1) - 1
        /\ (o + 1) - InLine(o + 1) <= start + 3 /\ (o + 1) - InLine(o + 1) = o + 1
    <3>1. start \in 0 .. o - 1 /\ start % 3 = 0 /\ o <= start + 3 /\ o % 3 = 2 /\ InLine(o + 1) = 0
      BY <1>1, <1>4
    <3>2. o = start + 2
      BY <3>1
    <3> QED
      BY <3>1, <3>2
  <2>3. t.pending = SubSeq(d, start + 1, o + 1)
    BY <1>4, <1>5, <1>8 DEF x
  <2> QED
    BY <1>4, <1>7, <2>1, <2>2, <2>3 DEF Holds
<1>10. ParserType(t)
  <2>1. <<>> \in Seq(Piece)
    BY EmptySeq
  <2> QED
    BY <1>7, <1>8, <2>1 DEF ParserType
<1>11. Advances(s, t, x)
  BY <1>7, <1>8, ConcatEmptySeq DEF Advances
<1> QED
  BY <1>9, <1>10, <1>11 DEF t, x

LEMMA FeedHolds ==
  ASSUME NEW d, IsLog(d), NEW o \in Nat, o < Len(d),
         NEW s, ParserType(s), Holds(d, o, s.carry, s.pending)
  PROVE  /\ ParserType(Feed(s, d[o + 1])) /\ Advances(s, Feed(s, d[o + 1]), d[o + 1])
         /\ Holds(d, o + 1, Feed(s, d[o + 1]).carry, Feed(s, d[o + 1]).pending)
<1>1. o % 3 = 0 \/ o % 3 = 1 \/ o % 3 = 2
  OBVIOUS
<1> QED
  BY <1>1, FeedPrefix, FeedMessage, FeedDetail

-----------------------------------------------------------------------------
(* A chunk: what was accounted for at its start is accounted for at its end, *)
(* and every entry it completes is whole.                                   *)
Good(d, o, g, s) ==
    /\ ParserType(s) /\ \A k \in 1 .. Len(s.done) : Whole(s.done[k])
    /\ Accounted(d, o, g \o FlattenSeq(s.done), s.carry, s.pending)

Associate(a, b, c) == (a \o b) \o c = a \o (b \o c) /\ a \o b \in Seq(Piece)
OneMore(l, r, x) == l = Append(r, x)

LEMMA Associates == \A a, b, c \in Seq(Piece) : Associate(a, b, c)
  BY ConcatAssociative, ConcatProperties DEF Associate

LEMMA Regroup ==
  ASSUME NEW G \in Seq(Piece), NEW p \in Seq(Piece), NEW c \in Seq(Piece),
         NEW q \in Seq(Piece), NEW e \in Seq(Piece), NEW x \in Piece,
         OneMore(q \o e, p \o c, x)
  PROVE  OneMore(G \o q \o e, G \o p \o c, x)
<1>1. Associate(G, q, e) /\ Associate(G, p, c) /\ Associate(p, c, c)
  BY Associates, Zenon
<1>2. (G \o q) \o e = G \o (q \o e) /\ (G \o p) \o c = G \o (p \o c) /\ p \o c \in Seq(Piece)
  BY <1>1, Zenon DEF Associate
<1>3. G \o Append(p \o c, x) = Append(G \o (p \o c), x)
  BY <1>2, JoinedPieces
<1>4. (G \o q) \o e = G \o Append(p \o c, x)
  BY <1>2, Zenon DEF OneMore
<1> QED
  BY <1>2, <1>3, <1>4, Zenon DEF OneMore

LEMMA RegroupEmitted ==
  ASSUME NEW G \in Seq(Piece), NEW p \in Seq(Piece), NEW c \in Seq(Piece),
         NEW q \in Seq(Piece), NEW e \in Seq(Piece), NEW x \in Piece,
         OneMore(q \o e, c, x)
  PROVE  OneMore(G \o p \o q \o e, G \o p \o c, x)
<1>1. Associate(G, p, p)
  BY Associates, Zenon
<1>2. G \o p \in Seq(Piece)
  BY <1>1, Zenon DEF Associate
<1>3. Associate(G \o p, q, e)
  BY <1>2, Associates, Zenon
<1>4. ((G \o p) \o q) \o e = (G \o p) \o Append(c, x)
  BY <1>3, Zenon DEF Associate, OneMore
<1>5. (G \o p) \o Append(c, x) = Append((G \o p) \o c, x)
  BY <1>2, JoinedPieces
<1> QED
  BY <1>4, <1>5, Zenon DEF OneMore

LEMMA FlattenPieces ==
  ASSUME NEW done \in Seq(Seq(Piece)), NEW p \in Seq(Piece)
  PROVE  FlattenSeq(Append(done, p)) = FlattenSeq(done) \o p /\ FlattenSeq(done) \in Seq(Piece)
  BY FlattenAppend

LEMMA GoodStep ==
  ASSUME NEW d, IsLog(d), NEW o \in Nat, o < Len(d), NEW g \in Seq(Piece), NEW s, Good(d, o, g, s)
  PROVE  Good(d, o + 1, g, Feed(s, d[o + 1]))
<1> DEFINE x == d[o + 1]  t == Feed(s, x)  F == FlattenSeq(s.done)  G == g \o F
<1>1. d \in Seq(Piece) /\ Len(d) \in Nat /\ x \in Piece
  BY PieceAt
<1>2. /\ ParserType(s) /\ Holds(d, o, s.carry, s.pending)
      /\ \A k \in 1 .. Len(s.done) : Whole(s.done[k])
      /\ G \o s.pending \o s.carry = SubSeq(d, 1, o)
  BY DEF Good, Accounted
<1>3. ParserType(t) /\ Advances(s, t, x) /\ Holds(d, o + 1, t.carry, t.pending)
  BY <1>2, FeedHolds
<1>4. Append(SubSeq(d, 1, o), x) = SubSeq(d, 1, o + 1)
  <2>1. 1 \in 1 .. Len(d) /\ 1 <= o + 1
    BY <1>1
  <2> QED
    BY <1>1, <2>1, SubSeqNext
<1>5. F \in Seq(Piece) /\ G \in Seq(Piece)
  <2>1. F \in Seq(Piece)
    BY <1>2, FlattenPieces DEF ParserType
  <2> QED
    BY <2>1, ConcatProperties
<1> HIDE DEF x, t
<1>6. CASE t.done = s.done /\ t.pending \o t.carry = Append(s.pending \o s.carry, x)
  <2>0. /\ s.pending \in Seq(Piece) /\ s.carry \in Seq(Piece)
        /\ t.pending \in Seq(Piece) /\ t.carry \in Seq(Piece)
    BY <1>2, <1>3 DEF ParserType
  <2>a. OneMore(t.pending \o t.carry, s.pending \o s.carry, x)
    BY <1>6, Zenon DEF OneMore
  <2>b. OneMore(G \o t.pending \o t.carry, G \o s.pending \o s.carry, x)
    <3> HIDE DEF G
    <3> QED
      BY <1>1, <1>5, <2>a, <2>0, Regroup, Zenon
  <2>1. G \o t.pending \o t.carry = Append(G \o s.pending \o s.carry, x)
    BY <2>b, Zenon DEF OneMore
  <2>2. o + 1 <= Len(d)
    BY <1>1
  <2> QED
    BY <1>2, <1>3, <1>4, <1>6, <2>1, <2>2 DEF Good, Accounted, t, x
<1>7. CASE /\ t.done = Append(s.done, s.pending) /\ Whole(s.pending)
           /\ t.pending \o t.carry = Append(s.carry, x)
  <2>0. /\ s.pending \in Seq(Piece) /\ s.carry \in Seq(Piece)
        /\ t.pending \in Seq(Piece) /\ t.carry \in Seq(Piece)
    BY <1>2, <1>3 DEF ParserType
  <2>a. OneMore(t.pending \o t.carry, s.carry, x)
    BY <1>7, Zenon DEF OneMore
  <2>b. OneMore(G \o s.pending \o t.pending \o t.carry, G \o s.pending \o s.carry, x)
    <3> HIDE DEF G
    <3> QED
      BY <1>1, <1>5, <2>a, <2>0, RegroupEmitted, Zenon
  <2>1. G \o s.pending \o t.pending \o t.carry = Append(G \o s.pending \o s.carry, x)
    BY <2>b, Zenon DEF OneMore
  <2>2. g \o FlattenSeq(t.done) = G \o s.pending
    <3>1. FlattenSeq(t.done) = F \o s.pending
      BY <1>2, <1>7, FlattenPieces DEF ParserType
    <3>a. Associate(g, F, s.pending)
      <4> HIDE DEF F
      <4> QED
        BY <1>5, <2>0, Associates, Zenon
    <3>2. (g \o F) \o s.pending = g \o (F \o s.pending)
      BY <3>a, Zenon DEF Associate
    <3> QED
      BY <3>1, <3>2, Zenon
  <2>3. \A k \in 1 .. Len(t.done) : Whole(t.done[k])
    <3>1. /\ Len(s.done) \in Nat /\ Len(t.done) = Len(s.done) + 1
          /\ \A k \in 1 .. Len(s.done) : t.done[k] = s.done[k]
          /\ t.done[Len(s.done) + 1] = s.pending
      BY <1>2, <1>7, AppendProperties, LenProperties DEF ParserType
    <3> SUFFICES ASSUME NEW k \in 1 .. Len(s.done) + 1
                 PROVE  Whole(t.done[k])
      BY <3>1
    <3>2. k \in 1 .. Len(s.done) \/ k = Len(s.done) + 1
      BY <3>1
    <3> QED
      BY <1>2, <1>7, <3>1, <3>2
  <2>4. o + 1 <= Len(d)
    BY <1>1
  <2>5. (g \o FlattenSeq(t.done)) \o t.pending \o t.carry = SubSeq(d, 1, o + 1)
    BY <1>2, <1>4, <2>1, <2>2
  <2> QED
    BY <1>3, <2>3, <2>4, <2>5 DEF Good, Accounted, t, x
<1> QED
  BY <1>3, <1>6, <1>7 DEF Advances

LEMMA ParseHolds ==
  ASSUME NEW d, IsLog(d), NEW o \in Nat, NEW m \in Nat, o + m <= Len(d),
         NEW g \in Seq(Piece), NEW c \in Seq(Piece), NEW p \in Seq(Piece), Accounted(d, o, g, c, p)
  PROVE  Good(d, o + m, g, Parse(c, p, SubSeq(d, o + 1, o + m)))
<1> DEFINE chunk == SubSeq(d, o + 1, o + m)
<1>1. /\ d \in Seq(Piece) /\ Len(d) \in Nat
      /\ \A i \in 1 .. Len(d) : d[i] \in Piece
  BY LenProperties, ElementOfSeq DEF IsLog
<1>2. /\ chunk \in Seq(Piece) /\ Len(chunk) = m
      /\ \A i \in 1 .. m : chunk[i] = d[o + i]
  <2>1. \A i \in o + 1 .. o + m : d[i] \in Piece
    BY <1>1
  <2>2. /\ chunk \in Seq(Piece)
        /\ Len(chunk) = IF o + 1 <= o + m THEN (o + m) - (o + 1) + 1 ELSE 0
        /\ \A i \in 1 .. (o + m) - (o + 1) + 1 : chunk[i] = d[(o + 1) + i - 1]
    BY <2>1, SubSeqProperties
  <2> QED
    BY <2>2
<1> HIDE DEF chunk
<1>3. PICK st : FeedRun(st, c, p, chunk)
  BY <1>2, ParsePieces, Zenon
<1>a. /\ st[0] = State(c, p, <<>>) /\ st[m] = Parse(c, p, chunk)
      /\ \A k \in 1 .. m : st[k] = Feed(st[k - 1], chunk[k])
  BY <1>2, <1>3, Zenon DEF FeedRun
<1>4. Good(d, o + 0, g, st[0])
  <2>1. /\ st[0].carry = c /\ st[0].pending = p /\ st[0].done = <<>> /\ o + 0 = o
        /\ <<>> \in Seq(Seq(Piece)) /\ Len(<<>>) = 0
    BY <1>a, EmptySeq DEF State
  <2>2. g \o FlattenSeq(st[0].done) = g
    BY <2>1, FlattenEmpty, ConcatEmptySeq
  <2>3. \A k \in 1 .. Len(st[0].done) : Whole(st[0].done[k])
    BY <2>1
  <2> QED
    BY <2>1, <2>2, <2>3 DEF Good, ParserType
<1> DEFINE T == {k \in 0 .. m : ~ Good(d, o + k, g, st[k])}
<1>5. T = {}
  <2> SUFFICES ASSUME T # {}
               PROVE  FALSE
    OBVIOUS
  <2>1. PICK k \in T : \A j \in T : k <= j
    <3>1. T \in SUBSET Nat
      OBVIOUS
    <3> QED
      BY <3>1, LeastNatural
  <2>2. k # 0
    BY <1>4
  <2>3. k - 1 \in 0 .. m /\ k - 1 \notin T /\ k \in 1 .. m
    BY <2>1, <2>2
  <2>4. Good(d, o + (k - 1), g, st[k - 1])
    BY <2>3
  <2>5. o + (k - 1) \in Nat /\ o + (k - 1) < Len(d) /\ (o + (k - 1)) + 1 = o + k
    BY <1>1, <2>3
  <2>6. Good(d, o + k, g, Feed(st[k - 1], d[o + k]))
    BY <2>4, <2>5, GoodStep
  <2> QED
    BY <1>2, <1>a, <2>3, <2>6
<1> QED
  BY <1>a, <1>5 DEF chunk

(* Whatever is fed, the parser's state has its type.                        *)
LEMMA FeedType ==
  ASSUME NEW s, ParserType(s), NEW x \in Piece
  PROVE  ParserType(Feed(s, x))
<1> DEFINE line == Append(s.carry, x)
<1>1. /\ line \in Seq(Piece) /\ <<>> \in Seq(Piece)
      /\ s.pending \o line \in Seq(Piece) /\ Append(s.done, s.pending) \in Seq(Seq(Piece))
  <2>1. line \in Seq(Piece) /\ <<>> \in Seq(Piece)
    BY AppendProperties, EmptySeq DEF ParserType
  <2>2. s.pending \o line \in Seq(Piece)
    BY <2>1, ConcatProperties DEF ParserType
  <2> QED
    BY <2>1, <2>2, AppendProperties DEF ParserType
<1>2. CASE ~ EndsLine(x)
  <2>1. Feed(s, x) = State(line, s.pending, s.done)
    BY <1>2 DEF Feed
  <2> QED
    BY <1>1, <2>1 DEF State, ParserType
<1>3. CASE EndsLine(x)
  <2>1. Feed(s, x) = FeedLine(s, line)
    BY <1>3 DEF Feed
  <2> HIDE DEF line
  <2>2. /\ FeedLine(s, line).carry = <<>>
        /\ FeedLine(s, line).pending \in {line, <<>>, s.pending \o line}
        /\ FeedLine(s, line).done \in {s.done, Append(s.done, s.pending)}
    BY DEF FeedLine, State
  <2> QED
    BY <1>1, <2>1, <2>2 DEF ParserType
<1> QED
  BY <1>2, <1>3

LEMMA ParseType ==
  ASSUME NEW c \in Seq(Piece), NEW p \in Seq(Piece), NEW chunk \in Seq(Piece)
  PROVE  /\ ParserType(Parse(c, p, chunk))
         /\ chunk = <<>> => Parse(c, p, chunk).done = <<>>
<1>1. Len(chunk) \in Nat /\ \A k \in 1 .. Len(chunk) : chunk[k] \in Piece
  BY LenProperties, ElementOfSeq
<1>a. PICK st : FeedRun(st, c, p, chunk)
  BY ParsePieces, Zenon
<1>2. /\ st[0] = State(c, p, <<>>) /\ st[Len(chunk)] = Parse(c, p, chunk)
      /\ \A k \in 1 .. Len(chunk) : st[k] = Feed(st[k - 1], chunk[k])
  BY <1>a, Zenon DEF FeedRun
<1>3. ParserType(st[0]) /\ st[0].done = <<>>
  <2>1. st[0].carry = c /\ st[0].pending = p /\ st[0].done = <<>> /\ <<>> \in Seq(Seq(Piece))
    BY <1>2, EmptySeq DEF State
  <2> QED
    BY <2>1 DEF ParserType
<1> DEFINE T == {k \in 0 .. Len(chunk) : ~ ParserType(st[k])}
<1>4. T = {}
  <2> SUFFICES ASSUME T # {}
               PROVE  FALSE
    OBVIOUS
  <2>1. PICK k \in T : \A j \in T : k <= j
    <3>1. T \in SUBSET Nat
      BY <1>1
    <3> QED
      BY <3>1, LeastNatural
  <2>2. k # 0
    BY <1>3
  <2>3. k - 1 \in 0 .. Len(chunk) /\ k - 1 \notin T /\ k \in 1 .. Len(chunk)
    BY <1>1, <2>1, <2>2
  <2>4. ParserType(st[k - 1])
    BY <2>3
  <2> QED
    BY <1>1, <1>2, <2>3, <2>4, FeedType
<1>5. chunk = <<>> => Len(chunk) = 0
  BY EmptySeq
<1> QED
  BY <1>1, <1>2, <1>3, <1>4, <1>5



(* A log that grows keeps its beginning.                                    *)
LEMMA SameBelow ==
  ASSUME NEW d \in Seq(Piece), NEW e \in Seq(Piece), Len(d) <= Len(e),
         \A k \in 1 .. Len(d) : e[k] = d[k],
         NEW a \in Nat \ {0}, NEW b \in Int, b <= Len(d)
  PROVE  SubSeq(e, a, b) = SubSeq(d, a, b)
<1> DEFINE s == SubSeq(d, a, b)  t == SubSeq(e, a, b)
<1>1. /\ Len(d) \in Nat /\ \A i \in a .. b : d[i] \in Piece /\ e[i] = d[i]
  <2>1. Len(d) \in Nat /\ \A i \in 1 .. Len(d) : d[i] \in Piece
    BY LenProperties, ElementOfSeq
  <2>2. \A i \in a .. b : i \in 1 .. Len(d)
    BY <2>1
  <2> QED
    BY <2>1, <2>2
<1>2. /\ s \in Seq(Piece) /\ Len(s) = (IF a <= b THEN b - a + 1 ELSE 0)
      /\ \A i \in 1 .. b - a + 1 : s[i] = d[a + i - 1]
  BY <1>1, SubSeqProperties
<1>3. /\ t \in Seq(Piece) /\ Len(t) = (IF a <= b THEN b - a + 1 ELSE 0)
      /\ \A i \in 1 .. b - a + 1 : t[i] = e[a + i - 1]
  BY <1>1, SubSeqProperties
<1> HIDE DEF s, t
<1>4. \A i \in 1 .. Len(t) : t[i] = s[i]
  <2> SUFFICES ASSUME NEW i \in 1 .. Len(t)
               PROVE  t[i] = s[i]
    OBVIOUS
  <2>1. i \in 1 .. b - a + 1 /\ a + i - 1 \in a .. b
    BY <1>3
  <2> QED
    BY <1>1, <1>2, <1>3, <2>1
<1>5. Len(t) = Len(s)
  BY <1>2, <1>3
<1>6. t = s
  BY <1>2, <1>3, <1>4, <1>5, SeqEqual
<1> QED
  BY <1>6 DEF s, t

LEMMA AccountedGrows ==
  ASSUME NEW d \in Seq(Piece), NEW e \in Seq(Piece), Len(d) <= Len(e),
         \A k \in 1 .. Len(d) : e[k] = d[k],
         NEW o \in Nat, NEW g, NEW c, NEW p, Accounted(d, o, g, c, p)
  PROVE  Accounted(e, o, g, c, p)
<1>1. Len(d) \in Nat /\ Len(e) \in Nat /\ o <= Len(d) /\ o <= Len(e)
  BY LenProperties DEF Accounted
<1>2. SubSeq(e, 1, o) = SubSeq(d, 1, o)
  BY <1>1, SameBelow
<1>3. InLine(o) \in {0, 1} /\ (InLine(o) = 1 => o >= 1)
  BY DEF InLine
<1>4. SubSeq(e, o - InLine(o) + 1, o) = SubSeq(d, o - InLine(o) + 1, o)
  <2> DEFINE a == o - InLine(o) + 1
  <2>1. a \in Nat \ {0} /\ o \in Int
    BY <1>3
  <2> HIDE DEF a
  <2>2. SubSeq(e, a, o) = SubSeq(d, a, o)
    BY <1>1, <2>1, SameBelow
  <2> QED
    BY <2>2 DEF a
<1>5. ASSUME NEW start \in 0 .. o - InLine(o) - 1
      PROVE  SubSeq(e, start + 1, o - InLine(o)) = SubSeq(d, start + 1, o - InLine(o))
  <2>1. start + 1 \in Nat \ {0} /\ o - InLine(o) \in Int /\ o - InLine(o) <= Len(d)
    BY <1>1, <1>3
  <2> QED
    BY <2>1, SameBelow
<1>6. Holds(e, o, c, p)
  <2>1. c = SubSeq(e, o - InLine(o) + 1, o)
    BY <1>4 DEF Accounted, Holds
  <2>2. CASE p = <<>> /\ o % 3 # 2
    BY <2>1, <2>2, Zenon DEF Holds
  <2>3. CASE \E start \in 0 .. o - InLine(o) - 1 :
               /\ start % 3 = 0 /\ o - InLine(o) <= start + 3
               /\ p = SubSeq(d, start + 1, o - InLine(o))
    <3>1. PICK start \in 0 .. o - InLine(o) - 1 :
               /\ start % 3 = 0 /\ o - InLine(o) <= start + 3
               /\ p = SubSeq(d, start + 1, o - InLine(o))
      BY <2>3
    <3>2. p = SubSeq(e, start + 1, o - InLine(o))
      BY <1>5, <3>1
    <3> QED
      BY <2>1, <3>1, <3>2, Zenon DEF Holds
  <2> QED
    BY <2>2, <2>3, Zenon DEF Accounted, Holds
<1> QED
  BY <1>1, <1>2, <1>6 DEF Accounted

LEMMA LogGrows ==
  ASSUME NEW d, IsLog(d), NEW w \in Nat
  PROVE  /\ IsLog(d \o Pieces(w)) /\ Len(d) <= Len(d \o Pieces(w))
         /\ \A k \in 1 .. Len(d) : (d \o Pieces(w))[k] = d[k]
<1> DEFINE e == d \o Pieces(w)
<1>1. /\ d \in Seq(Piece) /\ Len(d) \in Nat /\ Len(d) % 3 = 0
      /\ Pieces(w) \in Seq(Piece) /\ Len(Pieces(w)) = 3
      /\ \A i \in 1 .. 3 : Pieces(w)[i].entry = w /\ Pieces(w)[i].part = Part(i)
  BY LenProperties, PiecesType DEF IsLog
<1>2. /\ e \in Seq(Piece) /\ Len(e) = Len(d) + 3
      /\ \A i \in 1 .. Len(d) : e[i] = d[i]
      /\ \A i \in 1 .. 3 : e[Len(d) + i] = Pieces(w)[i]
  <2>1. /\ e \in Seq(Piece) /\ Len(e) = Len(d) + Len(Pieces(w))
        /\ \A i \in 1 .. Len(d) + Len(Pieces(w)) :
              e[i] = IF i <= Len(d) THEN d[i] ELSE Pieces(w)[i - Len(d)]
    BY <1>1, ConcatProperties
  <2> HIDE DEF e
  <2>2. \A i \in 1 .. Len(d) : e[i] = d[i]
    BY <1>1, <2>1
  <2>3. \A i \in 1 .. 3 : e[Len(d) + i] = Pieces(w)[i]
    <3> SUFFICES ASSUME NEW i \in 1 .. 3
                 PROVE  e[Len(d) + i] = Pieces(w)[i]
      OBVIOUS
    <3>1. Len(d) + i \in 1 .. Len(d) + Len(Pieces(w)) /\ ~ (Len(d) + i <= Len(d))
          /\ (Len(d) + i) - Len(d) = i
      BY <1>1
    <3> QED
      BY <2>1, <3>1
  <2> QED
    BY <1>1, <2>1, <2>2, <2>3
<1> HIDE DEF e
<1>3. ASSUME NEW k \in 1 .. Len(e)
      PROVE  e[k].part = Part(k) /\ (k % 3 # 1 => e[k].entry = e[k - 1].entry)
  <2>1. CASE k \in 1 .. Len(d)
    <3>1. k % 3 # 1 => k - 1 \in 1 .. Len(d)
      BY <1>1, <2>1
    <3>2. d[k].part = Part(k) /\ (k % 3 # 1 => d[k].entry = d[k - 1].entry)
      BY <2>1 DEF IsLog
    <3> QED
      BY <1>2, <2>1, <3>1, <3>2
  <2>2. CASE k \notin 1 .. Len(d)
    <3>1. PICK i \in 1 .. 3 : k = Len(d) + i
      <4>1. k - Len(d) \in 1 .. 3
        BY <1>1, <1>2, <2>2
      <4> QED
        BY <1>1, <4>1
    <3>2. /\ (k - 1) % 3 = (i - 1) % 3 /\ (k % 3 # 1 => i # 1)
          /\ i # 1 => i - 1 \in 1 .. 3 /\ k - 1 = Len(d) + (i - 1)
      <4>1. PICK n \in Nat : n = Len(d) /\ n % 3 = 0
        BY <1>1, Zenon
      <4>2. n + i = k
        BY <4>1, <3>1
      <4>3. /\ ((n + i) - 1) % 3 = (i - 1) % 3 /\ ((n + i) % 3 # 1 => i # 1)
            /\ i # 1 => i - 1 \in 1 .. 3 /\ (n + i) - 1 = n + (i - 1)
        BY <4>1, PartsRepeat, Zenon
      <4> QED
        BY <4>1, <4>2, <4>3, Zenon
    <3>3. Part(k) = Part(i)
      BY <3>2 DEF Part
    <3>4. e[k] = Pieces(w)[i]
      BY <1>2, <3>1
    <3>5. i # 1 => e[k - 1] = Pieces(w)[i - 1]
      BY <1>2, <3>2
    <3> QED
      BY <1>1, <3>2, <3>3, <3>4, <3>5
  <2> QED
    BY <2>1, <2>2
<1>4. IsLog(e) /\ Len(d) <= Len(e)
  <2>1. Len(e) % 3 = 0
    BY <1>1, <1>2
  <2> QED
    BY <1>1, <1>2, <1>3, <2>1 DEF IsLog
<1> QED
  BY <1>2, <1>4 DEF e

LEMMA EmptyLog == IsLog(<<>>)
<1>1. <<>> \in Seq(Piece) /\ Len(<<>>) = 0
  BY EmptySeq
<1> QED
  BY <1>1 DEF IsLog

(* At an entry's end the parser may hold nothing.                           *)
LEMMA AccountedClean ==
  ASSUME NEW d, IsLog(d), NEW o \in Nat, o <= Len(d), o % 3 = 0, NEW g \in Seq(Piece),
         g = SubSeq(d, 1, o)
  PROVE  Accounted(d, o, g, <<>>, <<>>)
<1>1. o - InLine(o) + 1 = o + 1
  BY DEF InLine
<1>2. SubSeq(d, o + 1, o) = <<>>
  BY SubSeqEmpty
<1>3. Holds(d, o, <<>>, <<>>)
  BY <1>1, <1>2 DEF Holds
<1>4. g \o <<>> = g
  BY ConcatEmptySeq
<1> QED
  BY <1>3, <1>4 DEF Accounted

(* What is emitted is what the entries emitted hold.                        *)
LEMMA Emitted ==
  ASSUME NEW o \in Seq(Seq(Piece)), NEW e \in Seq(Seq(Piece))
  PROVE  /\ o \o e \in Seq(Seq(Piece))
         /\ (\A k \in 1 .. Len(e) : Whole(e[k])) =>
               \A k \in Len(o) + 1 .. Len(o \o e) : Whole((o \o e)[k])
<1> DEFINE r == o \o e
<1>1. Len(o) \in Nat /\ Len(e) \in Nat
  BY LenProperties
<1>2. /\ r \in Seq(Seq(Piece)) /\ Len(r) = Len(o) + Len(e)
      /\ \A i \in 1 .. Len(o) + Len(e) : r[i] = IF i <= Len(o) THEN o[i] ELSE e[i - Len(o)]
  BY ConcatProperties
<1> HIDE DEF r
<1>3. ASSUME \A k \in 1 .. Len(e) : Whole(e[k]), NEW k \in Len(o) + 1 .. Len(r)
      PROVE  Whole(r[k])
  <2>1. k \in 1 .. Len(o) + Len(e) /\ ~ (k <= Len(o)) /\ k - Len(o) \in 1 .. Len(e)
    BY <1>1, <1>2, <1>3
  <2> QED
    BY <1>2, <1>3, <2>1
<1>4. (\A k \in 1 .. Len(e) : Whole(e[k])) => \A k \in Len(o) + 1 .. Len(r) : Whole(r[k])
  BY <1>3
<1> QED
  BY <1>2, <1>4 DEF r

LEMMA Flushed ==
  ASSUME NEW p \in Seq(Piece)
  PROVE  /\ Flush(p) \in Seq(Seq(Piece)) /\ FlattenSeq(Flush(p)) = p
         /\ \A k \in 1 .. Len(Flush(p)) : p # <<>> /\ Flush(p)[k] = p
<1>1. CASE p = <<>>
  <2>1. Flush(p) = <<>> /\ <<>> \in Seq(Seq(Piece)) /\ Len(<<>>) = 0
    BY <1>1, EmptySeq DEF Flush
  <2>2. FlattenSeq(Flush(p)) = p
    BY <1>1, <2>1, FlattenEmpty, Zenon
  <2>3. 1 .. Len(Flush(p)) = {}
    BY <2>1
  <2> QED
    BY <2>1, <2>2, <2>3, Zenon
<1>2. CASE p # <<>>
  <2>1. /\ <<>> \in Seq(Seq(Piece)) /\ Len(<<>>) = 0
        /\ Append(<<>>, p) = <<p>> /\ <<p>> \in Seq(Seq(Piece)) /\ Len(<<p>>) = 1 /\ <<p>>[1] = p
    BY EmptySeq
  <2>2. Flush(p) = Append(<<>>, p) /\ Flush(p) = <<p>>
    BY <1>2, <2>1 DEF Flush
  <2>3. FlattenSeq(Append(<<>>, p)) = FlattenSeq(<<>>) \o p
    BY <2>1, FlattenPieces
  <2>4. FlattenSeq(Flush(p)) = p
    BY <2>2, <2>3, FlattenEmpty, ConcatEmptySeq
  <2>5. \A k \in 1 .. Len(Flush(p)) : Flush(p)[k] = p
    BY <2>1, <2>2
  <2>6. Flush(p) \in Seq(Seq(Piece))
    BY <2>1, <2>2
  <2> QED
    BY <1>2, <2>4, <2>5, <2>6
<1> QED
  BY <1>1, <1>2

(* When the offset is the end of the log, what is pending is a whole entry. *)
LEMMA PendingIsWhole ==
  ASSUME NEW d, IsLog(d), NEW g, NEW c, NEW p, Accounted(d, Len(d), g, c, p)
  PROVE  c = <<>> /\ (p = <<>> \/ Whole(p))
<1>1. Len(d) \in Nat /\ Len(d) % 3 = 0 /\ InLine(Len(d)) = 0
  BY LenProperties DEF IsLog, InLine
<1>2. c = <<>>
  <2>1. Len(d) - InLine(Len(d)) + 1 = Len(d) + 1 /\ SubSeq(d, Len(d) + 1, Len(d)) = <<>>
    BY <1>1, SubSeqEmpty
  <2> QED
    BY <2>1 DEF Accounted, Holds
<1>3. ASSUME p # <<>>
      PROVE  Whole(p)
  <2>1. PICK start \in 0 .. Len(d) - 1 :
           start % 3 = 0 /\ Len(d) <= start + 3 /\ p = SubSeq(d, start + 1, Len(d))
    BY <1>1, <1>3 DEF Accounted, Holds
  <2>2. start \in Nat /\ start + 3 = Len(d)
    BY <1>1, <2>1
  <2> QED
    BY <1>1, <2>1, <2>2, EntryIsWhole
<1> QED
  BY <1>2, <1>3


(* A read that starts where what was accounted for ends.                    *)
LEMMA ReadHolds ==
  ASSUME NEW d, IsLog(d), NEW o \in Nat, NEW e \in Nat, o <= e, e <= Len(d),
         NEW g \in Seq(Piece), NEW c \in Seq(Piece), NEW p \in Seq(Piece), Accounted(d, o, g, c, p)
  PROVE  /\ Good(d, e, g, Parse(c, p, SubSeq(d, o + 1, e)))
         /\ o + Len(SubSeq(d, o + 1, e)) = e
<1> DEFINE m == e - o
<1>1. m \in Nat /\ o + m = e /\ o + m <= Len(d)
  OBVIOUS
<1> HIDE DEF m
<1>2. Good(d, o + m, g, Parse(c, p, SubSeq(d, o + 1, o + m)))
  BY <1>1, ParseHolds
<1>3. Len(SubSeq(d, o + 1, e)) = IF o + 1 <= e THEN e - (o + 1) + 1 ELSE 0
  <2>1. d \in Seq(Piece) /\ Len(d) \in Nat /\ \A i \in 1 .. Len(d) : d[i] \in Piece
    BY LenProperties, ElementOfSeq DEF IsLog
  <2>2. \A i \in o + 1 .. e : d[i] \in Piece
    BY <2>1
  <2> QED
    BY <2>2, SubSeqProperties
<1> QED
  BY <1>1, <1>2, <1>3

(* The parts of Read.                                                       *)
Want == IF pos.size - pos.offset < MaxRead THEN pos.size - pos.offset ELSE MaxRead
ReadEnd == IF pos.offset + Want < Len(files[pos.name].data)
             THEN pos.offset + Want ELSE Len(files[pos.name].data)
Chunk == SubSeq(files[pos.name].data, pos.offset + 1, ReadEnd)
Parsed == Parse(carry, pending, Chunk)

LEMMA ReadIs ==
  ASSUME Read
  PROVE  /\ poll = "read" /\ poll' = "wait" /\ UNCHANGED <<files, current, written, stat>>
         /\ pos' = [pos EXCEPT !.offset = @ + Len(Chunk)]
         /\ carry' = Parsed.carry /\ pending' = Parsed.pending
         /\ out' = out \o Parsed.done /\ got' = got \o FlattenSeq(Parsed.done)
         /\ slipped' = (slipped \/ (Chunk # <<>> /\ files[pos.name].gen # pos.gen))
BY DEF Read, Parsed, Chunk, ReadEnd, Want, Emit, Server

LEMMA ReadParses ==
  ASSUME TailInv, poll = "read"
  PROVE  /\ Chunk \in Seq(Piece) /\ ParserType(Parsed)
         /\ Chunk = <<>> => Parsed.done = <<>>
         /\ ~slipped /\ files[pos.name].gen = pos.gen =>
              Good(files[pos.name].data, pos.offset + Len(Chunk), got, Parsed)
<1> DEFINE d == files[pos.name].data
<1>1. /\ IsLog(d) /\ d \in Seq(Piece) /\ Len(d) \in Nat
      /\ \A i \in 1 .. Len(d) : d[i] \in Piece
  <2>1. IsLog(d)
    BY DEF TailInv, TailTypes
  <2> QED
    BY <2>1, LenProperties, ElementOfSeq DEF IsLog
<1>2. /\ pos.offset \in Nat /\ Want \in Nat /\ ReadEnd \in Nat /\ ReadEnd <= Len(d)
      /\ pos.offset <= Len(d) => pos.offset <= ReadEnd
  BY <1>1, LogAssumption DEF TailInv, TailTypes, Want, ReadEnd
<1>3. carry \in Seq(Piece) /\ pending \in Seq(Piece) /\ got \in Seq(Piece)
  BY DEF TailInv, TailTypes
<1>4. Chunk = SubSeq(d, pos.offset + 1, ReadEnd)
  BY DEF Chunk
<1> HIDE DEF d
<1>5. Chunk \in Seq(Piece)
  <2>1. \A i \in pos.offset + 1 .. ReadEnd : d[i] \in Piece
    BY <1>1, <1>2
  <2> QED
    BY <1>2, <1>4, <2>1, SubSeqProperties
<1>6. ParserType(Parsed) /\ (Chunk = <<>> => Parsed.done = <<>>)
  BY <1>3, <1>5, ParseType DEF Parsed
<1>7. ASSUME ~slipped, files[pos.name].gen = pos.gen
      PROVE  Good(d, pos.offset + Len(Chunk), got, Parsed)
  <2>1. Accounted(d, pos.offset, got, carry, pending)
    BY <1>7 DEF TailInv, Accounting, d
  <2>2. pos.offset <= ReadEnd
    BY <1>2, <2>1 DEF Accounted
  <2>3. /\ Good(d, ReadEnd, got, Parse(carry, pending, SubSeq(d, pos.offset + 1, ReadEnd)))
        /\ pos.offset + Len(SubSeq(d, pos.offset + 1, ReadEnd)) = ReadEnd
    BY <1>1, <1>2, <1>3, <2>1, <2>2, ReadHolds
  <2> QED
    BY <1>4, <2>3 DEF Parsed
<1> QED
  BY <1>5, <1>6, <1>7 DEF d

(* The newest file is the current one.                                      *)
LEMMA GenerationIs ==
  ASSUME TailInv
  PROVE  Generation = files[current].gen /\ Generation \in Nat
<1>1. /\ current \in Names /\ \A n \in Names : files[n].gen \in Nat
      /\ \A n \in Names : files[n].gen <= files[current].gen
  BY DEF TailInv, TailTypes, Generations
<1>2. \A g \in {files[n].gen : n \in Names} :
         (\A n \in Names : files[n].gen <= g) => g = files[current].gen
  BY <1>1
<1>3. Generation = files[current].gen
  BY <1>1, <1>2 DEF Generation
<1> QED
  BY <1>1, <1>3

(* The cases of StatSize.                                                   *)
Rotated == stat # pos.name \/ Size(stat) < pos.offset

Quieted == Quiet(Size(stat), pos.offset)

LEMMA StatSizeRotated ==
  ASSUME StatSize, Rotated
  PROVE  /\ pos' = [name |-> stat, size |-> Size(stat), offset |-> 0, gen |-> files[stat].gen]
         /\ out' = out \o Flush(pending)
         /\ carry' = <<>> /\ got' = <<>> /\ pending' = <<>>
         /\ UNCHANGED <<files, current, written, stat>>
         /\ poll' \in {"wait", "read"}
BY DEF StatSize, Rotated, Server

LEMMA StatSizeFollowed ==
  ASSUME StatSize, ~Rotated
  PROVE  /\ pos' = [pos EXCEPT !.size = Size(stat)] /\ carry' = carry
         /\ Quieted =>
              /\ out' = out \o Flush(pending) /\ got' = got \o FlattenSeq(Flush(pending))
              /\ pending' = <<>> /\ poll' = "wait"
         /\ ~Quieted =>
              /\ out' = out \o <<>> /\ got' = got \o FlattenSeq(<<>>)
              /\ pending' = pending
         /\ UNCHANGED <<files, current, written, stat>>
BY DEF StatSize, Rotated, Quieted, Emit, Server

LEMMA StatSizeSlips ==
  ASSUME StatSize
  PROVE  slipped' = (slipped \/ (~Rotated /\ files[stat].gen # pos.gen))
BY DEF StatSize, Rotated


-----------------------------------------------------------------------------
(* The log LastN has shown is a log.                                        *)
LEMMA FirstLog ==
  ASSUME NEW k \in 0 .. 1
  PROVE  IsLog(FlattenSeq([i \in 1 .. k |-> Pieces(i)]))
<1>1. CASE k = 0
  <2>1. [i \in 1 .. k |-> Pieces(i)] = <<>>
    BY <1>1
  <2> QED
    BY <2>1, FlattenEmpty, EmptyLog, Zenon
<1>2. CASE k = 1
  <2>0. Pieces(1) \in Seq(Piece)
    BY PiecesType
  <2>1. [i \in 1 .. k |-> Pieces(i)] = Append(<<>>, Pieces(1))
    BY <1>2
  <2>2. FlattenSeq(Append(<<>>, Pieces(1))) = FlattenSeq(<<>>) \o Pieces(1)
    <3>1. <<>> \in Seq(Seq(Piece))
      BY EmptySeq
    <3> QED
      BY <2>0, <3>1, FlattenPieces
  <2>3. IsLog(<<>> \o Pieces(1))
    BY EmptyLog, LogGrows
  <2> QED
    BY <2>1, <2>2, <2>3, FlattenEmpty, Zenon
<1> QED
  BY <1>1, <1>2

LEMMA InitInv == TailInit => TailInv
<1> SUFFICES ASSUME TailInit
             PROVE  TailInv
  OBVIOUS
<1>1. PICK data :
        /\ IsLog(data)
        /\ files = [n \in Names |-> [gen |-> 0, data |-> IF n = First THEN data ELSE <<>>]]
        /\ current = First /\ written \in Nat /\ poll = "wait" /\ stat = First
        /\ pos = [name |-> First, size |-> Len(data), offset |-> Len(data), gen |-> 0]
        /\ carry = <<>> /\ pending = <<>> /\ out = <<>> /\ got = data /\ slipped = FALSE
  <2>1. PICK k \in 0 .. 1 :
          LET data == FlattenSeq([i \in 1 .. k |-> Pieces(i)])
          IN  /\ files = [n \in Names |-> [gen |-> 0, data |-> IF n = First THEN data ELSE <<>>]]
              /\ current = First
              /\ written = k
              /\ poll = "wait" /\ stat = First
              /\ pos = [name |-> First, size |-> Len(data), offset |-> Len(data), gen |-> 0]
              /\ carry = <<>> /\ pending = <<>> /\ out = <<>>
              /\ got = data
              /\ slipped = FALSE
    BY DEF TailInit
  <2>2. IsLog(FlattenSeq([i \in 1 .. k |-> Pieces(i)]))
    BY FirstLog
  <2>3. k \in Nat
    OBVIOUS
  <2> QED
    BY <2>1, <2>2, <2>3
<1>2. /\ data \in Seq(Piece) /\ Len(data) \in Nat /\ Len(data) % 3 = 0
      /\ <<>> \in Seq(Piece) /\ <<>> \in Seq(Seq(Piece))
  BY <1>1, EmptySeq, LenProperties DEF IsLog
<1>3. files[First].data = data /\ \A n \in Names : files[n].gen = 0 /\ IsLog(files[n].data)
  BY <1>1, EmptyLog, LogAssumption
<1>4. TailTypes
  <2>1. files \in [Names -> [gen : Nat, data : Seq(Piece)]]
    BY <1>1, <1>2
  <2> QED
    BY <1>1, <1>2, <1>3, <2>1, LogAssumption DEF TailTypes
<1>5. Generations
  BY <1>1, <1>3, LogAssumption DEF Generations
<1>6. Accounting
  <2>1. data = SubSeq(data, 1, Len(data))
    BY <1>2, SubSeqFull
  <2>2. Accounted(data, Len(data), data, <<>>, <<>>)
    BY <1>1, <1>2, <2>1, AccountedClean
  <2> QED
    BY <1>1, <1>3, <2>2 DEF Accounting
<1> QED
  BY <1>4, <1>5, <1>6 DEF TailInv

LEMMA WriteInv == TailInv /\ Write => TailInv'
<1> SUFFICES ASSUME TailInv, Write
             PROVE  TailInv'
  OBVIOUS
<1> USE DEF TailInv
<1> DEFINE d == files[current].data  e == d \o Pieces(written + 1)
<1>1. /\ files' = [files EXCEPT ![current].data = e] /\ written' = written + 1
      /\ UNCHANGED <<current, poll, stat, pos, carry, pending, out, got, slipped>>
  BY DEF Write, Follower
<1>2. current \in Names /\ pos.name \in Names /\ written + 1 \in Nat /\ IsLog(d)
  BY DEF TailTypes
<1>3. /\ IsLog(e) /\ Len(d) <= Len(e) /\ \A k \in 1 .. Len(d) : e[k] = d[k]
  BY <1>2, LogGrows
<1>4. d \in Seq(Piece) /\ e \in Seq(Piece)
  BY <1>2, <1>3 DEF IsLog
<1> HIDE DEF e
<1>5. \A n \in Names : /\ files'[n].gen = files[n].gen
                       /\ files'[n].data = IF n = current THEN e ELSE files[n].data
  BY <1>1 DEF TailTypes
<1>6. TailTypes'
  <2>1. files' \in [Names -> [gen : Nat, data : Seq(Piece)]]
    BY <1>1, <1>4 DEF TailTypes
  <2>2. \A n \in Names : IsLog(files'[n].data)
    BY <1>3, <1>5 DEF TailTypes
  <2> QED
    BY <1>1, <1>2, <2>1, <2>2 DEF TailTypes
<1>7. Generations'
  BY <1>1, <1>2, <1>5 DEF Generations, TailTypes
<1>8. Accounting'
  <2> SUFFICES ASSUME ~slipped, files[pos.name].gen = pos.gen
               PROVE  Accounted(files'[pos.name].data, pos.offset, got, carry, pending)
    BY <1>1, <1>2, <1>5 DEF Accounting
  <2>1. Accounted(files[pos.name].data, pos.offset, got, carry, pending)
    BY DEF Accounting
  <2>2. pos.offset \in Nat
    BY DEF TailTypes
  <2>3. CASE pos.name = current
    <3>1. Accounted(e, pos.offset, got, carry, pending)
      BY <1>3, <1>4, <2>1, <2>2, <2>3, AccountedGrows
    <3> QED
      BY <1>2, <1>5, <2>3, <3>1
  <2>4. CASE pos.name # current
    BY <1>2, <1>5, <2>1, <2>4
  <2> QED
    BY <2>3, <2>4
<1> QED
  BY <1>6, <1>7, <1>8

LEMMA RotateInv == TailInv /\ Rotate => TailInv'
<1> SUFFICES ASSUME TailInv, Rotate
             PROVE  TailInv'
  OBVIOUS
<1> DEFINE g == files[current].gen + 1
<1>1. PICK r \in Names :
        /\ files' = [files EXCEPT ![r] = [gen |-> g, data |-> <<>>]] /\ current' = r
        /\ UNCHANGED <<written, poll, stat, pos, carry, pending, out, got, slipped>>
  BY GenerationIs DEF Rotate, Follower
<1>2. /\ current \in Names /\ stat \in Names /\ pos.name \in Names /\ pos.gen \in Nat
      /\ files[current].gen \in Nat
      /\ \A n \in Names : files[n].gen \in Nat
      /\ \A n \in Names : files[n].gen < g
  BY DEF TailInv, TailTypes, Generations
<1>3. g \in Nat /\ g # 0
  BY <1>2
<1> HIDE DEF g
<1>4. \A n \in Names : /\ files'[n].gen = IF n = r THEN g ELSE files[n].gen
                       /\ files'[n].data = IF n = r THEN <<>> ELSE files[n].data
  BY <1>1 DEF TailInv, TailTypes
<1>5. TailTypes'
  <2>1. files' \in [Names -> [gen : Nat, data : Seq(Piece)]]
    BY <1>1, <1>3, EmptySeq DEF TailInv, TailTypes
  <2>2. \A n \in Names : IsLog(files'[n].data)
    BY <1>4, EmptyLog DEF TailInv, TailTypes
  <2> QED
    BY <1>1, <1>2, <2>1, <2>2 DEF TailInv, TailTypes
<1>6. pos.gen < g /\ (files'[pos.name].gen = pos.gen => pos.name # r /\ files[pos.name].gen = pos.gen)
  <2>1. pos.gen < g
    BY <1>2, <1>3 DEF TailInv, Generations
  <2> QED
    BY <1>2, <1>3, <1>4, <2>1
<1>7. Generations'
  <2>1. \A n \in Names : files'[n].gen <= files'[r].gen
    BY <1>2, <1>3, <1>4
  <2>2. \A n \in {r, stat} : files'[n].gen = 0 => n = First
    BY <1>2, <1>3, <1>4 DEF TailInv, Generations
  <2>3. \A m, n \in Names : m # n /\ files'[m].gen = files'[n].gen => files'[n].gen = 0
    <3>1. \A n \in Names : files[n].gen # g
      BY <1>2, <1>3
    <3> QED
      BY <1>4, <3>1 DEF TailInv, Generations
  <2>4. pos.gen <= files'[pos.name].gen
    BY <1>2, <1>3, <1>4, <1>6 DEF TailInv, Generations
  <2>5. \A n \in Names \ {pos.name} : files'[n].gen = pos.gen => files'[n].gen = 0
    BY <1>2, <1>3, <1>4, <1>6 DEF TailInv, Generations
  <2>6. pos.gen = 0 => pos.name = First
    BY DEF TailInv, Generations
  <2> QED
    BY <1>1, <2>1, <2>2, <2>3, <2>4, <2>5, <2>6 DEF Generations
<1>8. Accounting'
  BY <1>1, <1>2, <1>4, <1>6 DEF TailInv, Accounting
<1> QED
  BY <1>5, <1>7, <1>8 DEF TailInv

LEMMA StatNameInv == TailInv /\ StatName => TailInv'
<1> SUFFICES ASSUME TailInv, StatName
             PROVE  TailInv'
  OBVIOUS
<1>1. /\ stat' = current /\ poll' = "size"
      /\ UNCHANGED <<files, current, written, pos, carry, pending, out, got, slipped>>
  BY DEF StatName, Server
<1>2. TailTypes'
  BY <1>1 DEF TailInv, TailTypes
<1>3. Generations'
  BY <1>1 DEF TailInv, Generations
<1>4. Accounting'
  BY <1>1 DEF TailInv, Accounting
<1> QED
  BY <1>2, <1>3, <1>4 DEF TailInv

LEMMA StillInv == TailInv /\ (PollFails \/ UNCHANGED tailVars) => TailInv'
<1> SUFFICES ASSUME TailInv, PollFails \/ UNCHANGED tailVars
             PROVE  TailInv'
  OBVIOUS
<1>1. /\ poll' \in {"wait", poll}
      /\ UNCHANGED <<files, current, written, stat, pos, carry, pending, out, got, slipped>>
  BY DEF PollFails, QueryFails, Server, tailVars
<1>2. TailTypes'
  BY <1>1 DEF TailInv, TailTypes
<1>3. Generations'
  BY <1>1 DEF TailInv, Generations
<1>4. Accounting'
  BY <1>1 DEF TailInv, Accounting
<1> QED
  BY <1>2, <1>3, <1>4 DEF TailInv

LEMMA RotatedInv == TailInv /\ StatSize /\ Rotated => TailInv'
<1> SUFFICES ASSUME TailInv, StatSize, Rotated
             PROVE  TailInv'
  OBVIOUS
<1> DEFINE d == files[stat].data
<1>1. /\ pos' = [name |-> stat, size |-> Size(stat), offset |-> 0, gen |-> files[stat].gen]
      /\ out' = out \o Flush(pending)
      /\ carry' = <<>> /\ got' = <<>> /\ pending' = <<>>
      /\ UNCHANGED <<files, current, written, stat>>
      /\ slipped' = slipped
  BY StatSizeRotated, StatSizeSlips DEF TailInv, TailTypes
<1>2. stat \in Names /\ IsLog(d) /\ Size(stat) \in Nat /\ files[stat].gen \in Nat /\ slipped \in BOOLEAN
  BY LenProperties DEF TailInv, TailTypes, IsLog, Size
<1>3. out \o Flush(pending) \in Seq(Seq(Piece)) /\ <<>> \in Seq(Piece)
  BY Flushed, Emitted, EmptySeq DEF TailInv, TailTypes
<1>4. TailTypes'
  <2>1. pos' \in [name : Names, size : Nat, offset : Nat, gen : Nat] /\ pos'.offset <= pos'.size
    BY <1>1, <1>2
  <2> QED
    BY <1>1, <1>2, <1>3, <2>1 DEF TailInv, TailTypes
<1>5. Generations'
  BY <1>1, <1>2 DEF TailInv, TailTypes, Generations
<1>6. Accounting'
  <2>1. <<>> = SubSeq(d, 1, 0) /\ 0 <= Len(d) /\ 0 % 3 = 0
    BY <1>2, SubSeqEmpty, LenProperties DEF IsLog
  <2>2. Accounted(d, 0, <<>>, <<>>, <<>>)
    BY <1>2, <1>3, <2>1, AccountedClean
  <2> QED
    BY <1>1, <2>2 DEF Accounting
<1> QED
  BY <1>4, <1>5, <1>6 DEF TailInv

LEMMA FollowedInv == TailInv /\ StatSize /\ ~Rotated => TailInv'
<1> SUFFICES ASSUME TailInv, StatSize, ~Rotated
             PROVE  TailInv'
  OBVIOUS
<1> DEFINE d == files[pos.name].data
<1>1. /\ pos' = [pos EXCEPT !.size = Size(stat)] /\ carry' = carry
      /\ Quieted =>
           /\ out' = out \o Flush(pending) /\ got' = got \o FlattenSeq(Flush(pending))
           /\ pending' = <<>> /\ poll' = "wait"
      /\ ~Quieted =>
           /\ out' = out \o <<>> /\ got' = got \o FlattenSeq(<<>>)
           /\ pending' = pending
      /\ UNCHANGED <<files, current, written, stat>>
      /\ slipped' = (slipped \/ (~Rotated /\ files[stat].gen # pos.gen))
  BY StatSizeFollowed, StatSizeSlips
<1>2. /\ stat = pos.name /\ pos.offset <= Size(stat) /\ Size(stat) = Len(d) /\ Size(stat) \in Nat
      /\ pos.name \in Names /\ IsLog(d)
  <2>1. stat = pos.name /\ ~ (Size(stat) < pos.offset) /\ Size(stat) = Len(d)
    BY DEF Rotated, Size
  <2>2. pos.name \in Names /\ IsLog(d) /\ pos.offset \in Nat
    BY DEF TailInv, TailTypes
  <2>3. Len(d) \in Nat
    BY <2>2, LenProperties DEF IsLog
  <2> HIDE DEF d
  <2> QED
    BY <2>1, <2>2, <2>3
<1>3. /\ out \in Seq(Seq(Piece)) /\ got \in Seq(Piece) /\ pending \in Seq(Piece) /\ carry \in Seq(Piece)
      /\ <<>> \in Seq(Piece) /\ <<>> \in Seq(Seq(Piece)) /\ slipped \in BOOLEAN
      /\ pos \in [name : Names, size : Nat, offset : Nat, gen : Nat]
  BY EmptySeq DEF TailInv, TailTypes
<1>4. /\ Flush(pending) \in Seq(Seq(Piece)) /\ FlattenSeq(Flush(pending)) = pending
      /\ out \o Flush(pending) \in Seq(Seq(Piece)) /\ out \o <<>> = out
      /\ got \o FlattenSeq(<<>>) = got
  <2>1. out \o <<>> = out
    BY <1>3, ConcatEmptySeq
  <2>2. got \o FlattenSeq(<<>>) = got
    BY <1>3, ConcatEmptySeq, FlattenEmpty
  <2>3. Flush(pending) \in Seq(Seq(Piece)) /\ FlattenSeq(Flush(pending)) = pending
    BY <1>3, Flushed, Zenon
  <2> QED
    BY <1>3, <2>1, <2>2, <2>3, Emitted
<1>5. got \o pending \in Seq(Piece)
  BY <1>3, ConcatProperties
<1>6. /\ pos' \in [name : Names, size : Nat, offset : Nat, gen : Nat]
      /\ pos'.name = pos.name /\ pos'.offset = pos.offset /\ pos'.gen = pos.gen
      /\ pos'.size = Size(stat)
  BY <1>1, <1>2, <1>3
<1>7. TailTypes'
  <2>1. out' \in Seq(Seq(Piece)) /\ got' \in Seq(Piece) /\ pending' \in Seq(Piece)
    BY <1>1, <1>3, <1>4, <1>5
  <2> QED
    BY <1>1, <1>2, <1>3, <1>6, <2>1 DEF TailInv, TailTypes
<1>8. Generations'
  BY <1>1, <1>6 DEF TailInv, Generations
<1>9. Accounting'
  <2> SUFFICES ASSUME ~slipped, files[pos.name].gen = pos.gen
               PROVE  Accounted(d, pos.offset, got', carry, pending')
    BY <1>1, <1>2, <1>6 DEF Accounting
  <2>1. Accounted(d, pos.offset, got, carry, pending)
    BY DEF TailInv, Accounting
  <2>2. CASE Quieted
    <3>1. pos.offset = Len(d)
      BY <1>2, <2>2 DEF Quieted, Quiet
    <3>2. carry = <<>>
      BY <1>2, <2>1, <3>1, PendingIsWhole
    <3>3. got \o pending = SubSeq(d, 1, Len(d))
      <4>1. (got \o pending) \o <<>> = got \o pending
        BY <1>5, ConcatEmptySeq
      <4> QED
        BY <2>1, <3>1, <3>2, <4>1 DEF Accounted
    <3>4. Accounted(d, Len(d), got \o pending, <<>>, <<>>)
      <4>1. Len(d) \in Nat /\ Len(d) <= Len(d) /\ Len(d) % 3 = 0
        <5> HIDE DEF d
        <5> QED
          BY <1>2 DEF IsLog
      <4> QED
        BY <1>2, <1>5, <3>3, <4>1, AccountedClean
    <3> QED
      BY <1>1, <1>4, <2>2, <3>1, <3>2, <3>4
  <2>3. CASE ~Quieted
    BY <1>1, <1>4, <2>1, <2>3
  <2> QED
    BY <2>2, <2>3
<1> QED
  BY <1>7, <1>8, <1>9 DEF TailInv

LEMMA ReadInv == TailInv /\ Read => TailInv'
<1> SUFFICES ASSUME TailInv, Read
             PROVE  TailInv'
  OBVIOUS
<1> DEFINE d == files[pos.name].data
<1>1. /\ poll = "read" /\ poll' = "wait" /\ UNCHANGED <<files, current, written, stat>>
      /\ pos' = [pos EXCEPT !.offset = @ + Len(Chunk)]
      /\ carry' = Parsed.carry /\ pending' = Parsed.pending
      /\ out' = out \o Parsed.done /\ got' = got \o FlattenSeq(Parsed.done)
      /\ slipped' = (slipped \/ (Chunk # <<>> /\ files[pos.name].gen # pos.gen))
  BY ReadIs
<1>2. /\ Chunk \in Seq(Piece) /\ ParserType(Parsed)
      /\ ~slipped /\ files[pos.name].gen = pos.gen => Good(d, pos.offset + Len(Chunk), got, Parsed)
  BY <1>1, ReadParses
<1>3. Len(Chunk) \in Nat
  BY <1>2, LenProperties
<1>4. /\ pos' \in [name : Names, size : Nat, offset : Nat, gen : Nat]
      /\ pos'.name = pos.name /\ pos'.offset = pos.offset + Len(Chunk) /\ pos'.gen = pos.gen
  <2>1. pos \in [name : Names, size : Nat, offset : Nat, gen : Nat]
    BY DEF TailInv, TailTypes
  <2> DEFINE n == Len(Chunk)
  <2>2. n \in Nat /\ pos' = [pos EXCEPT !.offset = @ + n]
    BY <1>1, <1>3
  <2> HIDE DEF n
  <2>3. /\ pos' \in [name : Names, size : Nat, offset : Nat, gen : Nat]
        /\ pos'.name = pos.name /\ pos'.offset = pos.offset + n /\ pos'.gen = pos.gen
    BY <2>1, <2>2
  <2> QED
    BY <2>3 DEF n
<1>5. TailTypes'
  <2>1. out' \in Seq(Seq(Piece))
    BY <1>1, <1>2, Emitted DEF TailInv, TailTypes, ParserType
  <2>2. FlattenSeq(Parsed.done) \in Seq(Piece)
    BY <1>2, EmptySeq, FlattenPieces DEF ParserType
  <2>3. got' \in Seq(Piece)
    BY <1>1, <2>2, ConcatProperties DEF TailInv, TailTypes
  <2> QED
    BY <1>1, <1>2, <1>4, <2>1, <2>3 DEF TailInv, TailTypes, ParserType
<1>6. Generations'
  BY <1>1, <1>4 DEF TailInv, Generations
<1>7. Accounting'
  BY <1>1, <1>2, <1>4 DEF TailInv, Accounting, Good
<1> QED
  BY <1>5, <1>6, <1>7 DEF TailInv

LEMMA TailStep == TailInv /\ [TailNext]_tailVars => TailInv'
  BY WriteInv, RotateInv, StatNameInv, StillInv, RotatedInv, FollowedInv, ReadInv, Zenon
     DEF TailNext

(* The invariant is inductive.                                              *)
LEMMA TailInvHolds == TailSpec => []TailInv
  BY InitInv, TailStep, PTL DEF TailSpec

(* Within one file Follow loses, repeats, reorders and mixes no byte: for   *)
(* every read size, every cut of a line or an entry between two chunks, any *)
(* number of entries and of rotations, and whichever polls fail.            *)
THEOREM BytesAccounted == TailSpec => []ConsumedIsAccounted
<1>1. TailInv => ConsumedIsAccounted
  BY DEF TailInv, Accounting, Accounted, ConsumedIsAccounted
<1> QED
  BY <1>1, TailInvHolds, PTL

(* What EmittedWhole asks of a step; a step that emits nothing meets it.    *)
WholeEntries == \A k \in Len(out) + 1 .. Len(out') : out'[k] = Pieces(out'[k][1].entry)

LEMMA NothingEmitted ==
  ASSUME TailInv, out' = out
  PROVE  WholeEntries
<1>1. Len(out) \in Nat
  BY LenProperties DEF TailInv, TailTypes
<1>2. Len(out) + 1 .. Len(out') = {}
  BY <1>1
<1> QED
  BY <1>2 DEF WholeEntries

LEMMA StatSizeEmitsWhole ==
  ASSUME TailInv, StatSize, ~slipped', pos'.gen = pos.gen
  PROVE  WholeEntries
<1> DEFINE d == files[pos.name].data
<1>0. /\ pos.name \in Names /\ stat \in Names /\ IsLog(d) /\ slipped \in BOOLEAN
      /\ out \in Seq(Seq(Piece)) /\ pending \in Seq(Piece)
      /\ pos.offset \in Nat /\ Len(d) \in Nat
  BY LenProperties DEF TailInv, TailTypes, IsLog
<1>1. ~slipped /\ (~Rotated => files[stat].gen = pos.gen)
  BY <1>0, StatSizeSlips
<1>2. ~Rotated
  <2> SUFFICES ASSUME Rotated
               PROVE  FALSE
    OBVIOUS
  <2>1. files[stat].gen = pos.gen
    BY StatSizeRotated
  <2>2. stat = pos.name
    BY <1>0, <2>1 DEF TailInv, Generations
  <2>3. pos.offset <= Len(d)
    BY <1>1, <2>1, <2>2 DEF TailInv, Accounting, Accounted
  <2> QED
    BY <1>0, <2>2, <2>3 DEF Rotated, Size
<1>3. stat = pos.name /\ Accounted(d, pos.offset, got, carry, pending)
  BY <1>1, <1>2 DEF Rotated, TailInv, Accounting
<1>4. CASE Quieted
  <2>1. pos.offset = Len(d)
    BY <1>3, <1>4 DEF Quieted, Quiet, Size
  <2>2. pending = <<>> \/ Whole(pending)
    BY <1>0, <1>3, <2>1, PendingIsWhole
  <2>3. Flush(pending) \in Seq(Seq(Piece)) /\ \A k \in 1 .. Len(Flush(pending)) : Whole(Flush(pending)[k])
    BY <1>0, <2>2, Flushed
  <2>4. \A k \in Len(out) + 1 .. Len(out \o Flush(pending)) : Whole((out \o Flush(pending))[k])
    BY <1>0, <2>3, Emitted
  <2>5. out' = out \o Flush(pending)
    BY <1>2, <1>4, StatSizeFollowed
  <2> QED
    BY <2>4, <2>5 DEF WholeEntries, Whole
<1>5. CASE ~Quieted
  <2>1. out' = out \o <<>>
    BY <1>2, <1>5, StatSizeFollowed
  <2>2. out \o <<>> = out
    BY <1>0, ConcatEmptySeq
  <2> QED
    BY <2>1, <2>2, NothingEmitted
<1> QED
  BY <1>4, <1>5

LEMMA ReadEmitsWhole ==
  ASSUME TailInv, Read, ~slipped'
  PROVE  WholeEntries
<1>1. /\ poll = "read" /\ out' = out \o Parsed.done
      /\ slipped' = (slipped \/ (Chunk # <<>> /\ files[pos.name].gen # pos.gen))
  BY ReadIs
<1>2. /\ ParserType(Parsed) /\ (Chunk = <<>> => Parsed.done = <<>>)
      /\ ~slipped /\ files[pos.name].gen = pos.gen =>
           Good(files[pos.name].data, pos.offset + Len(Chunk), got, Parsed)
  BY <1>1, ReadParses
<1>3. out \in Seq(Seq(Piece)) /\ Parsed.done \in Seq(Seq(Piece)) /\ slipped \in BOOLEAN
  BY <1>2 DEF TailInv, TailTypes, ParserType
<1>4. CASE Chunk = <<>>
  <2>1. out \o <<>> = out
    BY <1>3, ConcatEmptySeq
  <2> QED
    BY <1>1, <1>2, <1>4, <2>1, NothingEmitted
<1>5. CASE Chunk # <<>>
  <2>1. ~slipped /\ files[pos.name].gen = pos.gen
    BY <1>1, <1>3, <1>5
  <2>2. \A k \in 1 .. Len(Parsed.done) : Whole(Parsed.done[k])
    BY <1>2, <2>1 DEF Good
  <2>3. \A k \in Len(out) + 1 .. Len(out \o Parsed.done) : Whole((out \o Parsed.done)[k])
    BY <1>3, <2>2, Emitted
  <2> QED
    BY <1>1, <2>3 DEF WholeEntries, Whole
<1> QED
  BY <1>4, <1>5

(* Follow emits no entry before its continuation lines are in, except at a  *)
(* rotation: neither a message read without its DETAIL nor a quiet poll in  *)
(* the middle of an entry cuts it.                                          *)
THEOREM OnlyWholeEntries == TailSpec => EmittedWhole
<1>1. TailInv /\ [TailNext]_tailVars =>
        [~slipped' /\ pos'.gen = pos.gen => WholeEntries]_tailVars
  <2> SUFFICES ASSUME TailInv, [TailNext]_tailVars, ~slipped', pos'.gen = pos.gen
               PROVE  WholeEntries
    OBVIOUS
  <2>1. CASE out' = out
    BY <2>1, NothingEmitted
  <2>2. CASE StatSize
    BY <2>2, StatSizeEmitsWhole
  <2>3. CASE Read
    BY <2>3, ReadEmitsWhole
  <2>4. Write \/ Rotate \/ StatName \/ PollFails \/ UNCHANGED tailVars => out' = out
    BY DEF Write, Rotate, StatName, PollFails, QueryFails, tailVars, Follower
  <2> QED
    BY <2>1, <2>2, <2>3, <2>4 DEF TailNext
<1> QED
  BY <1>1, TailInvHolds, PTL DEF TailSpec, EmittedWhole, WholeEntries

=============================================================================
