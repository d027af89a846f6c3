------------------------- MODULE LldClientOpenProofs -------------------------
(***************************************************************************)
(* send_open indexes only sessions of the pool, for every pool size, once *)
(* DIAL_ATTEMPTS is at least 2 (c_client.c defines it as 3).  With a pool  *)
(* of one session and one attempt the countdown would reach clients[-1].   *)
(***************************************************************************)
EXTENDS LldClientProofs

USE NClientsAssumption, DialAttemptsAssumption

OpenPCs == {"open_send", "open_recv"}

\* The countdown's strengthening: inside send_open remaining_servers is a
\* pool slot, and it can be slot 0 only before any attempt there has been
\* spent (only when the pool has a single session).
OpenCtl ==
    pc \in OpenPCs =>
        /\ remaining_servers \in Slots
        /\ remaining_servers = 0 => remaining_attempts = DialAttempts

OInv == IInv /\ OpenCtl

LEMMA OpenCtlInit == Init => OpenCtl
  BY DEF Init, OpenCtl, OpenPCs

\* Every step outside send_open either leaves pc outside it or changes
\* neither pc nor the countdown.
LEMMA OtherStartsLeave ==
    ASSUME Start, ~StartOpen
    PROVE  pc' \notin OpenPCs \/ UNCHANGED <<pc, remaining_servers,
                                               remaining_attempts>>
  <1>1. CASE \E o \in {"exec", "query"} : StartStatement(o)
    BY <1>1 DEF StartStatement, OpenPCs
  <1>2. CASE StartCreate
    BY <1>2 DEF StartCreate, OpenPCs
  <1>3. CASE StartGetLeader
    BY <1>3 DEF StartGetLeader, OpenPCs
  <1>4. CASE CloseSockets
    BY <1>4 DEF CloseSockets
  <1>5. CASE \E o \in {"add", "remove"}, c \in Slots : StartAdmin(o, c)
    BY <1>5 DEF StartAdmin, OpenPCs
  <1>6. QED
    BY <1>1, <1>2, <1>3, <1>4, <1>5 DEF Start

LEMMA OtherStepsLeave ==
    ASSUME Step, ~OpenSend, ~OpenRecv
    PROVE  pc' \notin OpenPCs
  <1>1. CASE LeaderSend
    BY <1>1 DEF LeaderSend, OpenPCs
  <1>2. CASE LeaderRecv
    BY <1>2 DEF LeaderRecv, Return, OpenPCs
  <1>3. CASE PrepSend \/ PrepRecv \/ RunSend
    BY <1>3 DEF PrepSend, PrepRecv, RunSend, OpenPCs
  <1>4. CASE RunRecv
    BY <1>4 DEF RunRecv, Return, OpenPCs
  <1>5. CASE AdmSend \/ AdmRecv
    BY <1>5 DEF AdmSend, AdmRecv, Return, OpenPCs
  <1>6. CASE GlSend \/ GlDone \/ GlRecv
    BY <1>6 DEF GlSend, GlDone, GlRecv, Return, OpenPCs
  <1>7. QED
    BY <1>1, <1>2, <1>3, <1>4, <1>5, <1>6 DEF Step

\* The receive of send_open keeps the countdown inside the pool: a failed
\* clientRecvDb either stays on the slot, steps down to a slot >= 1, or
\* ends the call when it reaches slot 0.
LEMMA OpenRecvCtl ==
    ASSUME DialAttempts >= 2, IInv, OpenCtl, OpenRecv
    PROVE  OpenCtl'
  <1>1. /\ remaining_servers \in Slots
        /\ remaining_servers = 0 => remaining_attempts = DialAttempts
        /\ remaining_attempts \in 1 .. DialAttempts
    BY DEF OpenRecv, OpenCtl, OpenPCs, IInv, TypeOK
  <1>2. CASE Got(remaining_servers, "Db")
    <2>1. pc' = "idle"
      BY <1>2 DEF OpenRecv, Return
    <2>2. QED
      BY <2>1 DEF OpenCtl, OpenPCs
  <1>3. CASE ~Got(remaining_servers, "Db")
    <2>1. OpenBackoff
      BY <1>3 DEF OpenRecv
    <2> DEFINE spent == remaining_attempts - 1
               next == IF spent = 0 THEN remaining_servers - 1
                                    ELSE remaining_servers
    <2>2. /\ remaining_attempts' = IF spent = 0 THEN DialAttempts ELSE spent
          /\ remaining_servers' = next
          /\ next = 0 => pc' = "idle"
          /\ next # 0 => pc' = "open_send"
      BY <2>1 DEF OpenBackoff, Return
    <2>3. next # 0 => next \in Slots /\ next # 0
      BY <1>1 DEF Slots
    <2>4. QED
      BY <2>2, <2>3 DEF OpenCtl, OpenPCs
  <1>4. QED
    BY <1>2, <1>3

LEMMA OpenCtlStep ==
    ASSUME DialAttempts >= 2, IInv, OpenCtl, [Next]_vars
    PROVE  OpenCtl'
  <1>1. CASE StartOpen
    BY <1>1 DEF StartOpen, OpenCtl, OpenPCs, Slots
  <1>2. CASE Start /\ ~StartOpen
    BY <1>2, OtherStartsLeave DEF OpenCtl
  <1>3. CASE OpenSend
    BY <1>3 DEF OpenSend, OpenCtl, OpenPCs
  <1>4. CASE OpenRecv
    BY <1>4, OpenRecvCtl
  <1>5. CASE Step /\ ~OpenSend /\ ~OpenRecv
    BY <1>5, OtherStepsLeave DEF OpenCtl
  <1>6. CASE \E i \in Slots : Serve(i) \/ Crash(i)
    <2>1. PICK i \in Slots : Serve(i) \/ Crash(i)
      BY <1>6
    <2>2. UNCHANGED caller
      BY <2>1 DEF Serve, ServeLeader, ServeOpen, ServePrepare, ServeExec,
         ServeQuery, ServeAdmin, Crash
    <2>3. QED
      BY <2>2 DEF caller, OpenCtl
  <1>7. CASE ChangeLeader \/ Terminated \/ UNCHANGED vars
    BY <1>7 DEF ChangeLeader, Terminated, vars, caller, OpenCtl
  <1>8. QED
    BY <1>1, <1>2, <1>3, <1>4, <1>5, <1>6, <1>7 DEF Next

\* send_open never dials a session outside the pool: while it runs,
\* remaining_servers names one of clients[0 .. n_clients-1], for every pool
\* size, whenever DIAL_ATTEMPTS is at least 2.
THEOREM OpenInPool ==
    ASSUME DialAttempts >= 2
    PROVE  Spec => []OpenTargetsPool
  <1>1. Init => OInv
    BY InitIInv, OpenCtlInit DEF OInv
  <1>2. OInv /\ [Next]_vars => OInv'
    BY NextIInv, OpenCtlStep DEF OInv
  <1>3. OInv => OpenTargetsPool
    BY DEF OInv, OpenCtl, OpenPCs, OpenTargetsPool
  <1>4. QED
    BY <1>1, <1>2, <1>3, PTL DEF Spec

=============================================================================
