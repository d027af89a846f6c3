------------------------------ MODULE LldClient ------------------------------
(***************************************************************************)
(* The client driver of src/lib/c_client.c talking to a dqlite cluster.   *)
(*                                                                         *)
(* One single-threaded caller runs the driver's entry points (exec,        *)
(* raw_query, createTable, send_open, addServer, removeServer, get_leader, *)
(* close_sockets) one after the other.  Each entry point is a sequence of  *)
(* blocking send/receive steps on the pool sessions clients[0..n-1]; each  *)
(* step is one action, so that the cluster (leader changes, node crashes,  *)
(* nodes serving requests) interleaves between them.                       *)
(*                                                                         *)
(* A session's byte stream is modelled in 8-byte units: a response is a    *)
(* header unit followed by BodyWords[t] body units.  READ2 reads the       *)
(* header, returns an error WITHOUT reading the body when the type is not  *)
(* the expected one, and the next read then starts inside that body.       *)
(***************************************************************************)
EXTENDS Integers, Sequences, FiniteSets

CONSTANTS
    NClients,         \* n_clients, set by set_n_clients
    MaxClients,       \* MAX_CLIENTS
    DialAttempts,     \* DIAL_ATTEMPTS
    FailureWords,     \* body words of a dqlite FAILURE response (code + text)
    MaxCalls,         \* bound: entry-point calls made by the caller
    MaxLeaderChanges, \* bound: leadership changes in the cluster
    MaxCrashes,       \* bound: node crashes
    CallerOps,        \* the entry points the caller invokes
    NoLeader,         \* leader id 0: the node knows no leader
    Junk              \* an uninitialised value that names no statement

ASSUME NClientsAssumption == NClients \in 1..MaxClients
ASSUME DialAttemptsAssumption == DialAttempts \in Nat \ {0}
ASSUME FailureWordsAssumption == FailureWords \in Nat \ {0}
ASSUME CallerOpsAssumption ==
    CallerOps \subseteq {"exec", "query", "create", "open", "add", "remove",
                         "getleader", "close"}
ASSUME BoundsAssumption ==
    {MaxCalls, MaxLeaderChanges, MaxCrashes} \subseteq Nat

Slots == 0 .. NClients - 1          \* pool positions; slot i is node i
Calls == 1 .. MaxCalls              \* a statement is named by its call
Garbage == Calls \cup {Junk}        \* what an uninitialised id may hold

RespTypes == {"Leader", "Db", "Stmt", "Result", "Rows", "Empty", "Failure"}

\* Body size in 8-byte words of each response type.
BodyWords == [t \in RespTypes |->
                IF t \in {"Db", "Empty"} THEN 1
                ELSE IF t = "Failure" THEN FailureWords ELSE 2]

Header(t, v) == [t |-> t, v |-> v, w |-> BodyWords[t]]
BodyWord == [t |-> "Word", v |-> 0, w |-> 0]
Frame(t, v) == <<Header(t, v)>> \o [k \in 1 .. BodyWords[t] |-> BodyWord]
Headers(ts, vs) == {Header(t, v) : t \in ts, v \in vs}
\* A unit of a stream: a header with the payload its type carries, or a
\* body word.
Unit == {BodyWord}
        \cup Headers({"Leader"}, Slots \cup {NoLeader})
        \cup Headers({"Stmt", "Result", "Rows"}, Calls)
        \cup Headers({"Db", "Empty", "Failure"}, {0})
Request == [t : {"Leader", "Open", "Add", "Remove"}, v : {0}]
           \cup [t : {"Prepare"}, v : Calls]
           \cup [t : {"Exec", "Query"}, v : Garbage]
Req(t, v) == [t |-> t, v |-> v]

Ops == {"exec", "query", "create", "open", "add", "remove", "getleader",
        "close"}
PCs == {"idle", "exited", "lead_send", "lead_recv", "prep_send",
        "prep_recv", "run_send", "run_recv", "open_send", "open_recv",
        "adm_send", "adm_recv", "gl_send", "gl_recv"}
Outcome == [call : Calls, op : Ops, ret : Int, slot : Int,
            lid : Slots \cup {NoLeader}]

VARIABLES
    leader, up, opened, prepared, dbLog, changes, crashes,  \* cluster
    conn, tx, rx,                                           \* sessions
    pc, op, call, client_index, leader_index, leader_id,    \* caller
    stmt_id, rows_affected, errs, n_changed,
    remaining_servers, remaining_attempts, node_infos, results

cluster == <<leader, up, opened, prepared, dbLog, changes, crashes>>
sessions == <<conn, tx, rx>>
caller == <<pc, op, call, client_index, leader_index, leader_id, stmt_id,
            rows_affected, errs, n_changed, remaining_servers,
            remaining_attempts, node_infos, results>>
vars == <<cluster, sessions, caller>>

TypeOK ==
    /\ leader \in Slots \cup {NoLeader}
    /\ up \in [Slots -> BOOLEAN]
    /\ opened \in [Slots -> BOOLEAN]
    /\ prepared \in [Slots -> SUBSET Calls]
    /\ dbLog \in Seq(Calls)
    /\ changes \in 0 .. MaxLeaderChanges /\ crashes \in 0 .. MaxCrashes
    /\ conn \in [Slots -> {"open", "broken", "closed"}]
    /\ tx \in [Slots -> Seq(Request)]
    /\ rx \in [Slots -> Seq(Unit)]
    /\ pc \in PCs /\ op \in Ops \cup {"none"} /\ call \in 0 .. MaxCalls
    /\ client_index \in 0 .. NClients + 1
    /\ leader_index \in Slots
    /\ leader_id \in Slots \cup {NoLeader}
    /\ stmt_id \in Garbage /\ rows_affected \in Garbage
    /\ errs \subseteq 0 .. 3 /\ n_changed \in Garbage \cup {0}
    /\ remaining_servers \in Int
    /\ remaining_attempts \in 1 .. DialAttempts
    /\ node_infos \in [Slots -> Slots \cup {NoLeader}]
    /\ results \in Seq(Outcome)

Init ==
    /\ leader \in Slots \cup {NoLeader}
    /\ up = [i \in Slots |-> TRUE]
    /\ opened = [i \in Slots |-> FALSE]
    /\ prepared = [i \in Slots |-> {}]
    /\ dbLog = <<>> /\ changes = 0 /\ crashes = 0
    /\ conn = [i \in Slots |-> "open"]     \* pool dialled by the caller
    /\ tx = [i \in Slots |-> <<>>] /\ rx = [i \in Slots |-> <<>>]
    /\ pc = "idle" /\ op = "none" /\ call = 0
    /\ client_index = 0 /\ leader_index = 0 /\ leader_id = NoLeader
    /\ stmt_id = Junk /\ rows_affected = Junk /\ errs = {}
    /\ n_changed = 0
    /\ remaining_servers = 0 /\ remaining_attempts = DialAttempts
    /\ node_infos = [i \in Slots |-> i]     \* sequential ids
    /\ results = <<>>
-----------------------------------------------------------------------------
(* Transport: the REQUEST2 / READ2 / DECODE2 macros.                       *)

\* write() of a whole request succeeds only on a live descriptor.
CanSend(i) == conn[i] = "open"
Sent(i, r) == tx' = [tx EXCEPT ![i] = Append(@, r)]

\* read() returns at once when data is buffered or the descriptor is dead;
\* otherwise it blocks (no deadline).
Readable(i) == rx[i] # <<>> \/ conn[i] # "open"

\* The header unit at the head of the stream has the expected type.
Got(i, t) == rx[i] # <<>> /\ Head(rx[i]).t = t
GotVal(i) == Head(rx[i]).v

\* Mutant of Consume: READ2 reads the header of a matching response and
\* skips the second read() of its body.
ConsumeNoBody(i, t) ==
    rx' = [rx EXCEPT ![i] = IF @ = <<>> THEN @ ELSE Tail(@)]

\* What READ2 consumes: header and body on a match, the header unit alone
\* on a type mismatch, nothing when read() fails.
Consume(i, t) ==
    rx' = [rx EXCEPT ![i] =
             IF Got(i, t) THEN SubSeq(@, 2 + Head(@).w, Len(@))
             ELSE IF @ = <<>> THEN @ ELSE Tail(@)]

\* The entry point returns r to the caller.
Return(r, s, l) ==
    /\ results' = Append(results, [call |-> call, op |-> op, ret |-> r,
                                   slot |-> s, lid |-> l])
    /\ pc' = "idle"

\* res = res0 && res1 && res2 && res3 (createTable omits res1): the call
\* reports an error only when every one of those steps failed.
AndedSteps(o) == IF o = "create" THEN {0, 2, 3} ELSE 0 .. 3
Res(o, failed) == IF AndedSteps(o) \subseteq failed THEN 1 ELSE 0

-----------------------------------------------------------------------------
(* Caller: entry points.                                                   *)

CanStart == pc = "idle" /\ call < MaxCalls
Begin(o) == o \in CallerOps /\ call' = call + 1 /\ op' = o /\ errs' = {}

\* exec / raw_query: client_index = n_clients - 1; leader_index = 0.
StartStatement(o) ==
    /\ CanStart /\ Begin(o)
    /\ client_index' = NClients - 1 /\ leader_index' = 0
    /\ pc' = "lead_send"
    /\ UNCHANGED <<cluster, sessions, leader_id, stmt_id, rows_affected,
                   n_changed, remaining_servers, remaining_attempts,
                   node_infos, results>>

\* createTable: main_client = &clients[1].
StartCreate ==
    /\ CanStart /\ 1 \in Slots /\ Begin("create")
    /\ leader_index' = 1 /\ pc' = "prep_send"
    /\ UNCHANGED <<cluster, sessions, client_index, leader_id, stmt_id,
                   rows_affected, n_changed, remaining_servers,
                   remaining_attempts, node_infos, results>>

\* Mutant of StartOpen: the countdown starts at n_clients, as the TODO in
\* send_open asks.
StartOpenAllServers ==
    /\ CanStart /\ Begin("open")
    /\ remaining_servers' = NClients
    /\ remaining_attempts' = DialAttempts
    /\ pc' = "open_send"
    /\ UNCHANGED <<cluster, sessions, client_index, leader_index, leader_id,
                   stmt_id, rows_affected, n_changed, node_infos, results>>

\* send_open: remaining_servers = n_clients - 1, DIAL_ATTEMPTS attempts.
StartOpen ==
    /\ CanStart /\ Begin("open")
    /\ remaining_servers' = NClients - 1
    /\ remaining_attempts' = DialAttempts
    /\ pc' = "open_send"
    /\ UNCHANGED <<cluster, sessions, client_index, leader_index, leader_id,
                   stmt_id, rows_affected, n_changed, node_infos, results>>

\* addServer / removeServer against the session the caller passes.
StartAdmin(o, c) ==
    /\ CanStart /\ Begin(o)
    /\ leader_index' = c /\ pc' = "adm_send"
    /\ UNCHANGED <<cluster, sessions, client_index, leader_id, stmt_id,
                   rows_affected, n_changed, remaining_servers,
                   remaining_attempts, node_infos, results>>

\* get_leader: client_index = 1.
StartGetLeader ==
    /\ CanStart /\ Begin("getleader")
    /\ client_index' = 1 /\ pc' = "gl_send"
    /\ UNCHANGED <<cluster, sessions, leader_index, leader_id, stmt_id,
                   rows_affected, n_changed, remaining_servers,
                   remaining_attempts, node_infos, results>>

\* close_sockets: clientClose on clients[0 .. n_clients-1]; unread input
\* is discarded with the descriptor.
CloseSockets ==
    /\ CanStart /\ Begin("close")
    /\ conn' = [i \in Slots |-> "closed"]
    /\ rx' = [i \in Slots |-> <<>>]
    /\ results' = Append(results, [call |-> call + 1, op |-> "close",
                                   ret |-> 0, slot |-> 0, lid |-> leader_id])
    /\ UNCHANGED <<cluster, tx, pc, client_index, leader_index, leader_id,
                   stmt_id, rows_affected, n_changed, remaining_servers,
                   remaining_attempts, node_infos>>
-----------------------------------------------------------------------------
(* Caller: the steps of exec / raw_query / createTable.                    *)

\* clientSendLeader(&clients[client_index]); exit(1) when it fails.
LeaderSend ==
    /\ pc = "lead_send"
    /\ \/ CanSend(client_index)
          /\ Sent(client_index, Req("Leader", 0)) /\ pc' = "lead_recv"
       \/ ~CanSend(client_index) /\ pc' = "exited" /\ UNCHANGED tx
    /\ UNCHANGED <<cluster, conn, rx, op, call, client_index, leader_index,
                   leader_id, stmt_id, rows_affected, errs, n_changed,
                   remaining_servers, remaining_attempts, node_infos,
                   results>>

\* clientRecvLeader; exit(1) when it fails.  On success whatever node
\* answered becomes leader_index, its node_infos id is overwritten with the
\* reported leader id, and the loop ends (done = 1).
LeaderRecv ==
    /\ pc = "lead_recv" /\ Readable(client_index)
    /\ Consume(client_index, "Leader")
    /\ \/ /\ Got(client_index, "Leader")
          /\ leader_id' = GotVal(client_index)
          /\ node_infos' = [node_infos EXCEPT ![client_index] =
                                                  GotVal(client_index)]
          /\ leader_index' = client_index
          /\ client_index' = client_index + 1
          /\ IF client_index + 1 > MaxClients
                THEN Return(-1, client_index, GotVal(client_index))
                ELSE pc' = "prep_send" /\ UNCHANGED results
       \/ /\ ~Got(client_index, "Leader") /\ pc' = "exited"
          /\ UNCHANGED <<leader_id, node_infos, leader_index, client_index,
                         results>>
    /\ UNCHANGED <<cluster, conn, tx, op, call, stmt_id, rows_affected, errs,
                   n_changed, remaining_servers, remaining_attempts>>

\* res0 = clientSendPrepare(...): a failure is logged and the call goes on.
PrepSend ==
    /\ pc = "prep_send" /\ pc' = "prep_recv"
    /\ \/ CanSend(leader_index)
          /\ Sent(leader_index, Req("Prepare", call)) /\ UNCHANGED errs
       \/ ~CanSend(leader_index) /\ errs' = errs \cup {0} /\ UNCHANGED tx
    /\ UNCHANGED <<cluster, conn, rx, op, call, client_index, leader_index,
                   leader_id, stmt_id, rows_affected, n_changed,
                   remaining_servers, remaining_attempts, node_infos,
                   results>>

\* Mutant of PrepRecv: READ2 without its message type check.
PrepRecvNoTypeCheck ==
    /\ pc = "prep_recv" /\ Readable(leader_index)
    /\ Consume(leader_index, Head(rx[leader_index]).t) /\ pc' = "run_send"
    /\ \/ (rx[leader_index] # <<>> /\ Head(rx[leader_index]).t \in RespTypes)
          /\ stmt_id' = GotVal(leader_index) /\ UNCHANGED errs
       \/ ~(rx[leader_index] # <<>> /\ Head(rx[leader_index]).t \in RespTypes)
          /\ stmt_id' \in Garbage /\ errs' = errs \cup {1}
    /\ UNCHANGED <<cluster, conn, tx, op, call, client_index, leader_index,
                   leader_id, rows_affected, n_changed, remaining_servers,
                   remaining_attempts, node_infos, results>>

\* res1 = clientRecvStmt(..., &stmt_id): on failure stmt_id is left as it
\* was on the stack, any value at all.
PrepRecv ==
    /\ pc = "prep_recv" /\ Readable(leader_index)
    /\ Consume(leader_index, "Stmt") /\ pc' = "run_send"
    /\ \/ Got(leader_index, "Stmt")
          /\ stmt_id' = GotVal(leader_index) /\ UNCHANGED errs
       \/ ~Got(leader_index, "Stmt")
          /\ stmt_id' \in Garbage /\ errs' = errs \cup {1}
    /\ UNCHANGED <<cluster, conn, tx, op, call, client_index, leader_index,
                   leader_id, rows_affected, n_changed, remaining_servers,
                   remaining_attempts, node_infos, results>>

RunReq(o) == IF o = "query" THEN "Query" ELSE "Exec"
RunResp(o) == IF o = "query" THEN "Rows" ELSE "Result"

\* res2 = clientSendExec / clientSendQuery(..., stmt_id).
RunSend ==
    /\ pc = "run_send" /\ pc' = "run_recv"
    /\ \/ CanSend(leader_index)
          /\ Sent(leader_index, Req(RunReq(op), stmt_id)) /\ UNCHANGED errs
       \/ ~CanSend(leader_index) /\ errs' = errs \cup {2} /\ UNCHANGED tx
    /\ UNCHANGED <<cluster, conn, rx, op, call, client_index, leader_index,
                   leader_id, stmt_id, rows_affected, n_changed,
                   remaining_servers, remaining_attempts, node_infos,
                   results>>

\* res3 = clientRecvResult / clientRecvRows, then res = res0 && .. && res3;
\* exec stores rows_affected (uninitialised on failure) in n_changed.
RunRecv ==
    /\ pc = "run_recv" /\ Readable(leader_index)
    /\ Consume(leader_index, RunResp(op))
    /\ LET ok == Got(leader_index, RunResp(op))
           failed == IF ok THEN errs ELSE errs \cup {3}
       IN /\ IF op = "query" THEN UNCHANGED rows_affected
             ELSE IF ok THEN rows_affected' = GotVal(leader_index)
             ELSE rows_affected' \in Garbage
          /\ n_changed' = IF op = "exec" THEN rows_affected' ELSE n_changed
          /\ Return(Res(op, failed), leader_index, leader_id)
    /\ UNCHANGED <<cluster, conn, tx, op, call, client_index, leader_index,
                   leader_id, stmt_id, errs, remaining_servers,
                   remaining_attempts, node_infos>>

-----------------------------------------------------------------------------
(* Caller: the steps of send_open, addServer/removeServer, get_leader.     *)

\* clientSendOpen(&clients[remaining_servers]); exit(1) when it fails.
\* clients[-1] is outside the pool: no step is modelled from there.
OpenSend ==
    /\ pc = "open_send" /\ remaining_servers \in Slots
    /\ \/ CanSend(remaining_servers)
          /\ Sent(remaining_servers, Req("Open", 0)) /\ pc' = "open_recv"
       \/ ~CanSend(remaining_servers) /\ pc' = "exited" /\ UNCHANGED tx
    /\ UNCHANGED <<cluster, conn, rx, op, call, client_index, leader_index,
                   leader_id, stmt_id, rows_affected, errs, n_changed,
                   remaining_servers, remaining_attempts, node_infos,
                   results>>

\* Mutant of OpenBackoff: the attempt budget is not refilled.
OpenBackoffNoReset ==
    LET spent == remaining_attempts - 1
        next == IF spent = 0 THEN remaining_servers - 1 ELSE remaining_servers
    IN /\ remaining_attempts' = spent
       /\ remaining_servers' = next
       /\ IF next = 0 THEN Return(1, remaining_servers, leader_id)
                      ELSE pc' = "open_send" /\ UNCHANGED results
\* After a failed clientRecvDb: one attempt is spent; after DIAL_ATTEMPTS
\* the next lower slot is taken; reaching slot 0 fails the open.
OpenBackoff ==
    LET spent == remaining_attempts - 1
        next == IF spent = 0 THEN remaining_servers - 1 ELSE remaining_servers
    IN /\ remaining_attempts' = IF spent = 0 THEN DialAttempts ELSE spent
       /\ remaining_servers' = next
       /\ IF next = 0 THEN Return(1, remaining_servers, leader_id)
                      ELSE pc' = "open_send" /\ UNCHANGED results

\* clientRecvDb: success ends the loop with 0 (not failed).
OpenRecv ==
    /\ pc = "open_recv" /\ Readable(remaining_servers)
    /\ Consume(remaining_servers, "Db")
    /\ \/ /\ Got(remaining_servers, "Db")
          /\ Return(0, remaining_servers, leader_id)
          /\ UNCHANGED <<remaining_servers, remaining_attempts>>
       \/ ~Got(remaining_servers, "Db") /\ OpenBackoff
    /\ UNCHANGED <<cluster, conn, tx, op, call, client_index, leader_index,
                   leader_id, stmt_id, rows_affected, errs, n_changed,
                   node_infos>>

AdmReq(o) == IF o = "add" THEN "Add" ELSE "Remove"

\* clientSendAdd / clientSendRemove; -1 when it fails.
AdmSend ==
    /\ pc = "adm_send"
    /\ \/ CanSend(leader_index)
          /\ Sent(leader_index, Req(AdmReq(op), 0)) /\ pc' = "adm_recv"
          /\ UNCHANGED results
       \/ ~CanSend(leader_index) /\ UNCHANGED tx
          /\ Return(-1, leader_index, leader_id)
    /\ UNCHANGED <<cluster, conn, rx, op, call, client_index, leader_index,
                   leader_id, stmt_id, rows_affected, errs, n_changed,
                   remaining_servers, remaining_attempts, node_infos>>

\* clientRecvEmpty; -1 when it fails, 0 otherwise.
AdmRecv ==
    /\ pc = "adm_recv" /\ Readable(leader_index)
    /\ Consume(leader_index, "Empty")
    /\ Return(IF Got(leader_index, "Empty") THEN 0 ELSE -1,
              leader_index, leader_id)
    /\ UNCHANGED <<cluster, conn, tx, op, call, client_index, leader_index,
                   leader_id, stmt_id, rows_affected, errs, n_changed,
                   remaining_servers, remaining_attempts, node_infos>>

\* Mutant of GlSend: client_index++ only after a successful send.
GlSendStuck ==
    /\ pc = "gl_send" /\ client_index < NClients
    /\ \/ CanSend(client_index)
          /\ Sent(client_index, Req("Leader", 0)) /\ pc' = "gl_recv"
          /\ UNCHANGED client_index
       \/ ~CanSend(client_index) /\ UNCHANGED tx
          /\ UNCHANGED client_index /\ pc' = "gl_send"
    /\ UNCHANGED <<cluster, conn, rx, op, call, leader_index, leader_id,
                   stmt_id, rows_affected, errs, n_changed, remaining_servers,
                   remaining_attempts, node_infos, results>>


\* The get_leader loop: while client_index < n_clients, a failed send is
\* logged and the next slot tried; then clients[client_index] is returned.
GlSend ==
    /\ pc = "gl_send" /\ client_index < NClients
    /\ \/ CanSend(client_index)
          /\ Sent(client_index, Req("Leader", 0)) /\ pc' = "gl_recv"
          /\ UNCHANGED client_index
       \/ ~CanSend(client_index) /\ UNCHANGED tx
          /\ client_index' = client_index + 1 /\ pc' = "gl_send"
    /\ UNCHANGED <<cluster, conn, rx, op, call, leader_index, leader_id,
                   stmt_id, rows_affected, errs, n_changed, remaining_servers,
                   remaining_attempts, node_infos, results>>

GlDone ==
    /\ pc = "gl_send" /\ client_index >= NClients
    /\ Return(client_index, client_index, leader_id)
    /\ UNCHANGED <<cluster, sessions, op, call, client_index, leader_index,
                   leader_id, stmt_id, rows_affected, errs, n_changed,
                   remaining_servers, remaining_attempts, node_infos>>

\* Mutant of GlRecv: get_leader reads the LEADER header and returns
\* without the second read() of the body (id and address).
GlRecvNoBody ==
    /\ pc = "gl_recv" /\ Readable(client_index)
    /\ ConsumeNoBody(client_index, "Leader")
    /\ \/ /\ Got(client_index, "Leader")
          /\ leader_id' = GotVal(client_index)
          /\ client_index' = client_index + 1
          /\ Return(client_index + 1, client_index, GotVal(client_index))
       \/ /\ ~Got(client_index, "Leader") /\ pc' = "exited"
          /\ UNCHANGED <<leader_id, client_index, results>>
    /\ UNCHANGED <<cluster, conn, tx, op, call, leader_index, stmt_id,
                   rows_affected, errs, n_changed, remaining_servers,
                   remaining_attempts, node_infos>>

\* clientRecvLeader; exit(1) on failure; on success done = 1,
\* client_index++ and clients[client_index] is returned.
GlRecv ==
    /\ pc = "gl_recv" /\ Readable(client_index)
    /\ Consume(client_index, "Leader")
    /\ \/ /\ Got(client_index, "Leader")
          /\ leader_id' = GotVal(client_index)
          /\ client_index' = client_index + 1
          /\ Return(client_index + 1, client_index, GotVal(client_index))
       \/ /\ ~Got(client_index, "Leader") /\ pc' = "exited"
          /\ UNCHANGED <<leader_id, client_index, results>>
    /\ UNCHANGED <<cluster, conn, tx, op, call, leader_index, stmt_id,
                   rows_affected, errs, n_changed, remaining_servers,
                   remaining_attempts, node_infos>>
-----------------------------------------------------------------------------
(* Cluster: a node's gateway serves the head request of our session and   *)
(* writes its whole response frame; leadership moves; nodes crash.        *)

Serving(i, t) == up[i] /\ tx[i] # <<>> /\ Head(tx[i]).t = t
Arg(i) == Head(tx[i]).v

\* The response reaches the client unless it has closed the descriptor.
Reply(i, t, v) ==
    /\ tx' = [tx EXCEPT ![i] = Tail(@)]
    /\ rx' = [rx EXCEPT ![i] = IF conn[i] = "closed" THEN @
                               ELSE @ \o Frame(t, v)]

\* Any node answers a Leader request with the leader it knows.
ServeLeader(i) ==
    /\ Serving(i, "Leader") /\ Reply(i, "Leader", leader)
    /\ UNCHANGED <<leader, up, opened, prepared, dbLog, changes, crashes,
                   conn, caller>>

\* Open works on any node, once per connection.
ServeOpen(i) ==
    /\ Serving(i, "Open")
    /\ \/ ~opened[i] /\ opened' = [opened EXCEPT ![i] = TRUE]
          /\ Reply(i, "Db", 0)
       \/ opened[i] /\ Reply(i, "Failure", 0) /\ UNCHANGED opened
    /\ UNCHANGED <<leader, up, prepared, dbLog, changes, crashes, conn,
                   caller>>

\* Prepare needs leadership and an open database; the statement of call c
\* gets id c.
ServePrepare(i) ==
    /\ Serving(i, "Prepare")
    /\ \/ leader = i /\ opened[i]
          /\ prepared' = [prepared EXCEPT ![i] = @ \cup {Arg(i)}]
          /\ Reply(i, "Stmt", Arg(i))
       \/ ~(leader = i /\ opened[i]) /\ Reply(i, "Failure", 0)
          /\ UNCHANGED prepared
    /\ UNCHANGED <<leader, up, opened, dbLog, changes, crashes, conn, caller>>

\* Exec runs a statement prepared on this connection, at the leader.
ServeExec(i) ==
    /\ Serving(i, "Exec")
    /\ \/ leader = i /\ Arg(i) \in prepared[i]
          /\ dbLog' = Append(dbLog, Arg(i)) /\ Reply(i, "Result", Arg(i))
       \/ ~(leader = i /\ Arg(i) \in prepared[i]) /\ Reply(i, "Failure", 0)
          /\ UNCHANGED dbLog
    /\ UNCHANGED <<leader, up, opened, prepared, changes, crashes, conn,
                   caller>>

ServeQuery(i) ==
    /\ Serving(i, "Query")
    /\ \/ leader = i /\ Arg(i) \in prepared[i] /\ Reply(i, "Rows", Arg(i))
       \/ ~(leader = i /\ Arg(i) \in prepared[i]) /\ Reply(i, "Failure", 0)
    /\ UNCHANGED <<cluster, conn, caller>>

\* Add / Remove are accepted by the leader only.
ServeAdmin(i) ==
    /\ up[i] /\ tx[i] # <<>> /\ Head(tx[i]).t \in {"Add", "Remove"}
    /\ Reply(i, IF leader = i THEN "Empty" ELSE "Failure", 0)
    /\ UNCHANGED <<cluster, conn, caller>>

Serve(i) ==
    \/ ServeLeader(i) \/ ServeOpen(i) \/ ServePrepare(i) \/ ServeExec(i)
    \/ ServeQuery(i) \/ ServeAdmin(i)

\* A node crashes: its connection breaks, unserved requests are lost, its
\* gateway state is gone; already delivered bytes stay readable.
Crash(i) ==
    /\ up[i] /\ crashes < MaxCrashes
    /\ up' = [up EXCEPT ![i] = FALSE] /\ crashes' = crashes + 1
    /\ conn' = [conn EXCEPT ![i] = IF @ = "open" THEN "broken" ELSE @]
    /\ tx' = [tx EXCEPT ![i] = <<>>]
    /\ opened' = [opened EXCEPT ![i] = FALSE]
    /\ prepared' = [prepared EXCEPT ![i] = {}]
    /\ leader' = IF leader = i THEN NoLeader ELSE leader
    /\ UNCHANGED <<dbLog, changes, rx, caller>>

\* Leadership moves to a live node, or is lost during an election.
ChangeLeader ==
    /\ changes < MaxLeaderChanges
    /\ \E l \in {j \in Slots : up[j]} \cup {NoLeader} :
          l # leader /\ leader' = l
    /\ changes' = changes + 1
    /\ UNCHANGED <<up, opened, prepared, dbLog, crashes, sessions, caller>>

-----------------------------------------------------------------------------

\* The caller's choice of the next entry point.
Start ==
    \/ \E o \in {"exec", "query"} : StartStatement(o)
    \/ StartCreate \/ StartOpen \/ StartGetLeader \/ CloseSockets
    \/ \E o \in {"add", "remove"}, c \in Slots : StartAdmin(o, c)

\* The steps of the entry point in progress.
Step ==
    \/ LeaderSend \/ LeaderRecv \/ PrepSend \/ PrepRecv \/ RunSend
    \/ RunRecv \/ OpenSend \/ OpenRecv \/ AdmSend \/ AdmRecv \/ GlSend
    \/ GlDone \/ GlRecv

\* The process has exited, or the caller has made its last call.
Terminated ==
    /\ \/ pc = "exited"
       \/ pc = "idle" /\ call = MaxCalls
    /\ UNCHANGED vars

Next ==
    \/ Start \/ Step
    \/ \E i \in Slots : Serve(i) \/ Crash(i)
    \/ ChangeLeader
    \/ Terminated

\* The driver's thread runs whenever it is not blocked in read(); a live
\* node serves the requests on its connection.
Fairness ==
    /\ WF_vars(Step)
    /\ \A i \in Slots : WF_vars(Serve(i))

Spec == Init /\ [][Next]_vars /\ Fairness
-----------------------------------------------------------------------------
(* The stream discipline that makes ExecStatementIsOwn hold: what a        *)
(* session may hold while the leader probe and Prepare are in flight.     *)

\* s holds no Leader request or Leader response header.
LeaderFree(s) == \A k \in DOMAIN s : s[k].t # "Leader"

\* The probe's Leader request is the last request queued on the session.
LeaderRequestLast(s) ==
    s # <<>> /\ s[Len(s)] = Req("Leader", 0)
    /\ LeaderFree(SubSeq(s, 1, Len(s) - 1))

\* The probe's reply is the last frame delivered on the session.
LeaderReplyLast(s) ==
    \E v \in Slots \cup {NoLeader}, j \in 0 .. Len(s) :
        /\ s = SubSeq(s, 1, j) \o Frame("Leader", v)
        /\ LeaderFree(SubSeq(s, 1, j))

\* Where a probe can be, given what was sent and what was received on its
\* session: not sent or lost, queued, or answered.
ProbeInFlight(sent, recvd) ==
    \/ LeaderFree(sent) /\ LeaderFree(recvd)
    \/ LeaderRequestLast(sent) /\ LeaderFree(recvd)
    \/ sent = <<>> /\ LeaderReplyLast(recvd)

\* Leader requests are sent only by the probes of exec / raw_query and
\* get_leader, which read the reply before going on: no session but the
\* probed one holds a Leader request or reply, and on the probed one the
\* probe's is the last.
OnlyProbeAsksLeader ==
    pc # "exited" =>
        \A i \in Slots :
            IF pc \in {"lead_recv", "gl_recv"} /\ i = client_index
            THEN ProbeInFlight(tx[i], rx[i])
            ELSE LeaderFree(tx[i]) /\ LeaderFree(rx[i])

\* After a successful probe exec / raw_query prepare on a quiet session:
\* nothing is queued or unread there but their own Prepare and its reply.
PrepareInFlight ==
    op \in {"exec", "query"} =>
        /\ pc = "prep_send" =>
              tx[leader_index] = <<>> /\ rx[leader_index] = <<>>
        /\ pc = "prep_recv" =>
              \/ tx[leader_index] = <<Req("Prepare", call)>>
                 /\ rx[leader_index] = <<>>
              \/ tx[leader_index] = <<>>
                 /\ rx[leader_index] \in {<<>>, Frame("Stmt", call),
                                          Frame("Failure", 0)}

\* The leader probe leaves exec / raw_query a quiet session: the
\* strengthening of ExecStatementIsOwn that TLAPS proves inductive.
QuietProbe == OnlyProbeAsksLeader /\ PrepareInFlight
-----------------------------------------------------------------------------
(* Properties.                                                             *)

\* send_open only ever addresses a session of the pool: the countdown of
\* remaining_servers stops at slot 0 before it can index clients[-1].
OpenTargetsPool == pc \in {"open_send", "open_recv"} => remaining_servers \in Slots

\* Every entry point that has started eventually returns to the caller or
\* ends the process: READ2 never blocks forever and the send_open retry
\* loop runs out of attempts.
CallsComplete == (pc \notin {"idle", "exited"}) ~> (pc \in {"idle", "exited"})

\* An exec that reports success (0, as sqlite3_exec reads it) has had its
\* statement executed by the cluster.
ExecFailureReported ==
    \A k \in DOMAIN results :
        results[k].op = "exec" /\ results[k].ret = 0 =>
            \E j \in DOMAIN dbLog : dbLog[j] = results[k].call

\* No statement is executed twice: each exec runs the statement it
\* prepared, once.
NoDuplicateExecution ==
    \A j, k \in DOMAIN dbLog : j # k => dbLog[j] # dbLog[k]

\* exec and raw_query send their statement to the node the cluster
\* reported as leader.
ExecTargetsLeader ==
    pc = "prep_send" /\ op \in {"exec", "query"} =>
        leader_id \in Slots /\ leader_index = leader_id

\* get_leader returns the client of the reported leader.
GetLeaderReturnsLeader ==
    \A k \in DOMAIN results :
        results[k].op = "getleader" /\ results[k].lid \in Slots =>
            results[k].ret = results[k].lid

\* Once Prepare has answered, the statement a call goes on to run is the
\* one it prepared itself: READ2 never accepts the reply to an earlier
\* request left unread in the stream.
StatementIsOwn == pc = "run_send" /\ 1 \notin errs => stmt_id = call

\* exec and raw_query start their statement on a quiet session (the leader
\* probe exits the process on any stray reply), so once Prepare has
\* answered they run the statement they prepared themselves.
ExecStatementIsOwn ==
    op \in {"exec", "query"} /\ pc = "run_send" /\ 1 \notin errs =>
        stmt_id = call

\* A leader probe that returns from clientRecvLeader without exiting (exec
\* going on to Prepare, get_leader returning) has read the whole LEADER
\* frame and left its session empty both ways: no request of the driver is
\* still unanswered there and no byte is left unread, so no later READ2 on
\* that session can take a reply meant for an earlier request.
ProbeReadClean ==
    pc \in {"lead_recv", "gl_recv"} /\ pc' \notin {"lead_recv", "gl_recv", "exited"}
        => tx'[client_index] = <<>> /\ rx'[client_index] = <<>>

\* The action property: every step of the system satisfies ProbeReadClean.
ProbeReadIsClean == [][ProbeReadClean]_vars

=============================================================================
