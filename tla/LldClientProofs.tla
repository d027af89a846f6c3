--------------------------- MODULE LldClientProofs ---------------------------
(***************************************************************************)
(* Proofs about LldClient for every value of the constants.               *)
(***************************************************************************)
EXTENDS LldClient, SequenceTheorems, TLAPS

USE NClientsAssumption, DialAttemptsAssumption, FailureWordsAssumption,
    BoundsAssumption, CallerOpsAssumption

\* The control facts the typing depends on: an entry point in progress has
\* a call number, and each step indexes a pool slot.
ControlOK ==
    /\ pc # "idle" => call \in Calls /\ op \in Ops
    /\ pc \in {"lead_send", "lead_recv", "gl_recv"} => client_index \in Slots
    /\ pc = "open_recv" => remaining_servers \in Slots

IInv == TypeOK /\ ControlOK

-----------------------------------------------------------------------------
(* Lemmas on the stream units and the operators over streams.              *)

\* What a unit carries: its body length is a natural, and a header's
\* payload is the one its type promises.
LEMMA UnitFacts ==
    ASSUME NEW u \in Unit
    PROVE  /\ u.w \in Nat
           /\ u.t = "Leader" => u.v \in Slots \cup {NoLeader}
           /\ u.t \in {"Stmt", "Result", "Rows"} => u.v \in Calls
  BY DEF Unit, Headers, Header, BodyWord, BodyWords, RespTypes

\* A response frame is a stream of units.
LEMMA FrameType ==
    ASSUME NEW t \in RespTypes, NEW v, Header(t, v) \in Unit
    PROVE  Frame(t, v) \in Seq(Unit)
  <1>1. BodyWords[t] \in Nat
    BY DEF BodyWords, RespTypes
  <1>2. [k \in 1 .. BodyWords[t] |-> BodyWord] \in Seq(Unit)
    <2>1. BodyWord \in Unit
      BY DEF Unit
    <2>2. QED
      BY <1>1, <2>1, SeqDef
  <1>3. <<Header(t, v)>> \in Seq(Unit)
    OBVIOUS
  <1>4. QED
    BY <1>2, <1>3, ConcatProperties DEF Frame

\* What READ2 leaves of a stream is a stream.
LEMMA ConsumeType ==
    ASSUME NEW s \in Seq(Unit), NEW t
    PROVE  (IF s # <<>> /\ Head(s).t = t THEN SubSeq(s, 2 + Head(s).w, Len(s))
            ELSE IF s = <<>> THEN s ELSE Tail(s)) \in Seq(Unit)
  <1>1. CASE s # <<>> /\ Head(s).t = t
    <2>1. Head(s) \in Unit /\ Len(s) \in Nat
      BY <1>1, HeadTailProperties, LenProperties
    <2>2. Head(s).w \in Nat
      BY <2>1, UnitFacts
    <2>3. \A i \in (2 + Head(s).w) .. Len(s) : s[i] \in Unit
      BY <2>1, <2>2, ElementOfSeq
    <2>4. QED
      BY <1>1, <2>2, <2>3, SubSeqProperties
  <1>2. CASE s # <<>> /\ ~(Head(s).t = t)
    BY <1>2, HeadTailProperties
  <1>3. CASE s = <<>>
    BY <1>3
  <1>4. QED
    BY <1>1, <1>2, <1>3

\* What a request carries: a Prepare names a call.
LEMMA RequestFacts ==
    ASSUME NEW r \in Request
    PROVE  /\ r.t = "Prepare" => r.v \in Calls
           /\ r.t \in {"Leader", "Open", "Prepare", "Exec", "Query", "Add",
                       "Remove"}
  BY DEF Request

\* REQUEST2 appends a request to a typed outgoing stream.
LEMMA SentType ==
    ASSUME NEW t \in [Slots -> Seq(Request)], NEW i \in Slots,
           NEW r \in Request
    PROVE  [t EXCEPT ![i] = Append(@, r)] \in [Slots -> Seq(Request)]
  BY AppendProperties

\* Consume keeps the incoming streams typed.
LEMMA ConsumeFnType ==
    ASSUME NEW r \in [Slots -> Seq(Unit)], NEW i \in Slots, NEW t
    PROVE  [r EXCEPT ![i] =
              IF r[i] # <<>> /\ Head(r[i]).t = t
                 THEN SubSeq(@, 2 + Head(@).w, Len(@))
              ELSE IF @ = <<>> THEN @ ELSE Tail(@)] \in [Slots -> Seq(Unit)]
  BY ConsumeType

\* A server reply appends a whole frame to a typed incoming stream.
LEMMA ReplyType ==
    ASSUME NEW r \in [Slots -> Seq(Unit)], NEW i \in Slots, NEW c,
           NEW t \in RespTypes, NEW v, Header(t, v) \in Unit
    PROVE  [r EXCEPT ![i] = IF c THEN @ ELSE @ \o Frame(t, v)]
             \in [Slots -> Seq(Unit)]
  <1>1. Frame(t, v) \in Seq(Unit)
    BY FrameType
  <1>2. r[i] \o Frame(t, v) \in Seq(Unit)
    BY <1>1, ConcatProperties
  <1>3. QED
    BY <1>2

\* Serving the head request keeps the outgoing streams typed.
LEMMA TailType ==
    ASSUME NEW t \in [Slots -> Seq(Request)], NEW i \in Slots, t[i] # <<>>
    PROVE  /\ [t EXCEPT ![i] = Tail(@)] \in [Slots -> Seq(Request)]
           /\ Head(t[i]) \in Request
  BY HeadTailProperties

\* Return appends an outcome to a typed result log.
LEMMA ReturnType ==
    ASSUME NEW res \in Seq(Outcome), NEW c \in Calls, NEW o \in Ops,
           NEW r \in Int, NEW s \in Int, NEW l \in Slots \cup {NoLeader}
    PROVE  Append(res, [call |-> c, op |-> o, ret |-> r, slot |-> s,
                        lid |-> l]) \in Seq(Outcome)
  BY AppendProperties DEF Outcome

-----------------------------------------------------------------------------
(* Typing.                                                                 *)

LEMMA InitIInv == Init => IInv
  <1> SUFFICES ASSUME Init PROVE IInv
    OBVIOUS
  <1>1. /\ tx \in [Slots -> Seq(Request)] /\ rx \in [Slots -> Seq(Unit)]
        /\ dbLog \in Seq(Calls) /\ results \in Seq(Outcome)
    BY EmptySeq DEF Init
  <1>2. stmt_id \in Garbage /\ rows_affected \in Garbage
    BY DEF Init, Garbage
  <1>3. NClients \in Nat \ {0}
    BY NClientsAssumption
  <1>4. /\ leader \in Slots \cup {NoLeader}
        /\ up \in [Slots -> BOOLEAN] /\ opened \in [Slots -> BOOLEAN]
        /\ prepared \in [Slots -> SUBSET Calls]
        /\ conn \in [Slots -> {"open", "broken", "closed"}]
        /\ node_infos \in [Slots -> Slots \cup {NoLeader}]
    BY DEF Init
  <1>5. /\ client_index \in 0 .. NClients + 1 /\ leader_index \in Slots
        /\ changes \in 0 .. MaxLeaderChanges /\ crashes \in 0 .. MaxCrashes
        /\ call \in 0 .. MaxCalls
        /\ remaining_attempts \in 1 .. DialAttempts
    BY <1>3 DEF Init, Slots
  <1>6. QED
    BY <1>1, <1>2, <1>4, <1>5 DEF Init, IInv, TypeOK, ControlOK, PCs, Garbage

\* A reply of a well-formed frame keeps the incoming streams typed.
LEMMA ReplyStep ==
    ASSUME NEW i \in Slots, rx \in [Slots -> Seq(Unit)], NEW t \in RespTypes,
           NEW v, Header(t, v) \in Unit, Reply(i, t, v)
    PROVE  rx' \in [Slots -> Seq(Unit)]
  BY ReplyType DEF Reply

\* The frames a node may send, for the payloads it may put in them.
LEMMA LeaderHeader ==
    ASSUME NEW l \in Slots \cup {NoLeader}
    PROVE  Header("Leader", l) \in Unit
  BY DEF Unit, Headers

LEMMA CallHeaders ==
    ASSUME NEW c \in Calls
    PROVE  /\ Header("Stmt", c) \in Unit /\ Header("Result", c) \in Unit
           /\ Header("Rows", c) \in Unit
  BY DEF Unit, Headers

LEMMA PlainHeaders ==
    /\ Header("Db", 0) \in Unit /\ Header("Empty", 0) \in Unit
    /\ Header("Failure", 0) \in Unit
  BY DEF Unit, Headers

\* The cluster's steps leave the caller alone and keep the streams typed.
LEMMA ServeIInv ==
    ASSUME IInv, NEW i \in Slots, Serve(i)
    PROVE  IInv'
  <1> USE DEF IInv, TypeOK
  <1>1. ControlOK'
    BY DEF Serve, ServeLeader, ServeOpen, ServePrepare, ServeExec, ServeQuery,
           ServeAdmin, ControlOK, caller, cluster
  <1>2. /\ tx[i] # <<>> /\ Head(tx[i]) \in Request
        /\ tx' = [tx EXCEPT ![i] = Tail(@)]
    <2>1. tx[i] # <<>> /\ tx' = [tx EXCEPT ![i] = Tail(@)]
      BY DEF Serve, ServeLeader, ServeOpen, ServePrepare, ServeExec,
             ServeQuery, ServeAdmin, Serving, Reply
    <2>2. QED
      BY <2>1, TailType
  <1>3. tx' \in [Slots -> Seq(Request)]
    BY <1>2, TailType
  <1>4. CASE ServeLeader(i)
    <2>1. rx' \in [Slots -> Seq(Unit)]
      BY <1>4, LeaderHeader, ReplyStep DEF ServeLeader, RespTypes
    <2>2. QED
      BY <1>1, <1>3, <1>4, <2>1 DEF ServeLeader, caller
  <1>5. CASE ServeOpen(i)
    <2>1. CASE ~opened[i]
      <3>1. rx' \in [Slots -> Seq(Unit)]
        BY <1>5, <2>1, PlainHeaders, ReplyStep DEF ServeOpen, RespTypes
      <3>2. QED
        BY <1>1, <1>3, <1>5, <2>1, <3>1 DEF ServeOpen, caller
    <2>2. CASE opened[i]
      <3>1. rx' \in [Slots -> Seq(Unit)]
        BY <1>5, <2>2, PlainHeaders, ReplyStep DEF ServeOpen, RespTypes
      <3>2. QED
        BY <1>1, <1>3, <1>5, <2>2, <3>1 DEF ServeOpen, caller
    <2>3. QED
      BY <2>1, <2>2
  <1>6. CASE ServePrepare(i)
    <2>1. Arg(i) \in Calls
      BY <1>2, <1>6, RequestFacts DEF ServePrepare, Serving, Arg
    <2>2. CASE leader = i /\ opened[i]
      <3>1. rx' \in [Slots -> Seq(Unit)]
        BY <1>6, <2>1, <2>2, CallHeaders, ReplyStep DEF ServePrepare, RespTypes
      <3>2. prepared' \in [Slots -> SUBSET Calls]
        <4>1. prepared' = [prepared EXCEPT ![i] = @ \cup {Arg(i)}]
          BY <1>6, <2>2 DEF ServePrepare
        <4>2. prepared[i] \cup {Arg(i)} \in SUBSET Calls
          BY <2>1
        <4>3. QED
          BY <4>1, <4>2
      <3>3. QED
        BY <1>1, <1>3, <1>6, <2>2, <3>1, <3>2 DEF ServePrepare, caller
    <2>3. CASE ~(leader = i /\ opened[i])
      <3>1. rx' \in [Slots -> Seq(Unit)]
        BY <1>6, <2>3, PlainHeaders, ReplyStep DEF ServePrepare, RespTypes
      <3>2. QED
        BY <1>1, <1>3, <1>6, <2>3, <3>1 DEF ServePrepare, caller
    <2>4. QED
      BY <2>2, <2>3
  <1>7. CASE ServeExec(i)
    <2>1. CASE leader = i /\ Arg(i) \in prepared[i]
      <3>1. Arg(i) \in Calls
        BY <2>1
      <3>2. rx' \in [Slots -> Seq(Unit)]
        BY <1>7, <2>1, <3>1, CallHeaders, ReplyStep DEF ServeExec, RespTypes
      <3>3. dbLog' \in Seq(Calls)
        <4>1. dbLog' = Append(dbLog, Arg(i))
          BY <1>7, <2>1 DEF ServeExec
        <4>2. QED
          BY <3>1, <4>1, AppendProperties
      <3>4. QED
        BY <1>1, <1>3, <1>7, <2>1, <3>2, <3>3 DEF ServeExec, caller
    <2>2. CASE ~(leader = i /\ Arg(i) \in prepared[i])
      <3>1. rx' \in [Slots -> Seq(Unit)]
        BY <1>7, <2>2, PlainHeaders, ReplyStep DEF ServeExec, RespTypes
      <3>2. QED
        BY <1>1, <1>3, <1>7, <2>2, <3>1 DEF ServeExec, caller
    <2>3. QED
      BY <2>1, <2>2
  <1>8. CASE ServeQuery(i)
    <2>1. rx' \in [Slots -> Seq(Unit)]
      <3>1. CASE leader = i /\ Arg(i) \in prepared[i]
        BY <1>8, <3>1, CallHeaders, ReplyStep DEF ServeQuery, RespTypes
      <3>2. CASE ~(leader = i /\ Arg(i) \in prepared[i])
        BY <1>8, <3>2, PlainHeaders, ReplyStep DEF ServeQuery, RespTypes
      <3>3. QED
        BY <3>1, <3>2
    <2>2. QED
      BY <1>1, <1>3, <1>8, <2>1 DEF ServeQuery, caller, cluster
  <1>9. CASE ServeAdmin(i)
    <2>1. rx' \in [Slots -> Seq(Unit)]
      <3>1. CASE leader = i
        BY <1>9, <3>1, PlainHeaders, ReplyStep DEF ServeAdmin, RespTypes
      <3>2. CASE leader # i
        BY <1>9, <3>2, PlainHeaders, ReplyStep DEF ServeAdmin, RespTypes
      <3>3. QED
        BY <3>1, <3>2
    <2>2. QED
      BY <1>1, <1>3, <1>9, <2>1 DEF ServeAdmin, caller, cluster
  <1>10. QED
    BY <1>4, <1>5, <1>6, <1>7, <1>8, <1>9 DEF Serve

\* A crash and a leadership change keep the cluster state typed.
LEMMA FaultIInv ==
    ASSUME IInv, \/ \E i \in Slots : Crash(i)
                 \/ ChangeLeader
    PROVE  IInv'
  <1>1. CASE \E i \in Slots : Crash(i)
    <2>1. PICK i \in Slots : Crash(i)
      BY <1>1
    <2>2. tx' \in [Slots -> Seq(Request)]
      BY <2>1, EmptySeq DEF Crash, IInv, TypeOK
    <2>3. /\ leader' \in Slots \cup {NoLeader}
          /\ up' \in [Slots -> BOOLEAN] /\ opened' \in [Slots -> BOOLEAN]
          /\ prepared' \in [Slots -> SUBSET Calls]
          /\ conn' \in [Slots -> {"open", "broken", "closed"}]
          /\ UNCHANGED <<dbLog, rx>>
      BY <2>1 DEF Crash, IInv, TypeOK
    <2>4. UNCHANGED <<caller, changes>>
      BY <2>1 DEF Crash
    <2>5. crashes' \in 0 .. MaxCrashes
      BY <2>1, BoundsAssumption DEF Crash, IInv, TypeOK
    <2>6. TypeOK'
      BY <2>2, <2>3, <2>4, <2>5 DEF IInv, TypeOK, caller
    <2>7. ControlOK'
      BY <2>4 DEF IInv, ControlOK, caller
    <2>8. QED
      BY <2>6, <2>7 DEF IInv
  <1>2. CASE ChangeLeader
    <2>1. /\ leader' \in Slots \cup {NoLeader}
          /\ UNCHANGED <<up, opened, prepared, dbLog, sessions>>
      BY <1>2 DEF ChangeLeader
    <2>2. UNCHANGED <<caller, crashes>>
      BY <1>2 DEF ChangeLeader
    <2>3. changes' \in 0 .. MaxLeaderChanges
      BY <1>2, BoundsAssumption DEF ChangeLeader, IInv, TypeOK
    <2>4. TypeOK'
      BY <2>1, <2>2, <2>3 DEF IInv, TypeOK, caller, sessions
    <2>5. ControlOK'
      BY <2>2 DEF IInv, ControlOK, caller
    <2>6. QED
      BY <2>4, <2>5 DEF IInv
  <1>3. QED
    BY <1>1, <1>2

\* An entry point starts with the next call number and a slot of the pool.
LEMMA BeginFacts ==
    ASSUME TypeOK, CanStart, NEW o, Begin(o)
    PROVE  call' \in Calls /\ op' \in Ops /\ errs' = {}
  BY CallerOpsAssumption, BoundsAssumption DEF CanStart, Begin, TypeOK, Calls, Ops

\* A start that leaves the cluster, the sessions and the results alone and
\* sets the caller's control variables within their ranges keeps the types.
LEMMA StartTyped ==
    ASSUME TypeOK,
           UNCHANGED <<cluster, sessions, leader_id, stmt_id, rows_affected,
                       n_changed, node_infos, results>>,
           call' \in Calls, op' \in Ops, errs' = {}, pc' \in PCs,
           client_index' \in 0 .. NClients + 1, leader_index' \in Slots,
           remaining_servers' \in Int, remaining_attempts' \in 1 .. DialAttempts
    PROVE  TypeOK'
  <1>1. /\ leader' \in Slots \cup {NoLeader} /\ up' \in [Slots -> BOOLEAN]
        /\ opened' \in [Slots -> BOOLEAN]
        /\ prepared' \in [Slots -> SUBSET Calls] /\ dbLog' \in Seq(Calls)
        /\ changes' \in 0 .. MaxLeaderChanges /\ crashes' \in 0 .. MaxCrashes
    BY DEF TypeOK, cluster
  <1>2. /\ conn' \in [Slots -> {"open", "broken", "closed"}]
        /\ tx' \in [Slots -> Seq(Request)] /\ rx' \in [Slots -> Seq(Unit)]
    BY DEF TypeOK, sessions
  <1>3. /\ leader_id' \in Slots \cup {NoLeader}
        /\ stmt_id' \in Garbage /\ rows_affected' \in Garbage
        /\ n_changed' \in Garbage \cup {0}
        /\ node_infos' \in [Slots -> Slots \cup {NoLeader}]
        /\ results' \in Seq(Outcome)
    BY DEF TypeOK
  <1>4. op' \in Ops \cup {"none"} /\ call' \in 0 .. MaxCalls /\ errs' \subseteq 0 .. 3
    BY DEF Calls
  <1>5. QED
    BY <1>1, <1>2, <1>3, <1>4 DEF TypeOK

\* Starting an entry point keeps the invariant.
LEMMA StartIInv ==
    ASSUME IInv, Start
    PROVE  IInv'
  <1>0. TypeOK
    BY DEF IInv
  <1>1. NClients \in Nat \ {0}
    BY NClientsAssumption
  <1>2. CASE \E o \in {"exec", "query"} : StartStatement(o)
    <2>1. PICK o \in {"exec", "query"} : StartStatement(o)
      BY <1>2
    <2>2. call' \in Calls /\ op' \in Ops /\ errs' = {}
      BY <1>0, <2>1, BeginFacts DEF StartStatement
    <2>3. /\ client_index' = NClients - 1 /\ leader_index' = 0
          /\ pc' = "lead_send"
          /\ UNCHANGED <<cluster, sessions, leader_id, stmt_id, rows_affected,
                         n_changed, remaining_servers, remaining_attempts,
                         node_infos, results>>
      BY <2>1 DEF StartStatement
    <2>4. NClients - 1 \in Slots /\ 0 \in Slots
      BY <1>1 DEF Slots
    <2>5. client_index' \in 0 .. NClients + 1 /\ leader_index' \in Slots
      BY <1>1, <2>3, <2>4 DEF Slots
    <2>6. remaining_servers' \in Int /\ remaining_attempts' \in 1 .. DialAttempts
          /\ pc' \in PCs
      BY <1>0, <2>3 DEF TypeOK, PCs
    <2>7. TypeOK'
      BY <1>0, <2>2, <2>3, <2>5, <2>6, StartTyped
    <2>9. ControlOK'
      BY <2>2, <2>3, <2>4 DEF ControlOK
    <2>10. QED
      BY <2>7, <2>9 DEF IInv
  <1>3. CASE StartCreate
    <2>1. call' \in Calls /\ op' \in Ops /\ errs' = {}
      BY <1>0, <1>3, BeginFacts DEF StartCreate
    <2>2. /\ 1 \in Slots /\ leader_index' = 1 /\ pc' = "prep_send"
          /\ UNCHANGED <<cluster, sessions, client_index, leader_id, stmt_id,
                         rows_affected, n_changed, remaining_servers,
                         remaining_attempts, node_infos, results>>
      BY <1>3 DEF StartCreate
    <2>3. QED
      BY <1>0, <2>1, <2>2 DEF IInv, TypeOK, ControlOK, PCs, Calls, cluster,
         sessions
  <1>4. CASE StartOpen
    <2>1. call' \in Calls /\ op' \in Ops /\ errs' = {}
      BY <1>0, <1>4, BeginFacts DEF StartOpen
    <2>2. /\ remaining_servers' = NClients - 1
          /\ remaining_attempts' = DialAttempts /\ pc' = "open_send"
          /\ UNCHANGED <<cluster, sessions, client_index, leader_index,
                         leader_id, stmt_id, rows_affected, n_changed,
                         node_infos, results>>
      BY <1>4 DEF StartOpen
    <2>3. QED
      BY <1>0, <1>1, <2>1, <2>2, DialAttemptsAssumption
         DEF IInv, TypeOK, ControlOK, PCs, Calls, cluster, sessions
  <1>5. CASE StartGetLeader
    <2>1. call' \in Calls /\ op' \in Ops /\ errs' = {}
      BY <1>0, <1>5, BeginFacts DEF StartGetLeader
    <2>2. /\ client_index' = 1 /\ pc' = "gl_send"
          /\ UNCHANGED <<cluster, sessions, leader_index, leader_id, stmt_id,
                         rows_affected, n_changed, remaining_servers,
                         remaining_attempts, node_infos, results>>
      BY <1>5 DEF StartGetLeader
    <2>3. QED
      BY <1>0, <1>1, <2>1, <2>2 DEF IInv, TypeOK, ControlOK, PCs, Calls,
         cluster, sessions
  <1>6. CASE CloseSockets
    <2>1. call' \in Calls /\ op' \in Ops /\ errs' = {}
      BY <1>0, <1>6, BeginFacts DEF CloseSockets
    <2>2. /\ pc = "idle" /\ call < MaxCalls
          /\ conn' = [i \in Slots |-> "closed"] /\ rx' = [i \in Slots |-> <<>>]
          /\ results' = Append(results, [call |-> call + 1, op |-> "close",
                                         ret |-> 0, slot |-> 0,
                                         lid |-> leader_id])
          /\ UNCHANGED <<cluster, tx, pc, client_index, leader_index,
                         leader_id, stmt_id, rows_affected, n_changed,
                         remaining_servers, remaining_attempts, node_infos>>
      BY <1>6 DEF CloseSockets, CanStart
    <2>3. call + 1 \in Calls
      BY <1>0, <2>2, BoundsAssumption DEF TypeOK, Calls
    <2>4. results' \in Seq(Outcome)
      BY <1>0, <2>2, <2>3, AppendProperties DEF TypeOK, Outcome, Ops
    <2>5. rx' \in [Slots -> Seq(Unit)]
      BY <2>2, EmptySeq
    <2>6. conn' \in [Slots -> {"open", "broken", "closed"}]
      BY <2>2
    <2>7. TypeOK'
      <3>1. /\ leader' \in Slots \cup {NoLeader} /\ up' \in [Slots -> BOOLEAN]
            /\ opened' \in [Slots -> BOOLEAN]
            /\ prepared' \in [Slots -> SUBSET Calls] /\ dbLog' \in Seq(Calls)
            /\ changes' \in 0 .. MaxLeaderChanges /\ crashes' \in 0 .. MaxCrashes
        BY <1>0, <2>2 DEF TypeOK, cluster
      <3>2. /\ tx' \in [Slots -> Seq(Request)] /\ pc' \in PCs
            /\ client_index' \in 0 .. NClients + 1 /\ leader_index' \in Slots
            /\ leader_id' \in Slots \cup {NoLeader}
            /\ stmt_id' \in Garbage /\ rows_affected' \in Garbage
            /\ n_changed' \in Garbage \cup {0}
            /\ remaining_servers' \in Int
            /\ remaining_attempts' \in 1 .. DialAttempts
            /\ node_infos' \in [Slots -> Slots \cup {NoLeader}]
        BY <1>0, <2>2 DEF TypeOK, PCs
      <3>3. op' \in Ops \cup {"none"} /\ call' \in 0 .. MaxCalls
            /\ errs' \subseteq 0 .. 3
        BY <2>1, <2>3 DEF Calls
      <3>4. QED
        BY <2>4, <2>5, <2>6, <3>1, <3>2, <3>3 DEF TypeOK
    <2>8. ControlOK'
      BY <2>2 DEF ControlOK
    <2>9. QED
      BY <2>7, <2>8 DEF IInv
  <1>7. CASE \E o \in {"add", "remove"}, c \in Slots : StartAdmin(o, c)
    <2>1. PICK o \in {"add", "remove"}, c \in Slots : StartAdmin(o, c)
      BY <1>7
    <2>2. call' \in Calls /\ op' \in Ops /\ errs' = {}
      BY <1>0, <2>1, BeginFacts DEF StartAdmin
    <2>3. /\ leader_index' = c /\ pc' = "adm_send"
          /\ UNCHANGED <<cluster, sessions, client_index, leader_id, stmt_id,
                         rows_affected, n_changed, remaining_servers,
                         remaining_attempts, node_infos, results>>
      BY <2>1 DEF StartAdmin
    <2>4. QED
      BY <1>0, <2>2, <2>3 DEF IInv, TypeOK, ControlOK, PCs, Calls, cluster,
         sessions
  <1>8. QED
    BY <1>2, <1>3, <1>4, <1>5, <1>6, <1>7 DEF Start

\* READ2 on a typed stream leaves it typed.
LEMMA ConsumeStep ==
    ASSUME rx \in [Slots -> Seq(Unit)], NEW k \in Slots, NEW t, Consume(k, t)
    PROVE  rx' \in [Slots -> Seq(Unit)]
  BY ConsumeFnType DEF Consume, Got

\* What DECODE2 may decode: a leader id, or the id of a statement.
LEMMA GotFacts ==
    ASSUME rx \in [Slots -> Seq(Unit)], NEW k \in Slots
    PROVE  /\ Got(k, "Leader") => GotVal(k) \in Slots \cup {NoLeader}
           /\ \A t \in {"Stmt", "Result", "Rows"} :
                 Got(k, t) => GotVal(k) \in Calls
  <1>1. rx[k] # <<>> => Head(rx[k]) \in Unit
    BY HeadTailProperties
  <1>2. QED
    BY <1>1, UnitFacts DEF Got, GotVal

\* REQUEST2 of a well-formed request keeps the outgoing streams typed.
LEMMA SentStep ==
    ASSUME tx \in [Slots -> Seq(Request)], NEW k \in Slots, NEW r \in Request,
           Sent(k, r)
    PROVE  tx' \in [Slots -> Seq(Request)]
  BY SentType DEF Sent

\* The requests the driver sends.
LEMMA PlainRequests ==
    ASSUME NEW o
    PROVE  /\ Req("Leader", 0) \in Request /\ Req("Open", 0) \in Request
           /\ Req(AdmReq(o), 0) \in Request
  BY DEF Req, Request, AdmReq

LEMMA StatementRequests ==
    ASSUME NEW c \in Calls, NEW g \in Garbage, NEW o
    PROVE  Req("Prepare", c) \in Request /\ Req(RunReq(o), g) \in Request
  BY DEF Req, Request, RunReq

\* An entry point in progress returns a well-typed outcome.
LEMMA ReturnStep ==
    ASSUME TypeOK, ControlOK, pc # "idle", NEW r \in Int, NEW sl \in Int,
           NEW l \in Slots \cup {NoLeader}, Return(r, sl, l)
    PROVE  results' \in Seq(Outcome) /\ pc' = "idle"
  BY ReturnType DEF Return, ControlOK, TypeOK

\* exec's leader probe: clientSendLeader / clientRecvLeader on
\* clients[client_index].
LEMMA LeaderStepsIInv ==
    ASSUME IInv, LeaderSend \/ LeaderRecv
    PROVE  IInv'
  <1>0. TypeOK /\ ControlOK
    BY DEF IInv
  <1>1. client_index \in Slots /\ call \in Calls /\ op \in Ops
    BY <1>0 DEF LeaderSend, LeaderRecv, ControlOK
  <1>2. CASE LeaderSend /\ CanSend(client_index)
    <2>1. /\ tx' = [tx EXCEPT ![client_index] = Append(@, Req("Leader", 0))]
          /\ pc' = "lead_recv"
          /\ UNCHANGED <<cluster, conn, rx, op, call, client_index,
                         leader_index, leader_id, stmt_id, rows_affected, errs,
                         n_changed, remaining_servers, remaining_attempts,
                         node_infos, results>>
      BY <1>2 DEF LeaderSend, Sent
    <2>2. tx' \in [Slots -> Seq(Request)]
      BY <1>0, <1>1, <2>1, PlainRequests, SentType DEF TypeOK
    <2>3. QED
      BY <1>0, <1>1, <2>1, <2>2 DEF IInv, TypeOK, ControlOK, PCs, cluster
  <1>3. CASE LeaderSend /\ ~CanSend(client_index)
    <2>1. /\ pc' = "exited"
          /\ UNCHANGED <<cluster, conn, tx, rx, op, call, client_index,
                         leader_index, leader_id, stmt_id, rows_affected, errs,
                         n_changed, remaining_servers, remaining_attempts,
                         node_infos, results>>
      BY <1>3 DEF LeaderSend
    <2>2. QED
      BY <1>0, <1>1, <2>1 DEF IInv, TypeOK, ControlOK, PCs, cluster
  <1>4. CASE LeaderRecv
    <2>1. /\ pc = "lead_recv" /\ Consume(client_index, "Leader")
          /\ UNCHANGED <<cluster, conn, tx, op, call, stmt_id, rows_affected,
                         errs, n_changed, remaining_servers,
                         remaining_attempts>>
      BY <1>4 DEF LeaderRecv
    <2>2. rx' \in [Slots -> Seq(Unit)]
      BY <1>0, <1>1, <2>1, ConsumeStep DEF TypeOK
    <2>3. CASE Got(client_index, "Leader")
      <3> DEFINE id == GotVal(client_index)
      <3>1. id \in Slots \cup {NoLeader}
        BY <1>0, <1>1, <2>3, GotFacts DEF TypeOK
      <3>2. /\ leader_id' = id
            /\ node_infos' = [node_infos EXCEPT ![client_index] = id]
            /\ leader_index' = client_index
            /\ client_index' = client_index + 1
            /\ IF client_index + 1 > MaxClients
                  THEN Return(-1, client_index, id)
                  ELSE pc' = "prep_send" /\ UNCHANGED results
        BY <1>4, <2>3 DEF LeaderRecv
      <3>3. /\ leader_id' \in Slots \cup {NoLeader}
            /\ node_infos' \in [Slots -> Slots \cup {NoLeader}]
            /\ leader_index' \in Slots
            /\ client_index' \in 0 .. NClients + 1
        BY <1>0, <1>1, <3>1, <3>2 DEF TypeOK, Slots
      <3>4. CASE client_index + 1 > MaxClients
        <4>1. results' \in Seq(Outcome) /\ pc' = "idle"
          <5>1. /\ results' = Append(results,
                                     [call |-> call, op |-> op, ret |-> -1,
                                      slot |-> client_index, lid |-> id])
                /\ pc' = "idle"
            BY <3>2, <3>4 DEF Return
          <5>2. [call |-> call, op |-> op, ret |-> -1, slot |-> client_index,
                 lid |-> id] \in Outcome
            BY <1>1, <3>1 DEF Outcome, Slots
          <5>3. QED
            BY <1>0, <5>1, <5>2, AppendProperties DEF TypeOK
        <4>2. QED
          BY <1>0, <1>1, <2>1, <2>2, <3>3, <4>1 DEF IInv, TypeOK, ControlOK, PCs, cluster
      <3>5. CASE ~(client_index + 1 > MaxClients)
        <4>1. pc' = "prep_send" /\ results' = results
          BY <3>2, <3>5
        <4>2. QED
          BY <1>0, <1>1, <2>1, <2>2, <3>3, <4>1 DEF IInv, TypeOK, ControlOK, PCs, cluster
      <3>6. QED
        BY <3>4, <3>5
    <2>4. CASE ~Got(client_index, "Leader")
      <3>1. /\ pc' = "exited"
            /\ UNCHANGED <<leader_id, node_infos, leader_index, client_index,
                           results>>
        BY <1>4, <2>4 DEF LeaderRecv
      <3>2. QED
        BY <1>0, <1>1, <2>1, <2>2, <3>1 DEF IInv, TypeOK, ControlOK, PCs, cluster
    <2>5. QED
      BY <2>3, <2>4
  <1>5. QED
    BY <1>2, <1>3, <1>4

\* The statement steps of exec / raw_query / createTable: res0 .. res3.
LEMMA StatementStepsIInv ==
    ASSUME IInv, PrepSend \/ PrepRecv \/ RunSend \/ RunRecv
    PROVE  IInv'
  <1>0. TypeOK /\ ControlOK
    BY DEF IInv
  <1>1. call \in Calls /\ op \in Ops /\ leader_index \in Slots
    BY <1>0 DEF PrepSend, PrepRecv, RunSend, RunRecv, ControlOK, TypeOK
  <1>2. /\ tx \in [Slots -> Seq(Request)] /\ rx \in [Slots -> Seq(Unit)]
        /\ errs \subseteq 0 .. 3 /\ results \in Seq(Outcome)
        /\ stmt_id \in Garbage /\ leader_id \in Slots \cup {NoLeader}
    BY <1>0 DEF TypeOK
  <1>3. CASE PrepSend /\ CanSend(leader_index)
    <2>1. /\ tx' = [tx EXCEPT ![leader_index] =
                       Append(@, Req("Prepare", call))]
          /\ pc' = "prep_recv"
          /\ UNCHANGED <<cluster, conn, rx, op, call, client_index,
                         leader_index, leader_id, stmt_id, rows_affected, errs,
                         n_changed, remaining_servers, remaining_attempts,
                         node_infos, results>>
      BY <1>3 DEF PrepSend, Sent
    <2>2. Req("Prepare", call) \in Request
      BY <1>1 DEF Req, Request
    <2>3. tx' \in [Slots -> Seq(Request)]
      BY <1>1, <1>2, <2>1, <2>2, SentType
    <2>4. QED
      BY <1>0, <1>1, <2>1, <2>3 DEF IInv, TypeOK, ControlOK, PCs, cluster
  <1>4. CASE PrepSend /\ ~CanSend(leader_index)
    <2>1. /\ errs' = errs \cup {0} /\ pc' = "prep_recv"
          /\ UNCHANGED <<cluster, conn, tx, rx, op, call, client_index,
                         leader_index, leader_id, stmt_id, rows_affected,
                         n_changed, remaining_servers, remaining_attempts,
                         node_infos, results>>
      BY <1>4 DEF PrepSend
    <2>2. errs' \subseteq 0 .. 3
      BY <1>2, <2>1
    <2>3. QED
      BY <1>0, <1>1, <2>1, <2>2 DEF IInv, TypeOK, ControlOK, PCs, cluster
  <1>5. CASE PrepRecv
    <2>1. /\ pc' = "run_send" /\ Consume(leader_index, "Stmt")
          /\ UNCHANGED <<cluster, conn, tx, op, call, client_index,
                         leader_index, leader_id, rows_affected, n_changed,
                         remaining_servers, remaining_attempts, node_infos,
                         results>>
      BY <1>5 DEF PrepRecv
    <2>2. rx' \in [Slots -> Seq(Unit)]
      BY <1>1, <1>2, <2>1, ConsumeStep
    <2>3. stmt_id' \in Garbage /\ errs' \subseteq 0 .. 3
      <3>1. CASE Got(leader_index, "Stmt")
        <4>1. stmt_id' = GotVal(leader_index) /\ errs' = errs
          BY <1>5, <3>1 DEF PrepRecv
        <4>2. GotVal(leader_index) \in Calls
          BY <1>1, <1>2, <3>1, GotFacts
        <4>3. QED
          BY <1>2, <4>1, <4>2 DEF Garbage
      <3>2. CASE ~Got(leader_index, "Stmt")
        <4>1. stmt_id' \in Garbage /\ errs' = errs \cup {1}
          BY <1>5, <3>2 DEF PrepRecv
        <4>2. QED
          BY <1>2, <4>1
      <3>3. QED
        BY <3>1, <3>2
    <2>4. QED
      BY <1>0, <1>1, <2>1, <2>2, <2>3 DEF IInv, TypeOK, ControlOK, PCs,
         cluster
  <1>6. CASE RunSend /\ CanSend(leader_index)
    <2>1. /\ tx' = [tx EXCEPT ![leader_index] =
                       Append(@, Req(RunReq(op), stmt_id))]
          /\ pc' = "run_recv"
          /\ UNCHANGED <<cluster, conn, rx, op, call, client_index,
                         leader_index, leader_id, stmt_id, rows_affected, errs,
                         n_changed, remaining_servers, remaining_attempts,
                         node_infos, results>>
      BY <1>6 DEF RunSend, Sent
    <2>2. Req(RunReq(op), stmt_id) \in Request
      BY <1>2 DEF Req, Request, RunReq
    <2>3. tx' \in [Slots -> Seq(Request)]
      BY <1>1, <1>2, <2>1, <2>2, SentType
    <2>4. QED
      BY <1>0, <1>1, <2>1, <2>3 DEF IInv, TypeOK, ControlOK, PCs, cluster
  <1>7. CASE RunSend /\ ~CanSend(leader_index)
    <2>1. /\ errs' = errs \cup {2} /\ pc' = "run_recv"
          /\ UNCHANGED <<cluster, conn, tx, rx, op, call, client_index,
                         leader_index, leader_id, stmt_id, rows_affected,
                         n_changed, remaining_servers, remaining_attempts,
                         node_infos, results>>
      BY <1>7 DEF RunSend
    <2>2. errs' \subseteq 0 .. 3
      BY <1>2, <2>1
    <2>3. QED
      BY <1>0, <1>1, <2>1, <2>2 DEF IInv, TypeOK, ControlOK, PCs, cluster
  <1>8. CASE RunRecv
    <2> DEFINE ok == Got(leader_index, RunResp(op))
               rec == [call |-> call, op |-> op,
                       ret |-> Res(op, IF ok THEN errs ELSE errs \cup {3}),
                       slot |-> leader_index, lid |-> leader_id]
    <2>1. /\ Consume(leader_index, RunResp(op))
          /\ n_changed' = IF op = "exec" THEN rows_affected' ELSE n_changed
          /\ results' = Append(results, rec) /\ pc' = "idle"
          /\ UNCHANGED <<cluster, conn, tx, op, call, client_index,
                         leader_index, leader_id, stmt_id, errs,
                         remaining_servers, remaining_attempts, node_infos>>
      BY <1>8 DEF RunRecv, Return
    <2>2. rx' \in [Slots -> Seq(Unit)]
      BY <1>1, <1>2, <2>1, ConsumeStep
    <2>3. rows_affected' \in Garbage
      <3>1. CASE op = "query"
        <4>1. rows_affected' = rows_affected
          BY <1>8, <3>1 DEF RunRecv
        <4>2. QED
          BY <1>0, <4>1 DEF TypeOK
      <3>2. CASE op # "query" /\ ok
        <4>1. rows_affected' = GotVal(leader_index)
          BY <1>8, <3>2 DEF RunRecv
        <4>2. GotVal(leader_index) \in Calls
          <5>1. Got(leader_index, "Result")
            BY <3>2 DEF RunResp
          <5>2. QED
            BY <1>1, <1>2, <5>1, GotFacts
        <4>3. QED
          BY <4>1, <4>2 DEF Garbage
      <3>3. CASE op # "query" /\ ~ok
        BY <1>8, <3>3 DEF RunRecv
      <3>4. QED
        BY <3>1, <3>2, <3>3
    <2>4. n_changed' \in Garbage \cup {0}
      BY <1>0, <2>1, <2>3 DEF TypeOK
    <2>5. rec \in Outcome
      BY <1>1, <1>2 DEF Res, Outcome, Slots
    <2>6. results' \in Seq(Outcome)
      BY <1>2, <2>1, <2>5, AppendProperties
    <2>7. QED
      BY <1>0, <1>1, <2>1, <2>2, <2>3, <2>4, <2>6 DEF IInv, TypeOK,
         ControlOK, PCs, cluster
  <1>9. QED
    BY <1>3, <1>4, <1>5, <1>6, <1>7, <1>8

\* send_open's loop: clientSendOpen / clientRecvDb and the back-off.
LEMMA OpenStepsIInv ==
    ASSUME IInv, OpenSend \/ OpenRecv
    PROVE  IInv'
  <1>0. TypeOK /\ ControlOK
    BY DEF IInv
  <1>1. call \in Calls /\ op \in Ops /\ remaining_servers \in Slots
    BY <1>0 DEF OpenSend, OpenRecv, ControlOK, TypeOK
  <1>2. /\ tx \in [Slots -> Seq(Request)] /\ rx \in [Slots -> Seq(Unit)]
        /\ results \in Seq(Outcome) /\ leader_id \in Slots \cup {NoLeader}
        /\ remaining_attempts \in 1 .. DialAttempts
    BY <1>0 DEF TypeOK
  <1>3. CASE OpenSend /\ CanSend(remaining_servers)
    <2>1. /\ tx' = [tx EXCEPT ![remaining_servers] =
                       Append(@, Req("Open", 0))]
          /\ pc' = "open_recv"
          /\ UNCHANGED <<cluster, conn, rx, op, call, client_index,
                         leader_index, leader_id, stmt_id, rows_affected, errs,
                         n_changed, remaining_servers, remaining_attempts,
                         node_infos, results>>
      BY <1>3 DEF OpenSend, Sent
    <2>2. tx' \in [Slots -> Seq(Request)]
      BY <1>1, <1>2, <2>1, PlainRequests, SentType
    <2>3. QED
      BY <1>0, <1>1, <2>1, <2>2 DEF IInv, TypeOK, ControlOK, PCs, cluster
  <1>4. CASE OpenSend /\ ~CanSend(remaining_servers)
    <2>1. /\ pc' = "exited"
          /\ UNCHANGED <<cluster, conn, tx, rx, op, call, client_index,
                         leader_index, leader_id, stmt_id, rows_affected, errs,
                         n_changed, remaining_servers, remaining_attempts,
                         node_infos, results>>
      BY <1>4 DEF OpenSend
    <2>2. QED
      BY <1>0, <1>1, <2>1 DEF IInv, TypeOK, ControlOK, PCs, cluster
  <1>5. CASE OpenRecv
    <2>1. /\ Consume(remaining_servers, "Db")
          /\ UNCHANGED <<cluster, conn, tx, op, call, client_index,
                         leader_index, leader_id, stmt_id, rows_affected, errs,
                         n_changed, node_infos>>
      BY <1>5 DEF OpenRecv
    <2>2. rx' \in [Slots -> Seq(Unit)]
      BY <1>1, <1>2, <2>1, ConsumeStep
    <2> DEFINE rec(r) == [call |-> call, op |-> op, ret |-> r,
                          slot |-> remaining_servers, lid |-> leader_id]
    <2>3. \A r \in {0, 1} : rec(r) \in Outcome
      BY <1>1, <1>2 DEF Outcome, Slots
    <2>4. CASE Got(remaining_servers, "Db")
      <3>1. /\ results' = Append(results, rec(0)) /\ pc' = "idle"
            /\ UNCHANGED <<remaining_servers, remaining_attempts>>
        BY <1>5, <2>4 DEF OpenRecv, Return
      <3>2. results' \in Seq(Outcome)
        BY <1>2, <2>3, <3>1, AppendProperties
      <3>3. QED
        BY <1>0, <1>1, <2>1, <2>2, <3>1, <3>2 DEF IInv, TypeOK, ControlOK,
           PCs, cluster
    <2>5. CASE ~Got(remaining_servers, "Db")
      <3> DEFINE spent == remaining_attempts - 1
                 next == IF spent = 0 THEN remaining_servers - 1
                         ELSE remaining_servers
      <3>1. /\ remaining_attempts' = IF spent = 0 THEN DialAttempts ELSE spent
            /\ remaining_servers' = next
            /\ IF next = 0 THEN Return(1, remaining_servers, leader_id)
                           ELSE pc' = "open_send" /\ UNCHANGED results
        BY <1>5, <2>5 DEF OpenRecv, OpenBackoff
      <3>2. remaining_attempts' \in 1 .. DialAttempts
            /\ remaining_servers' \in Int
        BY <1>1, <1>2, <3>1, DialAttemptsAssumption DEF Slots
      <3>3. CASE next = 0
        <4>1. results' = Append(results, rec(1)) /\ pc' = "idle"
          BY <3>1, <3>3 DEF Return
        <4>2. results' \in Seq(Outcome)
          BY <1>2, <2>3, <4>1, AppendProperties
        <4>3. QED
          BY <1>0, <1>1, <2>1, <2>2, <3>2, <4>1, <4>2 DEF IInv, TypeOK,
             ControlOK, PCs, cluster
      <3>4. CASE next # 0
        <4>1. pc' = "open_send" /\ results' = results
          BY <3>1, <3>4
        <4>2. QED
          BY <1>0, <1>1, <2>1, <2>2, <3>2, <4>1 DEF IInv, TypeOK,
             ControlOK, PCs, cluster
      <3>5. QED
        BY <3>3, <3>4
    <2>6. QED
      BY <2>4, <2>5
  <1>6. QED
    BY <1>3, <1>4, <1>5

\* addServer / removeServer: clientSendAdd|Remove, clientRecvEmpty.
LEMMA AdminStepsIInv ==
    ASSUME IInv, AdmSend \/ AdmRecv
    PROVE  IInv'
  <1>0. TypeOK /\ ControlOK
    BY DEF IInv
  <1>1. call \in Calls /\ op \in Ops /\ leader_index \in Slots
    BY <1>0 DEF AdmSend, AdmRecv, ControlOK, TypeOK
  <1>2. /\ tx \in [Slots -> Seq(Request)] /\ rx \in [Slots -> Seq(Unit)]
        /\ results \in Seq(Outcome) /\ leader_id \in Slots \cup {NoLeader}
    BY <1>0 DEF TypeOK
  <1> DEFINE rec(r) == [call |-> call, op |-> op, ret |-> r,
                        slot |-> leader_index, lid |-> leader_id]
  <1>3. \A r \in {0, -1} : rec(r) \in Outcome
    BY <1>1, <1>2 DEF Outcome, Slots
  <1>4. CASE AdmSend /\ CanSend(leader_index)
    <2>1. /\ tx' = [tx EXCEPT ![leader_index] = Append(@, Req(AdmReq(op), 0))]
          /\ pc' = "adm_recv"
          /\ UNCHANGED <<cluster, conn, rx, op, call, client_index,
                         leader_index, leader_id, stmt_id, rows_affected, errs,
                         n_changed, remaining_servers, remaining_attempts,
                         node_infos, results>>
      BY <1>4 DEF AdmSend, Sent
    <2>2. tx' \in [Slots -> Seq(Request)]
      BY <1>1, <1>2, <2>1, PlainRequests, SentType
    <2>3. QED
      BY <1>0, <1>1, <2>1, <2>2 DEF IInv, TypeOK, ControlOK, PCs, cluster
  <1>5. CASE AdmSend /\ ~CanSend(leader_index)
    <2>1. /\ results' = Append(results, rec(-1)) /\ pc' = "idle"
          /\ UNCHANGED <<cluster, conn, tx, rx, op, call, client_index,
                         leader_index, leader_id, stmt_id, rows_affected, errs,
                         n_changed, remaining_servers, remaining_attempts,
                         node_infos>>
      BY <1>5 DEF AdmSend, Return
    <2>2. results' \in Seq(Outcome)
      BY <1>2, <1>3, <2>1, AppendProperties
    <2>3. QED
      BY <1>0, <1>1, <2>1, <2>2 DEF IInv, TypeOK, ControlOK, PCs, cluster
  <1>6. CASE AdmRecv
    <2>1. /\ Consume(leader_index, "Empty")
          /\ results' = Append(results,
                               rec(IF Got(leader_index, "Empty") THEN 0
                                   ELSE -1))
          /\ pc' = "idle"
          /\ UNCHANGED <<cluster, conn, tx, op, call, client_index,
                         leader_index, leader_id, stmt_id, rows_affected, errs,
                         n_changed, remaining_servers, remaining_attempts,
                         node_infos>>
      BY <1>6 DEF AdmRecv, Return
    <2>2. rx' \in [Slots -> Seq(Unit)]
      BY <1>1, <1>2, <2>1, ConsumeStep
    <2>3. results' \in Seq(Outcome)
      BY <1>2, <1>3, <2>1, AppendProperties
    <2>4. QED
      BY <1>0, <1>1, <2>1, <2>2, <2>3 DEF IInv, TypeOK, ControlOK, PCs,
         cluster
  <1>7. QED
    BY <1>4, <1>5, <1>6

\* get_leader's loop: clientSendLeader over the pool, clientRecvLeader.
LEMMA GetLeaderStepsIInv ==
    ASSUME IInv, GlSend \/ GlDone \/ GlRecv
    PROVE  IInv'
  <1>0. TypeOK /\ ControlOK
    BY DEF IInv
  <1>1. call \in Calls /\ op \in Ops /\ client_index \in 0 .. NClients + 1
    BY <1>0 DEF GlSend, GlDone, GlRecv, ControlOK, TypeOK
  <1>2. /\ tx \in [Slots -> Seq(Request)] /\ rx \in [Slots -> Seq(Unit)]
        /\ results \in Seq(Outcome) /\ leader_id \in Slots \cup {NoLeader}
    BY <1>0 DEF TypeOK
  <1>3. CASE GlSend /\ CanSend(client_index)
    <2>1. client_index \in Slots
      BY <1>1, <1>3 DEF GlSend, Slots
    <2>2. /\ tx' = [tx EXCEPT ![client_index] = Append(@, Req("Leader", 0))]
          /\ pc' = "gl_recv"
          /\ UNCHANGED <<cluster, conn, rx, op, call, client_index,
                         leader_index, leader_id, stmt_id, rows_affected, errs,
                         n_changed, remaining_servers, remaining_attempts,
                         node_infos, results>>
      BY <1>3 DEF GlSend, Sent
    <2>3. tx' \in [Slots -> Seq(Request)]
      BY <1>2, <2>1, <2>2, PlainRequests, SentType
    <2>4. QED
      BY <1>0, <1>1, <2>1, <2>2, <2>3 DEF IInv, TypeOK, ControlOK, PCs,
         cluster
  <1>4. CASE GlSend /\ ~CanSend(client_index)
    <2>1. /\ client_index < NClients
          /\ client_index' = client_index + 1 /\ pc' = "gl_send"
          /\ UNCHANGED <<cluster, conn, tx, rx, op, call, leader_index,
                         leader_id, stmt_id, rows_affected, errs, n_changed,
                         remaining_servers, remaining_attempts, node_infos,
                         results>>
      BY <1>4 DEF GlSend
    <2>2. client_index' \in 0 .. NClients + 1
      BY <1>1, <2>1
    <2>3. QED
      BY <1>0, <1>1, <2>1, <2>2 DEF IInv, TypeOK, ControlOK, PCs, cluster
  <1>5. CASE GlDone
    <2>1. /\ results' = Append(results,
                               [call |-> call, op |-> op, ret |-> client_index,
                                slot |-> client_index, lid |-> leader_id])
          /\ pc' = "idle"
          /\ UNCHANGED <<cluster, sessions, op, call, client_index,
                         leader_index, leader_id, stmt_id, rows_affected, errs,
                         n_changed, remaining_servers, remaining_attempts,
                         node_infos>>
      BY <1>5 DEF GlDone, Return
    <2>2. results' \in Seq(Outcome)
      BY <1>1, <1>2, <2>1, AppendProperties DEF Outcome
    <2>3. QED
      BY <1>0, <1>1, <2>1, <2>2 DEF IInv, TypeOK, ControlOK, PCs, cluster,
         sessions
  <1>6. CASE GlRecv
    <2>1. client_index \in Slots /\ pc = "gl_recv"
      BY <1>0, <1>6 DEF GlRecv, ControlOK
    <2>2. /\ Consume(client_index, "Leader")
          /\ UNCHANGED <<cluster, conn, tx, op, call, leader_index, stmt_id,
                         rows_affected, errs, n_changed, remaining_servers,
                         remaining_attempts, node_infos>>
      BY <1>6 DEF GlRecv
    <2>3. rx' \in [Slots -> Seq(Unit)]
      BY <1>2, <2>1, <2>2, ConsumeStep
    <2>4. CASE Got(client_index, "Leader")
      <3> DEFINE id == GotVal(client_index)
      <3>1. id \in Slots \cup {NoLeader}
        BY <1>2, <2>1, <2>4, GotFacts
      <3>2. /\ leader_id' = id /\ client_index' = client_index + 1
            /\ results' = Append(results,
                                 [call |-> call, op |-> op,
                                  ret |-> client_index + 1,
                                  slot |-> client_index, lid |-> id])
            /\ pc' = "idle"
        BY <1>6, <2>4 DEF GlRecv, Return
      <3>3. results' \in Seq(Outcome)
        <4>1. client_index + 1 \in Int /\ client_index \in Int
          BY <2>1 DEF Slots
        <4>2. [call |-> call, op |-> op, ret |-> client_index + 1,
               slot |-> client_index, lid |-> id] \in Outcome
          BY <1>1, <3>1, <4>1 DEF Outcome
        <4>3. QED
          BY <1>2, <3>2, <4>2, AppendProperties
      <3>4. client_index' \in 0 .. NClients + 1
        BY <2>1, <3>2 DEF Slots
      <3>5. QED
        BY <1>0, <1>1, <2>2, <2>3, <3>1, <3>2, <3>3, <3>4 DEF IInv, TypeOK,
           ControlOK, PCs, cluster
    <2>5. CASE ~Got(client_index, "Leader")
      <3>1. /\ pc' = "exited"
            /\ UNCHANGED <<leader_id, client_index, results>>
        BY <1>6, <2>5 DEF GlRecv
      <3>2. QED
        BY <1>0, <1>1, <2>2, <2>3, <3>1 DEF IInv, TypeOK, ControlOK, PCs,
           cluster
    <2>6. QED
      BY <2>4, <2>5
  <1>7. QED
    BY <1>3, <1>4, <1>5, <1>6

\* The invariant is inductive.
LEMMA NextIInv == IInv /\ [Next]_vars => IInv'
  <1> SUFFICES ASSUME IInv, [Next]_vars PROVE IInv'
    OBVIOUS
  <1>1. CASE Start
    BY <1>1, StartIInv
  <1>2. CASE Step
    BY <1>2, LeaderStepsIInv, StatementStepsIInv, OpenStepsIInv,
       AdminStepsIInv, GetLeaderStepsIInv DEF Step
  <1>3. CASE \E i \in Slots : Serve(i) \/ Crash(i)
    <2>1. PICK i \in Slots : Serve(i) \/ Crash(i)
      BY <1>3
    <2>2. QED
      BY <2>1, ServeIInv, FaultIInv
  <1>4. CASE ChangeLeader
    BY <1>4, FaultIInv
  <1>5. CASE Terminated \/ UNCHANGED vars
    BY <1>5 DEF Terminated, vars, cluster, sessions, caller, IInv, TypeOK,
       ControlOK
  <1>6. QED
    BY <1>1, <1>2, <1>3, <1>4, <1>5 DEF Next

\* Type correctness of the whole model: every variable of the driver, the
\* session streams and the cluster keeps the type TypeOK gives it, for every
\* pool size, attempt budget and bound.
THEOREM TypeCorrect == Spec => []TypeOK
  <1>1. Init => IInv
    BY InitIInv
  <1>2. IInv /\ [Next]_vars => IInv'
    BY NextIInv
  <1>3. IInv => TypeOK
    BY DEF IInv
  <1>4. QED
    BY <1>1, <1>2, <1>3, PTL DEF Spec

=============================================================================
