------------------------ MODULE LldClientStreamProofs ------------------------
(***************************************************************************)
(* exec and raw_query run the statement they prepared themselves, for     *)
(* every pool size and bound.  The argument is about the session streams: *)
(* a Leader request is sent only by a probe that reads its reply before   *)
(* going on, so after a successful probe the session is empty, and the    *)
(* only Stmt that can then arrive there answers the call's own Prepare.   *)
(***************************************************************************)
EXTENDS LldClientProofs

USE NClientsAssumption, DialAttemptsAssumption, FailureWordsAssumption,
    BoundsAssumption, CallerOpsAssumption

-----------------------------------------------------------------------------
(* Lemmas on LeaderFree and on response frames.                            *)

LEMMA FreeEmpty == LeaderFree(<<>>)
  BY DEF LeaderFree

LEMMA FreeSubSeq ==
    ASSUME NEW S, NEW s \in Seq(S), LeaderFree(s), NEW m \in Int, m >= 1,
           NEW n \in Int, n <= Len(s)
    PROVE  LeaderFree(SubSeq(s, m, n))
  <1>1. \A i \in m .. n : s[i] \in S
    BY ElementOfSeq
  <1>2. /\ DOMAIN SubSeq(s, m, n) = 1 .. Len(SubSeq(s, m, n))
        /\ Len(SubSeq(s, m, n)) = IF m <= n THEN n - m + 1 ELSE 0
        /\ \A i \in 1 .. n - m + 1 : SubSeq(s, m, n)[i] = s[m + i - 1]
    BY <1>1, SubSeqProperties, LenProperties
  <1>3. \A i \in 1 .. n - m + 1 : m + i - 1 \in DOMAIN s
    BY LenProperties
  <1>4. QED
    BY <1>2, <1>3 DEF LeaderFree

LEMMA FreeTail ==
    ASSUME NEW S, NEW s \in Seq(S), s # <<>>, LeaderFree(s)
    PROVE  LeaderFree(Tail(s))
  BY DEF LeaderFree

LEMMA FreeHead ==
    ASSUME NEW S, NEW s \in Seq(S), s # <<>>, LeaderFree(s)
    PROVE  Head(s).t # "Leader"
  BY DEF LeaderFree

LEMMA FreeAppend ==
    ASSUME NEW S, NEW s \in Seq(S), LeaderFree(s), NEW x, x.t # "Leader"
    PROVE  LeaderFree(Append(s, x))
  BY DEF LeaderFree

LEMMA FreeConcat ==
    ASSUME NEW S, NEW s \in Seq(S), NEW u \in Seq(S), LeaderFree(s),
           LeaderFree(u)
    PROVE  LeaderFree(s \o u)
  <1>1. Len(s) \in Nat /\ Len(u) \in Nat
    BY LenProperties
  <1>2. /\ DOMAIN (s \o u) = 1 .. Len(s) + Len(u)
        /\ \A i \in 1 .. Len(s) + Len(u) : (s \o u)[i] =
              IF i <= Len(s) THEN s[i] ELSE u[i - Len(s)]
    BY <1>1, ConcatProperties, LenProperties
  <1>3. QED
    BY <1>1, <1>2, LenProperties DEF LeaderFree

\* A header followed by a body.
LEMMA ConsProperties ==
    ASSUME NEW S, NEW h \in S, NEW b \in Seq(S)
    PROVE  /\ <<h>> \o b \in Seq(S)
           /\ Len(<<h>> \o b) = 1 + Len(b)
           /\ (<<h>> \o b)[1] = h
           /\ \A i \in 2 .. 1 + Len(b) : (<<h>> \o b)[i] = b[i - 1]
  <1>1. <<h>> \in Seq(S) /\ Len(<<h>>) = 1
    OBVIOUS
  <1>2. Len(b) \in Nat
    BY LenProperties
  <1>3. QED
    BY <1>1, <1>2, ConcatProperties

\* The shape of a response frame: its header, then BodyWords[t] body words.
LEMMA FrameFacts ==
    ASSUME NEW t \in RespTypes, NEW v
    PROVE  /\ Frame(t, v) \in Seq(Unit \cup {Header(t, v)})
           /\ Len(Frame(t, v)) = 1 + BodyWords[t]
           /\ Frame(t, v)[1] = Header(t, v)
           /\ \A k \in 2 .. Len(Frame(t, v)) : Frame(t, v)[k] = BodyWord
  <1>1. BodyWords[t] \in Nat
    BY DEF BodyWords, RespTypes
  <1>2. /\ [k \in 1 .. BodyWords[t] |-> BodyWord]
              \in Seq(Unit \cup {Header(t, v)})
        /\ Len([k \in 1 .. BodyWords[t] |-> BodyWord]) = BodyWords[t]
    BY <1>1 DEF Unit
  <1>3. Header(t, v) \in Unit \cup {Header(t, v)}
    OBVIOUS
  <1>4. QED
    BY <1>1, <1>2, <1>3, ConsProperties DEF Frame

\* A frame of any other type holds no Leader header.
LEMMA FrameFree ==
    ASSUME NEW t \in RespTypes, t # "Leader", NEW v
    PROVE  LeaderFree(Frame(t, v))
  <1>0. /\ Frame(t, v) \in Seq(Unit \cup {Header(t, v)})
        /\ Len(Frame(t, v)) = 1 + BodyWords[t]
        /\ Frame(t, v)[1] = Header(t, v)
        /\ \A k \in 2 .. Len(Frame(t, v)) : Frame(t, v)[k] = BodyWord
    BY FrameFacts
  <1>1. /\ DOMAIN Frame(t, v) = 1 .. 1 + BodyWords[t]
        /\ Frame(t, v)[1] = Header(t, v)
        /\ \A k \in 2 .. 1 + BodyWords[t] : Frame(t, v)[k] = BodyWord
    BY <1>0, LenProperties
  <1>2. Header(t, v).t # "Leader" /\ BodyWord.t # "Leader"
    BY DEF Header, BodyWord
  <1>3. BodyWords[t] \in Nat
    BY DEF BodyWords, RespTypes
  <1>4. QED
    BY <1>1, <1>2, <1>3 DEF LeaderFree

\* A stream followed by a frame.
LEMMA FreeReply ==
    ASSUME NEW R \in Seq(Unit), LeaderFree(R), NEW t \in RespTypes,
           t # "Leader", NEW v
    PROVE  LeaderFree(R \o Frame(t, v))
  <1>1. R \in Seq(Unit \cup {Header(t, v)})
    BY LenProperties
  <1>2. QED
    BY <1>1, FrameFacts, FrameFree, FreeConcat

\* What READ2 leaves of a Leader-free stream is Leader-free.
LEMMA ConsumeFree ==
    ASSUME NEW s \in Seq(Unit), LeaderFree(s), NEW t
    PROVE  LeaderFree(IF s # <<>> /\ Head(s).t = t
                         THEN SubSeq(s, 2 + Head(s).w, Len(s))
                      ELSE IF s = <<>> THEN s ELSE Tail(s))
  <1>1. CASE s # <<>> /\ Head(s).t = t
    <2>1. Head(s).w \in Nat
      BY <1>1, UnitFacts, HeadTailProperties
    <2>2. QED
      BY <1>1, <2>1, FreeSubSeq, LenProperties
  <1>2. CASE s # <<>> /\ ~(Head(s).t = t)
    BY <1>2, FreeTail
  <1>3. CASE s = <<>>
    BY <1>3
  <1>4. QED
    BY <1>1, <1>2, <1>3

-----------------------------------------------------------------------------
(* The probe's request and reply on its session.                           *)

\* The first units of a stream followed by a frame are the stream.
LEMMA PrefixOfReply ==
    ASSUME NEW R \in Seq(Unit), NEW t \in RespTypes, NEW v
    PROVE  /\ SubSeq(R \o Frame(t, v), 1, Len(R)) = R
           /\ Len(R) \in 0 .. Len(R \o Frame(t, v))
  <1> DEFINE S == Unit \cup {Header(t, v)}
  <1>1. R \in Seq(S) /\ Frame(t, v) \in Seq(S) /\ Len(Frame(t, v)) \in Nat
    BY FrameFacts, LenProperties
  <1>2. /\ R \o Frame(t, v) \in Seq(S)
        /\ Len(R \o Frame(t, v)) = Len(R) + Len(Frame(t, v))
        /\ \A i \in 1 .. Len(R) + Len(Frame(t, v)) : (R \o Frame(t, v))[i] =
              IF i <= Len(R) THEN R[i] ELSE Frame(t, v)[i - Len(R)]
    BY <1>1, ConcatProperties
  <1>3. Len(R) \in Nat
    BY LenProperties
  <1>4. \A i \in 1 .. Len(R) : (R \o Frame(t, v))[i] \in S
    BY <1>1, <1>2, <1>3, ElementOfSeq
  <1>5. /\ SubSeq(R \o Frame(t, v), 1, Len(R)) \in Seq(S)
        /\ Len(SubSeq(R \o Frame(t, v), 1, Len(R))) = Len(R)
        /\ \A i \in 1 .. Len(R) :
              SubSeq(R \o Frame(t, v), 1, Len(R))[i] = (R \o Frame(t, v))[i]
    BY <1>3, <1>4, SubSeqProperties
  <1>6. QED
    BY <1>1, <1>2, <1>3, <1>5, SeqEqual

\* A probe whose session holds nothing of Leader is sent.
LEMMA ProbeAfterSend ==
    ASSUME NEW T \in Seq(Request), NEW R, LeaderFree(T), LeaderFree(R)
    PROVE  ProbeInFlight(Append(T, Req("Leader", 0)), R)
  <1> DEFINE T2 == Append(T, Req("Leader", 0))
  <1>1. Req("Leader", 0) \in Request
    BY PlainRequests
  <1>2. /\ T2 \in Seq(Request) /\ Len(T2) = Len(T) + 1
        /\ T2[Len(T2)] = Req("Leader", 0)
        /\ \A i \in 1 .. Len(T) : T2[i] = T[i]
    BY <1>1, AppendProperties
  <1>3. SubSeq(T2, 1, Len(T2) - 1) = T
    <2>1. Len(T) \in Nat
      BY LenProperties
    <2>2. \A i \in 1 .. Len(T) : T2[i] \in Request
      BY <1>2, <2>1, ElementOfSeq
    <2>3. /\ SubSeq(T2, 1, Len(T)) \in Seq(Request)
          /\ Len(SubSeq(T2, 1, Len(T))) = Len(T)
          /\ \A i \in 1 .. Len(T) : SubSeq(T2, 1, Len(T))[i] = T2[i]
      BY <2>1, <2>2, SubSeqProperties
    <2>4. QED
      BY <1>2, <2>1, <2>3, SeqEqual
  <1>4. T2 # <<>>
    BY <1>2, LenProperties
  <1>5. LeaderRequestLast(T2)
    BY <1>2, <1>3, <1>4 DEF LeaderRequestLast
  <1>6. QED
    BY <1>5 DEF ProbeInFlight

\* A node serves the head request of a session that holds nothing of
\* Leader; its reply is a Leader frame only for a Leader request.
LEMMA QuietAfterReply ==
    ASSUME NEW T \in Seq(Request), NEW R \in Seq(Unit), T # <<>>,
           LeaderFree(T), LeaderFree(R), NEW t \in RespTypes, NEW v,
           (t = "Leader") <=> (Head(T).t = "Leader"), NEW c \in BOOLEAN
    PROVE  /\ LeaderFree(Tail(T))
           /\ LeaderFree(IF c THEN R ELSE R \o Frame(t, v))
  <1>1. t # "Leader"
    BY FreeHead
  <1>2. LeaderFree(R \o Frame(t, v))
    BY <1>1, FreeReply
  <1>3. QED
    BY <1>2, FreeTail

\* What LeaderRequestLast says of each element of the stream.
LEMMA RequestLastElems ==
    ASSUME NEW T \in Seq(Request)
    PROVE  LeaderRequestLast(T) <=>
             /\ Len(T) \in Nat \ {0} /\ T[Len(T)] = Req("Leader", 0)
             /\ \A k \in 1 .. Len(T) - 1 : T[k].t # "Leader"
  <1>1. T # <<>> <=> Len(T) \in Nat \ {0}
    BY EmptySeq, LenProperties
  <1>2. ASSUME Len(T) \in Nat \ {0}
        PROVE  /\ DOMAIN SubSeq(T, 1, Len(T) - 1) = 1 .. Len(T) - 1
               /\ \A k \in 1 .. Len(T) - 1 : SubSeq(T, 1, Len(T) - 1)[k] = T[k]
    <2>1. \A i \in 1 .. Len(T) - 1 : T[i] \in Request
      BY <1>2, ElementOfSeq
    <2>2. /\ SubSeq(T, 1, Len(T) - 1) \in Seq(Request)
          /\ Len(SubSeq(T, 1, Len(T) - 1)) = Len(T) - 1
          /\ \A k \in 1 .. Len(T) - 1 : SubSeq(T, 1, Len(T) - 1)[k] = T[k]
      <3>1. Len(T) - 1 \in Int /\ 1 \in Int
        BY <1>2
      <3>2. /\ SubSeq(T, 1, Len(T) - 1) \in Seq(Request)
            /\ Len(SubSeq(T, 1, Len(T) - 1)) = IF 1 <= Len(T) - 1 THEN Len(T) - 1 - 1 + 1 ELSE 0
            /\ \A i \in 1 .. Len(T) - 1 - 1 + 1 : SubSeq(T, 1, Len(T) - 1)[i] = T[1 + i - 1]
        BY <2>1, <3>1, SubSeqProperties
      <3>3. Len(SubSeq(T, 1, Len(T) - 1)) = Len(T) - 1
        <4>0. Len(T) \in Nat \ {0}
          BY <1>2
        <4>1. (IF 1 <= Len(T) - 1 THEN Len(T) - 1 - 1 + 1 ELSE 0) = Len(T) - 1
          <5>1. \A n \in Nat \ {0} : (IF 1 <= n - 1 THEN n - 1 - 1 + 1 ELSE 0) = n - 1
            OBVIOUS
          <5>2. QED
            BY ONLY <4>0, <5>1
        <4>2. QED
          BY ONLY <3>2, <4>1
      <3>4. \A k \in 1 .. Len(T) - 1 : SubSeq(T, 1, Len(T) - 1)[k] = T[k]
        <4>1. Len(T) - 1 - 1 + 1 = Len(T) - 1 /\ \A i \in Int : 1 + i - 1 = i
          BY <1>2
        <4>2. QED
          BY ONLY <3>2, <4>1
      <3>5. QED
        BY <3>2, <3>3, <3>4
    <2>3. QED
      BY <2>2, LenProperties
  <1>3. QED
    BY <1>1, <1>2 DEF LeaderRequestLast, LeaderFree

\* ... and keeps the probe in one of its three places.
LEMMA ProbeAfterReply ==
    ASSUME NEW T \in Seq(Request), NEW R \in Seq(Unit), T # <<>>,
           ProbeInFlight(T, R), NEW t \in RespTypes, NEW v,
           (t = "Leader") <=> (Head(T).t = "Leader"),
           t = "Leader" => v \in Slots \cup {NoLeader}, NEW c \in BOOLEAN
    PROVE  ProbeInFlight(Tail(T), IF c THEN R ELSE R \o Frame(t, v))
  <1>0. /\ Len(T) \in Nat \ {0} /\ Head(T) = T[1]
        /\ Tail(T) \in Seq(Request) /\ Len(Tail(T)) = Len(T) - 1
        /\ \A i \in 1 .. Len(Tail(T)) : Tail(T)[i] = T[i + 1]
    BY EmptySeq, HeadTailProperties
  <1>1. CASE LeaderFree(T) /\ LeaderFree(R)
    BY <1>1, QuietAfterReply DEF ProbeInFlight
  <1>2. CASE LeaderRequestLast(T) /\ LeaderFree(R) /\ Len(T) = 1
    <2>1. Head(T) = Req("Leader", 0)
      <3>1. T[Len(T)] = Req("Leader", 0)
        BY <1>2, RequestLastElems
      <3>2. Len(T) = 1 /\ Head(T) = T[1]
        BY <1>0, <1>2
      <3>3. QED
        BY ONLY <3>1, <3>2
    <2>2. Tail(T) = <<>>
      <3>1. Len(Tail(T)) = 0 /\ Tail(T) \in Seq(Request)
        BY <1>0, <1>2
      <3>2. QED
        BY ONLY <3>1, EmptySeq
    <2>3. t = "Leader" /\ v \in Slots \cup {NoLeader}
      BY <2>1 DEF Req
    <2>4. CASE c
      BY <1>2, <2>2, <2>4, FreeEmpty DEF ProbeInFlight
    <2>5. CASE ~c
      <3>1. /\ SubSeq(R \o Frame(t, v), 1, Len(R)) = R
            /\ Len(R) \in 0 .. Len(R \o Frame(t, v))
        BY PrefixOfReply
      <3>2. LeaderReplyLast(R \o Frame(t, v))
        BY <1>2, <2>3, <3>1 DEF LeaderReplyLast
      <3>3. QED
        BY <2>2, <2>5, <3>2 DEF ProbeInFlight
    <2>6. QED
      BY <2>4, <2>5
  <1>3. CASE LeaderRequestLast(T) /\ LeaderFree(R) /\ Len(T) > 1
    <2>1. t # "Leader"
      BY <1>0, <1>3, RequestLastElems
    <2>2. LeaderFree(IF c THEN R ELSE R \o Frame(t, v))
      BY <1>3, <2>1, FreeReply
    <2>3. LeaderRequestLast(Tail(T))
      <3>1. /\ Len(Tail(T)) \in Nat \ {0}
            /\ Tail(T)[Len(Tail(T))] = Req("Leader", 0)
            /\ \A k \in 1 .. Len(Tail(T)) - 1 : Tail(T)[k].t # "Leader"
        BY <1>0, <1>3, RequestLastElems
      <3>2. QED
        BY <1>0, <3>1, RequestLastElems
    <2>4. QED
      BY <2>2, <2>3 DEF ProbeInFlight
  <1>4. QED
    <2>1. ~(T = <<>> /\ LeaderReplyLast(R))
      OBVIOUS
    <2>2. Len(T) = 1 \/ Len(T) > 1
      BY <1>0
    <2>3. QED
      BY <1>1, <1>2, <1>3, <2>1, <2>2 DEF ProbeInFlight

\* The probe reads its own reply, and it is the whole stream: nothing is
\* left after it.
LEMMA ProbeReadEmpties ==
    ASSUME NEW R \in Seq(Unit), NEW T, ProbeInFlight(T, R), R # <<>>,
           Head(R).t = "Leader"
    PROVE  T = <<>> /\ SubSeq(R, 2 + Head(R).w, Len(R)) = <<>>
  <1>1. T = <<>> /\ LeaderReplyLast(R)
    BY FreeHead DEF ProbeInFlight
  <1>2. PICK v \in Slots \cup {NoLeader}, j \in 0 .. Len(R) :
            /\ R = SubSeq(R, 1, j) \o Frame("Leader", v)
            /\ LeaderFree(SubSeq(R, 1, j))
    BY <1>1 DEF LeaderReplyLast
  <1>3. j = 0
    <2>1. SUFFICES ASSUME j # 0 PROVE FALSE
      OBVIOUS
    <2>2. Len(R) \in Nat /\ j \in 1 .. Len(R)
      BY <2>1, LenProperties
    <2>3. \A i \in 1 .. j : R[i] \in Unit
      BY <2>2, ElementOfSeq
    <2>4. /\ SubSeq(R, 1, j) \in Seq(Unit) /\ Len(SubSeq(R, 1, j)) = j
          /\ SubSeq(R, 1, j)[1] = R[1]
      BY <2>2, <2>3, SubSeqProperties
    <2>5. SubSeq(R, 1, j) # <<>> /\ Head(SubSeq(R, 1, j)) = R[1]
      BY <2>2, <2>4
    <2>6. Head(R) = R[1]
      BY <2>2
    <2>7. QED
      BY <1>2, <2>4, <2>5, <2>6, FreeHead
  <1>4. R = Frame("Leader", v)
    <2>1. SubSeq(R, 1, 0) = <<>>
      BY SubSeqEmpty
    <2>2. Frame("Leader", v) \in Seq(Unit \cup {Header("Leader", v)})
      BY FrameFacts DEF RespTypes
    <2>3. QED
      BY <1>2, <1>3, <2>1, <2>2, ConcatEmptySeq
  <1>5. /\ Len(R) = 3 /\ Head(R) = Header("Leader", v)
        /\ Head(R).w = 2
    <2>1. /\ Len(Frame("Leader", v)) = 1 + BodyWords["Leader"]
          /\ Frame("Leader", v)[1] = Header("Leader", v)
      BY FrameFacts DEF RespTypes
    <2>2. BodyWords["Leader"] = 2
      BY DEF BodyWords, RespTypes
    <2>3. QED
      BY <1>4, <2>1, <2>2 DEF Header
  <1>6. QED
    BY <1>1, <1>5, SubSeqEmpty

\* A node crash loses the queued requests: the probe is lost or answered.
LEMMA ProbeAfterCrash ==
    ASSUME NEW T, NEW R, ProbeInFlight(T, R)
    PROVE  ProbeInFlight(<<>>, R)
  BY FreeEmpty DEF ProbeInFlight

-----------------------------------------------------------------------------
(* The stream discipline over the whole pool.                              *)

\* The invariant that is proved inductive: the typing, the stream
\* discipline QuietProbe, and the property itself.
SInv == IInv /\ QuietProbe /\ ExecStatementIsOwn

\* Every session holds nothing of Leader.
AllQuiet(T, R) == \A i \in Slots : LeaderFree(T[i]) /\ LeaderFree(R[i])

\* Outside the probes, no session holds anything of Leader.
LEMMA QuietBefore ==
    ASSUME OnlyProbeAsksLeader, pc \notin {"lead_recv", "gl_recv", "exited"}
    PROVE  AllQuiet(tx, rx)
  BY DEF OnlyProbeAsksLeader, AllQuiet

\* A step that leaves no Leader anywhere and does not enter a probe's read
\* keeps the discipline.
LEMMA QuietAfter ==
    ASSUME AllQuiet(tx', rx'), pc' \notin {"lead_recv", "gl_recv"}
    PROVE  OnlyProbeAsksLeader'
  BY DEF OnlyProbeAsksLeader, AllQuiet

\* ... and so does every step that ends the process.
LEMMA ExitQuiet ==
    ASSUME pc' = "exited"
    PROVE  OnlyProbeAsksLeader'
  BY DEF OnlyProbeAsksLeader

\* REQUEST2 of a request other than Leader keeps every session quiet.
LEMMA SentQuiet ==
    ASSUME tx \in [Slots -> Seq(Request)], AllQuiet(tx, rx), NEW k \in Slots,
           NEW r, r.t # "Leader", Sent(k, r), rx' = rx
    PROVE  AllQuiet(tx', rx')
  <1>1. LeaderFree(Append(tx[k], r))
    BY FreeAppend DEF AllQuiet
  <1>2. QED
    BY <1>1 DEF Sent, AllQuiet

\* READ2 keeps every session quiet.
LEMMA ConsumeQuiet ==
    ASSUME rx \in [Slots -> Seq(Unit)], AllQuiet(tx, rx), NEW k \in Slots,
           NEW t, Consume(k, t), tx' = tx
    PROVE  AllQuiet(tx', rx')
  <1>1. LeaderFree(IF rx[k] # <<>> /\ Head(rx[k]).t = t
                      THEN SubSeq(rx[k], 2 + Head(rx[k]).w, Len(rx[k]))
                   ELSE IF rx[k] = <<>> THEN rx[k] ELSE Tail(rx[k]))
    BY ConsumeFree DEF AllQuiet
  <1>2. QED
    BY <1>1 DEF Consume, Got, AllQuiet

\* A node's step: it takes the head request of a session and replies with a
\* frame whose type is Leader exactly when the request was, and which for a
\* Prepare is that statement's id or a failure.
LEMMA ServeShape ==
    ASSUME TypeOK, NEW i \in Slots, Serve(i)
    PROVE  /\ tx[i] # <<>>
           /\ \E t \in RespTypes : \E v :
                 /\ Reply(i, t, v)
                 /\ (t = "Leader") <=> (Head(tx[i]).t = "Leader")
                 /\ t = "Leader" => v \in Slots \cup {NoLeader}
                 /\ Head(tx[i]).t = "Prepare" =>
                       <<t, v>> \in {<<"Stmt", Arg(i)>>, <<"Failure", 0>>}
           /\ UNCHANGED <<conn, caller>>
  <1>1. CASE ServeLeader(i)
    <2>1. Reply(i, "Leader", leader) /\ leader \in Slots \cup {NoLeader}
      BY <1>1 DEF ServeLeader, TypeOK
    <2>2. QED
      BY <1>1, <2>1 DEF ServeLeader, Serving, RespTypes
  <1>2. CASE ServeOpen(i)
    <2>1. Reply(i, "Db", 0) \/ Reply(i, "Failure", 0)
      BY <1>2 DEF ServeOpen
    <2>2. QED
      BY <1>2, <2>1 DEF ServeOpen, Serving, RespTypes
  <1>3. CASE ServePrepare(i)
    <2>1. Reply(i, "Stmt", Arg(i)) \/ Reply(i, "Failure", 0)
      BY <1>3 DEF ServePrepare
    <2>2. QED
      BY <1>3, <2>1 DEF ServePrepare, Serving, RespTypes
  <1>4. CASE ServeExec(i)
    <2>1. Reply(i, "Result", Arg(i)) \/ Reply(i, "Failure", 0)
      BY <1>4 DEF ServeExec
    <2>2. QED
      BY <1>4, <2>1 DEF ServeExec, Serving, RespTypes
  <1>5. CASE ServeQuery(i)
    <2>1. Reply(i, "Rows", Arg(i)) \/ Reply(i, "Failure", 0)
      BY <1>5 DEF ServeQuery
    <2>2. QED
      BY <1>5, <2>1 DEF ServeQuery, Serving, RespTypes
  <1>6. CASE ServeAdmin(i)
    <2>1. Reply(i, "Empty", 0) \/ Reply(i, "Failure", 0)
      BY <1>6 DEF ServeAdmin
    <2>2. QED
      BY <1>6, <2>1 DEF ServeAdmin, RespTypes
  <1>7. QED
    BY <1>1, <1>2, <1>3, <1>4, <1>5, <1>6 DEF Serve

\* Whatever a node serves, the discipline holds after it: a reply to the
\* probe is the probe's, and a Prepare is answered with its own id.
LEMMA ServeQuiet ==
    ASSUME IInv, QuietProbe, NEW i \in Slots, Serve(i)
    PROVE  QuietProbe'
  <1>0. TypeOK /\ ControlOK /\ OnlyProbeAsksLeader /\ PrepareInFlight
    BY DEF IInv, QuietProbe
  <1>1. PICK t \in RespTypes : \E v :
           /\ Reply(i, t, v)
           /\ (t = "Leader") <=> (Head(tx[i]).t = "Leader")
           /\ t = "Leader" => v \in Slots \cup {NoLeader}
           /\ Head(tx[i]).t = "Prepare" =>
                 <<t, v>> \in {<<"Stmt", Arg(i)>>, <<"Failure", 0>>}
    BY <1>0, ServeShape
  <1>2. PICK v :
           /\ Reply(i, t, v)
           /\ (t = "Leader") <=> (Head(tx[i]).t = "Leader")
           /\ t = "Leader" => v \in Slots \cup {NoLeader}
           /\ Head(tx[i]).t = "Prepare" =>
                 <<t, v>> \in {<<"Stmt", Arg(i)>>, <<"Failure", 0>>}
    BY <1>1
  <1>3. tx[i] # <<>> /\ UNCHANGED <<conn, caller>>
    BY <1>0, ServeShape
  <1>4. /\ tx'[i] = Tail(tx[i])
        /\ rx'[i] = IF conn[i] = "closed" THEN rx[i] ELSE rx[i] \o Frame(t, v)
        /\ \A j \in Slots \ {i} : tx'[j] = tx[j] /\ rx'[j] = rx[j]
    BY <1>0, <1>2 DEF Reply, TypeOK
  <1>5. tx[i] \in Seq(Request) /\ rx[i] \in Seq(Unit)
    BY <1>0 DEF TypeOK
  <1>6. OnlyProbeAsksLeader'
    <2>1. SUFFICES ASSUME pc # "exited", NEW j \in Slots
                   PROVE  IF pc \in {"lead_recv", "gl_recv"} /\ j = client_index
                          THEN ProbeInFlight(tx'[j], rx'[j])
                          ELSE LeaderFree(tx'[j]) /\ LeaderFree(rx'[j])
      BY <1>3 DEF OnlyProbeAsksLeader, caller
    <2>2. CASE j # i
      BY <1>0, <1>4, <2>1, <2>2 DEF OnlyProbeAsksLeader
    <2>3. CASE j = i /\ pc \in {"lead_recv", "gl_recv"} /\ j = client_index
      <3>1. ProbeInFlight(tx[i], rx[i])
        BY <1>0, <2>1, <2>3 DEF OnlyProbeAsksLeader
      <3>2. ProbeInFlight(Tail(tx[i]),
                          IF conn[i] = "closed" THEN rx[i]
                          ELSE rx[i] \o Frame(t, v))
        BY <1>2, <1>3, <1>5, <3>1, ProbeAfterReply
      <3>3. QED
        BY <1>4, <2>3, <3>2
    <2>4. CASE j = i /\ ~(pc \in {"lead_recv", "gl_recv"} /\ j = client_index)
      <3>1. LeaderFree(tx[i]) /\ LeaderFree(rx[i])
        BY <1>0, <2>1, <2>4 DEF OnlyProbeAsksLeader
      <3>2. /\ LeaderFree(Tail(tx[i]))
            /\ LeaderFree(IF conn[i] = "closed" THEN rx[i]
                          ELSE rx[i] \o Frame(t, v))
        BY <1>2, <1>3, <1>5, <3>1, QuietAfterReply
      <3>3. QED
        BY <1>4, <2>4, <3>2
    <2>5. QED
      BY <2>2, <2>3, <2>4
  <1>7. PrepareInFlight'
    <2>1. SUFFICES ASSUME op \in {"exec", "query"}
                   PROVE  /\ pc = "prep_send" =>
                                 tx'[leader_index] = <<>> /\ rx'[leader_index] = <<>>
                          /\ pc = "prep_recv" =>
                                \/ /\ tx'[leader_index] = <<Req("Prepare", call)>>
                                   /\ rx'[leader_index] = <<>>
                                \/ /\ tx'[leader_index] = <<>>
                                   /\ rx'[leader_index] \in
                                        {<<>>, Frame("Stmt", call), Frame("Failure", 0)}
      BY <1>3 DEF PrepareInFlight, caller
    <2>2. CASE leader_index # i
      BY <1>0, <1>4, <2>1, <2>2 DEF PrepareInFlight, TypeOK
    <2>3. CASE leader_index = i /\ pc = "prep_send"
      BY <1>0, <1>3, <2>1, <2>3 DEF PrepareInFlight
    <2>4. CASE leader_index = i /\ pc = "prep_recv"
      <3>1. tx[i] = <<Req("Prepare", call)>> /\ rx[i] = <<>>
        BY <1>0, <1>3, <2>1, <2>4 DEF PrepareInFlight
      <3>2. Head(tx[i]) = Req("Prepare", call) /\ Tail(tx[i]) = <<>>
        BY <3>1
      <3>3. <<t, v>> \in {<<"Stmt", call>>, <<"Failure", 0>>}
        BY <1>2, <3>2 DEF Req, Arg
      <3>4. <<>> \o Frame(t, v) = Frame(t, v)
        <4>1. Frame(t, v) \in Seq(Unit \cup {Header(t, v)})
          BY FrameFacts
        <4>2. QED
          BY <4>1, ConcatEmptySeq
      <3>5. rx'[i] \in {<<>>, Frame("Stmt", call), Frame("Failure", 0)}
        BY <1>4, <3>1, <3>3, <3>4
      <3>6. QED
        BY <1>4, <2>4, <3>2, <3>5
    <2>5. QED
      BY <2>2, <2>3, <2>4
  <1>8. QED
    BY <1>6, <1>7 DEF QuietProbe

\* A crash drops the requests of one session: a lost probe or Prepare leaves
\* nothing on that session that the discipline forbids.
LEMMA FaultQuiet ==
    ASSUME IInv, QuietProbe, (\E i \in Slots : Crash(i)) \/ ChangeLeader
    PROVE  QuietProbe'
  <1>0. TypeOK /\ OnlyProbeAsksLeader /\ PrepareInFlight
    BY DEF IInv, QuietProbe
  <1>1. CASE ChangeLeader
    <2>1. UNCHANGED <<sessions, caller>>
      BY <1>1 DEF ChangeLeader
    <2>2. QED
      BY <1>0, <2>1 DEF sessions, caller, QuietProbe, OnlyProbeAsksLeader,
         PrepareInFlight
  <1>2. CASE \E i \in Slots : Crash(i)
    <2>1. PICK i \in Slots : Crash(i)
      BY <1>2
    <2>2. /\ UNCHANGED <<rx, caller>>
          /\ tx'[i] = <<>>
          /\ \A j \in Slots \ {i} : tx'[j] = tx[j]
      BY <1>0, <2>1 DEF Crash, TypeOK
    <2>3. OnlyProbeAsksLeader'
      <3>1. SUFFICES ASSUME pc # "exited", NEW j \in Slots
                     PROVE  IF pc \in {"lead_recv", "gl_recv"} /\ j = client_index
                            THEN ProbeInFlight(tx'[j], rx'[j])
                            ELSE LeaderFree(tx'[j]) /\ LeaderFree(rx'[j])
        BY <2>2 DEF OnlyProbeAsksLeader, caller
      <3>2. CASE j # i
        BY <1>0, <2>2, <3>1, <3>2 DEF OnlyProbeAsksLeader
      <3>3. CASE j = i
        <4>1. IF pc \in {"lead_recv", "gl_recv"} /\ j = client_index
              THEN ProbeInFlight(tx[j], rx[j])
              ELSE LeaderFree(tx[j]) /\ LeaderFree(rx[j])
          BY <1>0, <3>1 DEF OnlyProbeAsksLeader
        <4>2. QED
          BY <2>2, <3>3, <4>1, ProbeAfterCrash, FreeEmpty
      <3>4. QED
        BY <3>2, <3>3
    <2>4. PrepareInFlight'
      <3>1. CASE leader_index = i
        BY <1>0, <2>2, <3>1 DEF PrepareInFlight, caller
      <3>2. CASE leader_index # i
        BY <1>0, <2>2, <3>2 DEF PrepareInFlight, caller, TypeOK
      <3>3. QED
        BY <3>1, <3>2
    <2>5. QED
      BY <2>3, <2>4 DEF QuietProbe
  <1>3. QED
    BY <1>1, <1>2

\* An entry point starts from an idle caller, with no Leader anywhere, and
\* none of them begins inside a Prepare of exec or query.
LEMMA StartQuiet ==
    ASSUME IInv, QuietProbe, Start
    PROVE  QuietProbe' /\ ExecStatementIsOwn'
  <1>0. TypeOK /\ OnlyProbeAsksLeader /\ pc = "idle"
    BY DEF IInv, QuietProbe, Start, StartStatement, StartCreate, StartOpen,
       StartAdmin, StartGetLeader, CloseSockets, CanStart
  <1>1. AllQuiet(tx, rx)
    BY <1>0, QuietBefore
  <1>2. CASE CloseSockets
    <2>1. tx' = tx /\ rx' = [j \in Slots |-> <<>>] /\ pc' = "idle"
          /\ op' = "close"
      <3>1. UNCHANGED <<tx, pc>> /\ op' = "close"
        BY <1>2 DEF CloseSockets, Begin
      <3>2. rx' = [j \in Slots |-> <<>>]
        BY <1>2 DEF CloseSockets
      <3>3. QED
        BY <1>0, <3>1, <3>2
    <2>2. AllQuiet(tx', rx')
      BY <1>1, <2>1, FreeEmpty DEF AllQuiet
    <2>3. QED
      BY <2>1, <2>2, QuietAfter DEF QuietProbe, PrepareInFlight,
         ExecStatementIsOwn
  <1>3. CASE ~CloseSockets
    <2>1. UNCHANGED sessions
      BY <1>3 DEF Start, StartStatement, StartCreate, StartOpen, StartAdmin,
         StartGetLeader
    <2>2. \/ pc' \in {"lead_send", "open_send", "adm_send", "gl_send"}
          \/ pc' = "prep_send" /\ op' = "create"
      BY <1>3 DEF Start, StartStatement, StartCreate, StartOpen, StartAdmin,
         StartGetLeader, Begin
    <2>3. AllQuiet(tx', rx')
      BY <1>1, <2>1 DEF sessions, AllQuiet
    <2>4. QED
      BY <2>2, <2>3, QuietAfter DEF QuietProbe, PrepareInFlight,
         ExecStatementIsOwn
  <1>4. QED
    BY <1>2, <1>3

\* A probe's REQUEST2 of Leader on a quiet pool puts the probe in flight on
\* that session alone.
LEMMA ProbeSendQuiet ==
    ASSUME TypeOK, AllQuiet(tx, rx), NEW k \in Slots, Sent(k, Req("Leader", 0)),
           rx' = rx, pc' \in {"lead_recv", "gl_recv"}, client_index' = k
    PROVE  OnlyProbeAsksLeader'
  <1>1. ProbeInFlight(Append(tx[k], Req("Leader", 0)), rx[k])
    BY ProbeAfterSend DEF AllQuiet, TypeOK
  <1>2. tx'[k] = Append(tx[k], Req("Leader", 0))
        /\ \A j \in Slots \ {k} : tx'[j] = tx[j]
    BY DEF Sent, TypeOK
  <1>3. QED
    BY <1>1, <1>2 DEF OnlyProbeAsksLeader, AllQuiet

\* A successful probe read empties the probed session; its reader is the
\* only one that saw a Leader on it.
LEMMA ProbeReadQuiet ==
    ASSUME TypeOK, OnlyProbeAsksLeader, pc \in {"lead_recv", "gl_recv"},
           client_index \in Slots, Got(client_index, "Leader"),
           Consume(client_index, "Leader"), tx' = tx
    PROVE  /\ tx[client_index] = <<>> /\ rx'[client_index] = <<>>
           /\ AllQuiet(tx', rx')
  <1> DEFINE ci == client_index
  <1>1. ProbeInFlight(tx[ci], rx[ci])
    BY DEF OnlyProbeAsksLeader
  <1>2. rx[ci] # <<>> /\ Head(rx[ci]).t = "Leader" /\ rx[ci] \in Seq(Unit)
    BY DEF Got, TypeOK
  <1>3. tx[ci] = <<>> /\ SubSeq(rx[ci], 2 + Head(rx[ci]).w, Len(rx[ci])) = <<>>
    BY <1>1, <1>2, ProbeReadEmpties
  <1>4. rx'[ci] = <<>> /\ \A j \in Slots \ {ci} : rx'[j] = rx[j]
    BY <1>2, <1>3 DEF Consume, Got, TypeOK
  <1>5. \A j \in Slots \ {ci} : LeaderFree(tx[j]) /\ LeaderFree(rx[j])
    BY DEF OnlyProbeAsksLeader
  <1>6. QED
    BY <1>3, <1>4, <1>5, FreeEmpty DEF AllQuiet

\* exec's and get_leader's probes: clientSendLeader, then clientRecvLeader
\* on the same session; exec goes on to Prepare on the session that answered.
LEMMA ProbeStepsQuiet ==
    ASSUME IInv, QuietProbe, LeaderSend \/ GlSend \/ LeaderRecv \/ GlRecv
    PROVE  QuietProbe' /\ ExecStatementIsOwn'
  <1>0. TypeOK /\ ControlOK /\ OnlyProbeAsksLeader
    BY DEF IInv, QuietProbe
  <1>1. CASE LeaderSend \/ GlSend
    <2>1. pc \in {"lead_send", "gl_send"}
      BY <1>1 DEF LeaderSend, GlSend
    <2>2. AllQuiet(tx, rx)
      BY <1>0, <2>1, QuietBefore
    <2>3. client_index \in Slots
      <3>1. CASE LeaderSend
        BY <1>0, <3>1 DEF LeaderSend, ControlOK
      <3>2. CASE GlSend
        BY <1>0, <3>2 DEF GlSend, TypeOK, Slots
      <3>3. QED
        BY <1>1, <3>1, <3>2
    <2>4. CASE \/ LeaderSend /\ CanSend(client_index) /\ pc' = "lead_recv"
               \/ GlSend /\ CanSend(client_index) /\ pc' = "gl_recv"
      <3>1. /\ Sent(client_index, Req("Leader", 0))
            /\ rx' = rx /\ client_index' = client_index
        BY <2>4 DEF LeaderSend, GlSend
      <3>2. OnlyProbeAsksLeader'
        BY <1>0, <2>2, <2>3, <2>4, <3>1, ProbeSendQuiet
      <3>3. QED
        BY <2>4, <3>2 DEF QuietProbe, PrepareInFlight, ExecStatementIsOwn
    <2>5. CASE LeaderSend /\ ~CanSend(client_index)
      <3>1. pc' = "exited"
        BY <2>5 DEF LeaderSend
      <3>2. QED
        BY <3>1, ExitQuiet DEF QuietProbe, PrepareInFlight, ExecStatementIsOwn
    <2>6. CASE GlSend /\ ~CanSend(client_index)
      <3>1. pc' = "gl_send" /\ UNCHANGED <<tx, rx>>
        BY <2>6 DEF GlSend
      <3>2. QED
        BY <2>2, <3>1, QuietAfter DEF QuietProbe, PrepareInFlight,
           ExecStatementIsOwn
    <2>7. QED
      BY <1>1, <2>4, <2>5, <2>6 DEF LeaderSend, GlSend
  <1>2. CASE (LeaderRecv \/ GlRecv) /\ ~Got(client_index, "Leader")
    <2>1. pc' = "exited"
      BY <1>2 DEF LeaderRecv, GlRecv
    <2>2. QED
      BY <2>1, ExitQuiet DEF QuietProbe, PrepareInFlight, ExecStatementIsOwn
  <1>3. CASE (LeaderRecv \/ GlRecv) /\ Got(client_index, "Leader")
    <2>1. /\ pc \in {"lead_recv", "gl_recv"} /\ client_index \in Slots
          /\ Consume(client_index, "Leader") /\ tx' = tx
      BY <1>0, <1>3 DEF LeaderRecv, GlRecv, ControlOK
    <2>2. /\ tx[client_index] = <<>> /\ rx'[client_index] = <<>>
          /\ AllQuiet(tx', rx')
      BY <1>0, <1>3, <2>1, ProbeReadQuiet
    <2>3. CASE LeaderRecv
      <3>1. /\ leader_index' = client_index /\ op' = op
            /\ pc' \in {"idle", "prep_send"}
        BY <1>3, <2>3 DEF LeaderRecv, Return
      <3>2. PrepareInFlight'
        BY <2>1, <2>2, <3>1 DEF PrepareInFlight
      <3>3. QED
        BY <2>2, <3>1, <3>2, QuietAfter DEF QuietProbe, ExecStatementIsOwn
    <2>4. CASE GlRecv
      <3>1. pc' = "idle"
        BY <1>3, <2>4 DEF GlRecv, Return
      <3>2. QED
        BY <2>2, <3>1, QuietAfter DEF QuietProbe, PrepareInFlight,
           ExecStatementIsOwn
    <2>5. QED
      BY <1>3, <2>3, <2>4
  <1>4. QED
    BY <1>1, <1>2, <1>3

\* exec's Prepare: clientSendPrepare on the session the probe chose, then
\* clientRecvStmt, whose id can only be the one this call prepared.
LEMMA PrepareStepsQuiet ==
    ASSUME IInv, QuietProbe, PrepSend \/ PrepRecv
    PROVE  QuietProbe' /\ ExecStatementIsOwn'
  <1>0. TypeOK /\ OnlyProbeAsksLeader /\ PrepareInFlight
    BY DEF IInv, QuietProbe
  <1>1. leader_index \in Slots /\ UNCHANGED <<op, call, leader_index>>
    BY <1>0 DEF TypeOK, PrepSend, PrepRecv
  <1>2. CASE PrepSend
    <2>1. pc = "prep_send" /\ pc' = "prep_recv" /\ rx' = rx
      BY <1>2 DEF PrepSend
    <2>2. AllQuiet(tx, rx)
      BY <1>0, <2>1, QuietBefore
    <2>3. CASE CanSend(leader_index)
      <3>1. Sent(leader_index, Req("Prepare", call))
        BY <1>2, <2>3 DEF PrepSend
      <3>2. AllQuiet(tx', rx')
        BY <1>0, <1>1, <2>1, <2>2, <3>1, SentQuiet DEF Req, TypeOK
      <3>3. PrepareInFlight'
        <4>1. SUFFICES ASSUME op \in {"exec", "query"}
                       PROVE  tx'[leader_index] = <<Req("Prepare", call)>>
                              /\ rx'[leader_index] = <<>>
          BY <1>1, <2>1 DEF PrepareInFlight
        <4>2. tx[leader_index] = <<>> /\ rx[leader_index] = <<>>
          BY <1>0, <2>1, <4>1 DEF PrepareInFlight
        <4>3. QED
          BY <1>0, <1>1, <2>1, <3>1, <4>2 DEF Sent, TypeOK
      <3>4. QED
        BY <2>1, <3>2, <3>3, QuietAfter DEF QuietProbe, ExecStatementIsOwn
    <2>4. CASE ~CanSend(leader_index)
      <3>1. tx' = tx
        BY <1>2, <2>4 DEF PrepSend
      <3>2. PrepareInFlight'
        BY <1>0, <1>1, <2>1, <3>1 DEF PrepareInFlight
      <3>3. QED
        BY <2>1, <2>2, <3>1, <3>2, QuietAfter DEF QuietProbe,
           ExecStatementIsOwn
    <2>5. QED
      BY <2>3, <2>4
  <1>3. CASE PrepRecv
    <2>1. pc = "prep_recv" /\ pc' = "run_send" /\ tx' = tx
          /\ Consume(leader_index, "Stmt")
      BY <1>3 DEF PrepRecv
    <2>2. AllQuiet(tx', rx')
      BY <1>0, <1>1, <2>1, QuietBefore, ConsumeQuiet DEF TypeOK
    <2>3. ExecStatementIsOwn'
      <3>1. SUFFICES ASSUME op \in {"exec", "query"}, 1 \notin errs'
                     PROVE  stmt_id' = call
        BY <1>1, <2>1 DEF ExecStatementIsOwn
      <3>2. Got(leader_index, "Stmt") /\ stmt_id' = GotVal(leader_index)
        BY <1>3, <3>1 DEF PrepRecv
      <3>3. rx[leader_index] \in {<<>>, Frame("Stmt", call), Frame("Failure", 0)}
        BY <1>0, <2>1, <3>1 DEF PrepareInFlight
      <3>4. /\ Frame("Stmt", call)[1] = Header("Stmt", call)
            /\ Frame("Failure", 0)[1] = Header("Failure", 0)
        BY FrameFacts DEF RespTypes
      <3>5. rx[leader_index] = Frame("Stmt", call)
        BY <3>2, <3>3, <3>4 DEF Got, Header
      <3>6. QED
        BY <3>2, <3>4, <3>5 DEF GotVal, Header
    <2>4. QED
      BY <2>1, <2>2, <2>3, QuietAfter DEF QuietProbe, PrepareInFlight
  <1>4. QED
    BY <1>2, <1>3

\* The other steps of the entry points send and read no Leader and end
\* neither inside a probe nor before a Prepare.
LEMMA OtherStepsQuiet ==
    ASSUME IInv, QuietProbe,
           RunSend \/ RunRecv \/ OpenSend \/ OpenRecv \/ AdmSend \/ AdmRecv
           \/ GlDone
    PROVE  QuietProbe' /\ ExecStatementIsOwn'
  <1>0. TypeOK /\ ControlOK /\ OnlyProbeAsksLeader
    BY DEF IInv, QuietProbe
  <1>1. pc \in {"run_send", "run_recv", "open_send", "open_recv", "adm_send",
                "adm_recv", "gl_send"}
    BY DEF RunSend, RunRecv, OpenSend, OpenRecv, AdmSend, AdmRecv, GlDone
  <1>2. AllQuiet(tx, rx)
    BY <1>0, <1>1, QuietBefore
  <1>3. pc' \in {"run_recv", "idle", "open_recv", "exited", "open_send",
                 "adm_recv"}
    BY DEF RunSend, RunRecv, OpenSend, OpenRecv, OpenBackoff, AdmSend,
       AdmRecv, GlDone, Return
  <1>4. pc' = "exited" \/ AllQuiet(tx', rx')
    <2>1. leader_index \in Slots
      BY <1>0 DEF TypeOK
    <2>2. CASE RunSend
      <3>1. CASE CanSend(leader_index)
        <4>1. Sent(leader_index, Req(RunReq(op), stmt_id)) /\ rx' = rx
          BY <2>2, <3>1 DEF RunSend
        <4>2. QED
          BY <1>0, <1>2, <2>1, <4>1, SentQuiet DEF Req, RunReq, TypeOK
      <3>2. CASE ~CanSend(leader_index)
        BY <1>2, <2>2, <3>2 DEF RunSend
      <3>3. QED
        BY <3>1, <3>2
    <2>3. CASE RunRecv \/ AdmRecv
      <3>1. Consume(leader_index, IF RunRecv THEN RunResp(op) ELSE "Empty")
            /\ tx' = tx
        BY <2>3 DEF RunRecv, AdmRecv
      <3>2. QED
        BY <1>0, <1>2, <2>1, <3>1, ConsumeQuiet DEF TypeOK
    <2>4. CASE AdmSend
      <3>1. CASE CanSend(leader_index)
        <4>1. Sent(leader_index, Req(AdmReq(op), 0)) /\ rx' = rx
          BY <2>4, <3>1 DEF AdmSend
        <4>2. QED
          BY <1>0, <1>2, <2>1, <4>1, SentQuiet DEF Req, AdmReq, TypeOK
      <3>2. CASE ~CanSend(leader_index)
        BY <1>2, <2>4, <3>2 DEF AdmSend
      <3>3. QED
        BY <3>1, <3>2
    <2>5. CASE OpenSend
      <3>1. remaining_servers \in Slots
        BY <2>5 DEF OpenSend
      <3>2. CASE CanSend(remaining_servers)
        <4>1. Sent(remaining_servers, Req("Open", 0)) /\ rx' = rx
          BY <2>5, <3>2 DEF OpenSend
        <4>2. QED
          BY <1>0, <1>2, <3>1, <4>1, SentQuiet DEF Req, TypeOK
      <3>3. CASE ~CanSend(remaining_servers)
        BY <2>5, <3>3 DEF OpenSend
      <3>4. QED
        BY <3>2, <3>3
    <2>6. CASE OpenRecv
      <3>1. remaining_servers \in Slots
        BY <1>0, <2>6 DEF OpenRecv, ControlOK
      <3>2. Consume(remaining_servers, "Db") /\ tx' = tx
        BY <2>6 DEF OpenRecv
      <3>3. QED
        BY <1>0, <1>2, <3>1, <3>2, ConsumeQuiet DEF TypeOK
    <2>7. CASE GlDone
      BY <1>2, <2>7 DEF GlDone, sessions
    <2>8. QED
      BY <2>2, <2>3, <2>4, <2>5, <2>6, <2>7
  <1>5. OnlyProbeAsksLeader'
    BY <1>3, <1>4, QuietAfter, ExitQuiet
  <1>6. QED
    BY <1>3, <1>5 DEF QuietProbe, PrepareInFlight, ExecStatementIsOwn

\* The discipline holds from the start: every session is empty.
LEMMA InitSInv == Init => SInv
  <1> SUFFICES ASSUME Init PROVE SInv
    OBVIOUS
  <1>1. IInv
    BY InitIInv
  <1>2. AllQuiet(tx, rx) /\ pc = "idle" /\ op = "none"
    BY FreeEmpty DEF Init, AllQuiet
  <1>3. OnlyProbeAsksLeader
    BY <1>2 DEF OnlyProbeAsksLeader, AllQuiet
  <1>4. QED
    BY <1>1, <1>2, <1>3 DEF SInv, QuietProbe, PrepareInFlight,
       ExecStatementIsOwn

\* The discipline is inductive.
LEMMA NextSInv == SInv /\ [Next]_vars => SInv'
  <1> SUFFICES ASSUME SInv, [Next]_vars PROVE SInv'
    OBVIOUS
  <1>0. IInv /\ QuietProbe /\ ExecStatementIsOwn /\ IInv'
    BY NextIInv DEF SInv
  <1>1. CASE Start
    BY <1>0, <1>1, StartQuiet DEF SInv
  <1>2. CASE Step
    BY <1>0, <1>2, ProbeStepsQuiet, PrepareStepsQuiet, OtherStepsQuiet
       DEF Step, SInv
  <1>3. CASE \E i \in Slots : Serve(i)
    <2>1. PICK i \in Slots : Serve(i)
      BY <1>3
    <2>2. UNCHANGED caller
      BY <1>0, <2>1, ServeShape DEF IInv
    <2>3. QED
      BY <1>0, <2>1, <2>2, ServeQuiet DEF SInv, ExecStatementIsOwn, caller
  <1>4. CASE (\E i \in Slots : Crash(i)) \/ ChangeLeader
    <2>1. UNCHANGED caller
      BY <1>4 DEF Crash, ChangeLeader
    <2>2. QED
      BY <1>0, <1>4, <2>1, FaultQuiet DEF SInv, ExecStatementIsOwn, caller
  <1>5. CASE Terminated \/ UNCHANGED vars
    <2>1. UNCHANGED vars
      BY <1>5 DEF Terminated
    <2>2. QED
      BY <1>0, <2>1 DEF vars, cluster, sessions, caller, SInv, QuietProbe,
         OnlyProbeAsksLeader, PrepareInFlight, ExecStatementIsOwn
  <1>6. QED
    BY <1>1, <1>2, <1>3, <1>4, <1>5 DEF Next

\* exec and raw_query run the statement they prepared: whenever one of them
\* is about to send EXEC/QUERY and clientRecvStmt did not fail, stmt_id is
\* the id the cluster gave this call's Prepare, never a stale or foreign id
\* read from the stream; for every pool size, attempt budget and bound.
THEOREM ExecRunsOwnStatement == Spec => []ExecStatementIsOwn
  <1>1. Init => SInv
    BY InitSInv
  <1>2. SInv /\ [Next]_vars => SInv'
    BY NextSInv
  <1>3. SInv => ExecStatementIsOwn
    BY DEF SInv
  <1>4. QED
    BY <1>1, <1>2, <1>3, PTL DEF Spec

\* The stream discipline itself: outside a leader probe no session holds a
\* Leader request or reply, and while exec's Prepare is in flight its session
\* holds only that Prepare or its answer.
THEOREM StreamDiscipline == Spec => []QuietProbe
  <1>1. SInv => QuietProbe
    BY DEF SInv
  <1>2. QED
    BY <1>1, InitSInv, NextSInv, PTL DEF Spec

\* Only clientRecvLeader's success leaves a probe state without exiting, and
\* it does so on an emptied session.
LEMMA ProbeReadCleanStep == SInv /\ [Next]_vars => ProbeReadClean
  <1> SUFFICES ASSUME SInv, [Next]_vars,
                      pc \in {"lead_recv", "gl_recv"},
                      pc' \notin {"lead_recv", "gl_recv", "exited"}
               PROVE  tx'[client_index] = <<>> /\ rx'[client_index] = <<>>
    BY DEF ProbeReadClean
  <1>0. IInv /\ TypeOK /\ OnlyProbeAsksLeader
    BY DEF SInv, IInv, QuietProbe
  <1>1. ~Start
    BY DEF Start, StartStatement, StartCreate, StartOpen, StartAdmin,
       StartGetLeader, CloseSockets, CanStart
  <1>2. ~(\E i \in Slots : Serve(i))
    BY <1>0, ServeShape DEF caller
  <1>3. ~(\E i \in Slots : Crash(i)) /\ ~ChangeLeader /\ ~Terminated
        /\ ~UNCHANGED vars
    BY DEF Crash, ChangeLeader, Terminated, vars, caller
  <1>4. LeaderRecv \/ GlRecv
    <2>1. Step
      BY <1>1, <1>2, <1>3 DEF Next
    <2>2. QED
      BY <2>1 DEF Step, LeaderSend, PrepSend, PrepRecv, RunSend, RunRecv,
         OpenSend, OpenRecv, AdmSend, AdmRecv, GlSend, GlDone
  <1>5. Got(client_index, "Leader")
    BY <1>4 DEF LeaderRecv, GlRecv
  <1>6. client_index \in Slots /\ Consume(client_index, "Leader") /\ tx' = tx
    BY <1>0, <1>4 DEF LeaderRecv, GlRecv, IInv, ControlOK
  <1>7. QED
    BY <1>0, <1>5, <1>6, ProbeReadQuiet

\* A successful leader probe (clientRecvLeader in exec, raw_query and
\* get_leader) always returns on a session with nothing of the driver's
\* pending and nothing unread, for every pool size and bound: the next read
\* on that session starts at the frame of a request made after it.
THEOREM ProbeReadsClean == Spec => ProbeReadIsClean
  <1>1. SInv /\ [Next]_vars => ProbeReadClean
    BY ProbeReadCleanStep
  <1>2. QED
    BY <1>1, InitSInv, NextSInv, PTL DEF Spec, ProbeReadIsClean

=============================================================================
