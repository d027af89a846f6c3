---------------------------- MODULE LldOpenProofs ----------------------------
(***************************************************************************)
(* Proofs about LldOpen: connect_socket's copy loop leaves exactly the     *)
(* host part of the url in str_address, for every url.                     *)
(***************************************************************************)
EXTENDS LldOpen, SequenceTheorems, TLAPS

USE OpenAssumption, CStringAssumption

\* The calloc'd buffer with the first k characters of the url copied.
Copied(k) == [i \in 0 .. Len(raw_str_address) - 1 |->
                IF i < k THEN raw_str_address[i + 1] ELSE NUL]

\* None of the first k characters of the url is ':'.
ColonFree(k) == \A j \in 1 .. k : raw_str_address[j] # ":"

\* The loop invariant of connect_socket's copy loop: before it and inside
\* it, str_address holds the characters copied so far, none of them ':';
\* after it, the host part.
CopyInv ==
    /\ raw_str_address \in Urls
    /\ pc \in {"ips_loop", "copy", "socket", "connect", "done", "crashed"}
    /\ pc \in {"ips_loop", "copy"} =>
          /\ char_index \in 0 .. Len(raw_str_address)
          /\ ColonFree(char_index) /\ str_address = Copied(char_index)
    /\ pc = "ips_loop" => char_index = 0
    /\ HostCopied

-----------------------------------------------------------------------------
(* Lemmas on urls and on their host part.                                  *)

\* A url is a sequence of non-NUL characters.
LEMMA UrlFacts ==
    ASSUME NEW u \in Urls
    PROVE  /\ u \in Seq(Range(u)) /\ Len(u) \in Nat
           /\ DOMAIN u = 1 .. Len(u)
           /\ \A i \in 1 .. Len(u) : u[i] # NUL
  <1>1. u \in Seq(Range(u)) /\ \A i \in 1 .. Len(u) : u[i] # NUL
    OBVIOUS
  <1>2. QED
    BY <1>1, LenProperties

\* The least element of a set of integers is the one below all the others.
LEMMA MinIs ==
    ASSUME NEW S \in SUBSET Int, NEW m \in S, \A y \in S : m <= y
    PROVE  Min(S) = m
  <1>1. \E x \in S : \A y \in S : x <= y
    OBVIOUS
  <1>2. Min(S) \in S /\ \A y \in S : Min(S) <= y
    BY <1>1 DEF Min
  <1>3. Min(S) <= m /\ m <= Min(S) /\ Min(S) \in Int /\ m \in Int
    BY <1>2
  <1>4. QED
    BY ONLY <1>3

\* With a ':' at position k + 1 and none before, the host part is the first
\* k characters.
LEMMA HostPartColon ==
    ASSUME NEW u \in Urls, NEW k \in 0 .. Len(u) - 1, u[k + 1] = ":",
           \A j \in 1 .. k : u[j] # ":"
    PROVE  HostPart(u) = SubSeq(u, 1, k)
  <1>1. Len(u) \in Nat
    BY UrlFacts
  <1>2. Min({i \in 1 .. Len(u) : u[i] = ":"}) = k + 1
    <2>1. /\ k + 1 \in {i \in 1 .. Len(u) : u[i] = ":"}
          /\ \A y \in {i \in 1 .. Len(u) : u[i] = ":"} : k + 1 <= y
      BY <1>1
    <2>2. {i \in 1 .. Len(u) : u[i] = ":"} \in SUBSET Int
      BY <1>1
    <2>3. QED
      BY <2>1, <2>2, MinIs
  <1>3. {i \in 1 .. Len(u) : u[i] = ":"} # {}
    BY <1>1
  <1>4. HostPart(u) = SubSeq(u, 1, Min({i \in 1 .. Len(u) : u[i] = ":"}) - 1)
    BY <1>3 DEF HostPart
  <1>5. QED
    <2>1. (k + 1) - 1 = k
      OBVIOUS
    <2>2. QED
      BY <1>2, <1>4, <2>1

\* With no ':' at all, the host part is the whole url.
LEMMA HostPartWhole ==
    ASSUME NEW u \in Urls, \A j \in 1 .. Len(u) : u[j] # ":"
    PROVE  HostPart(u) = u
  BY DEF HostPart

-----------------------------------------------------------------------------
(* The copy loop.                                                          *)

\* When the loop stops, at a ':' or at the terminating NUL, the characters
\* copied so far are the host part.
LEMMA StopIsHost ==
    ASSUME CopyInv, pc = "copy",
           LET c == CharAt(raw_str_address, char_index)
           IN  c = ":" \/ c = NUL \/ char_index > Len(raw_str_address)
    PROVE  str_address = HostBuffer(raw_str_address)
  <1> DEFINE u == raw_str_address
  <1>0. /\ u \in Urls /\ Len(u) \in Nat /\ u \in Seq(Range(u))
        /\ \A i \in 1 .. Len(u) : u[i] # NUL
        /\ char_index \in 0 .. Len(u) /\ ColonFree(char_index)
        /\ str_address = Copied(char_index)
    BY UrlFacts DEF CopyInv
  <1>1. DOMAIN str_address = 0 .. Len(u) - 1
    BY <1>0 DEF Copied
  <1>2. CASE char_index < Len(u)
    <2>1. u[char_index + 1] = ":"
      BY <1>0, <1>2 DEF CharAt
    <2>2. HostPart(u) = SubSeq(u, 1, char_index)
      BY <1>0, <1>2, <2>1, HostPartColon DEF ColonFree
    <2>3. /\ Len(SubSeq(u, 1, char_index)) = char_index
          /\ \A i \in 0 .. char_index - 1 : SubSeq(u, 1, char_index)[i + 1] = u[i + 1]
      <3>1. \A i \in 1 .. char_index : u[i] \in Range(u)
        BY <1>0, <1>2, ElementOfSeq
      <3>2. QED
        BY <1>0, <1>2, <3>1, SubSeqProperties
    <2>4. QED
      BY <1>0, <1>1, <2>2, <2>3 DEF CharAt, Copied, HostBuffer
  <1>3. CASE char_index = Len(u)
    <2>1. HostPart(u) = u
      BY <1>0, <1>3, HostPartWhole DEF ColonFree
    <2>2. QED
      BY <1>0, <1>1, <1>3, <2>1 DEF CharAt, Copied, HostBuffer
  <1>4. QED
    BY <1>0, <1>2, <1>3

\* One turn of the loop keeps the invariant.
LEMMA CopyStepInv ==
    ASSUME CopyInv, CopyStep
    PROVE  CopyInv'
  <1> DEFINE u == raw_str_address
             c == CharAt(raw_str_address, char_index)
  <1>0. /\ u \in Urls /\ Len(u) \in Nat /\ u \in Seq(Range(u))
        /\ \A i \in 1 .. Len(u) : u[i] # NUL
        /\ pc = "copy" /\ char_index \in 0 .. Len(u)
        /\ ColonFree(char_index) /\ str_address = Copied(char_index)
        /\ UNCHANGED raw_str_address /\ char_index' = char_index + 1
    BY UrlFacts DEF CopyInv, CopyStep
  <1>1. CASE c = ":" \/ c = NUL \/ char_index > Len(u)
    <2>1. pc' = "socket" /\ UNCHANGED str_address
      BY <1>0, <1>1 DEF CopyStep
    <2>2. str_address = HostBuffer(u)
      BY <1>0, <1>1, StopIsHost
    <2>3. QED
      BY <1>0, <2>1, <2>2 DEF CopyInv, HostCopied
  <1>2. CASE ~(c = ":" \/ c = NUL \/ char_index > Len(u))
    <2>1. char_index < Len(u) /\ c = u[char_index + 1]
      BY <1>0, <1>2 DEF CharAt
    <2>2. pc' = "copy" /\ str_address' = [str_address EXCEPT ![char_index] = c]
      BY <1>0, <1>2 DEF CopyStep
    <2>3. str_address' = Copied(char_index + 1)
      BY <1>0, <2>1, <2>2 DEF Copied
    <2>4. ColonFree(char_index + 1)
      BY <1>0, <1>2, <2>1 DEF ColonFree
    <2>5. QED
      BY <1>0, <2>1, <2>2, <2>3, <2>4 DEF CopyInv, HostCopied, Copied,
         ColonFree
  <1>3. QED
    BY <1>1, <1>2

\* Before the loop the buffer is all NUL, as calloc leaves it.
LEMMA InitCopyInv == Init => CopyInv
  <1> SUFFICES ASSUME Init PROVE CopyInv
    OBVIOUS
  <1>1. str_address = Copied(0)
    BY DEF Init, Copied, Calloc
  <1>2. QED
    BY <1>1, UrlFacts DEF Init, CopyInv, ColonFree, HostCopied

\* Every step of sqlite3_open_v2 keeps the invariant: init_ips and the
\* dial leave the buffer alone.
LEMMA NextCopyInv == CopyInv /\ [Next]_vars => CopyInv'
  <1> SUFFICES ASSUME CopyInv, [Next]_vars PROVE CopyInv'
    OBVIOUS
  <1>1. CASE IpsLoop
    <2>1. /\ pc = "ips_loop" /\ pc' \in {"ips_loop", "copy", "crashed"}
          /\ UNCHANGED <<raw_str_address, char_index, str_address>>
      BY <1>1 DEF IpsLoop
    <2>2. QED
      BY <2>1 DEF CopyInv, ColonFree, Copied, HostCopied
  <1>2. CASE CopyStep
    BY <1>2, CopyStepInv
  <1>3. CASE OpenSocket \/ Connect
    <2>1. /\ pc \in {"socket", "connect"} /\ pc' \in {"connect", "done"}
          /\ UNCHANGED <<raw_str_address, char_index, str_address>>
      BY <1>3 DEF OpenSocket, Connect
    <2>2. QED
      BY <2>1 DEF CopyInv, HostCopied
  <1>4. CASE Finished \/ UNCHANGED vars
    <2>1. UNCHANGED vars
      BY <1>4 DEF Finished
    <2>2. QED
      BY <2>1 DEF vars, CopyInv, ColonFree, Copied, HostCopied
  <1>5. QED
    BY <1>1, <1>2, <1>3, <1>4 DEF Next

\* connect_socket copies exactly the host part of the url: once its copy
\* loop has stopped, at the first ':' or at the end of the string, the
\* buffer holds the characters before the port and NUL after them, for
\* every url and every address file.
THEOREM HostCopiedAlways == Spec => []HostCopied
  <1>1. CopyInv => HostCopied
    BY DEF CopyInv
  <1>2. QED
    BY <1>1, InitCopyInv, NextCopyInv, PTL DEF Spec

-----------------------------------------------------------------------------
(* Refinement of LldDial: the copy loop is a dial in one step.             *)

\* Before the copy loop has written anything, the buffer is calloc's.
LEMMA CopiedNone == raw_str_address \in Urls => Copied(0) = Calloc(raw_str_address)
  BY DEF Copied, Calloc

\* LldDial's buffer of the host part is LldOpen's.
LEMMA SameHostBuffer ==
    ASSUME NEW u
    PROVE  Dial!HostBuffer(u) = HostBuffer(u)
  BY DEF HostBuffer, Dial!HostBuffer, CharAt, Dial!CharAt, HostPart,
     Dial!HostPart, Min, Dial!Min

\* Under the mapping every step of sqlite3_open_v2 is a step of the dial or
\* leaves it as it was: init_ips and the turns of the copy loop that copy a
\* character stutter, fgets(NULL) is Abort, the turn that stops is CopyHost,
\* and socket() and connect() are themselves.
LEMMA DialStep == CopyInv /\ [Next]_vars => [Dial!Next]_Dial!dvars
  <1> SUFFICES ASSUME CopyInv, [Next]_vars PROVE [Dial!Next]_Dial!dvars
    OBVIOUS
  <1>0. CopyInv'
    BY NextCopyInv
  <1>1. CASE IpsLoop
    <2>1. /\ pc = "ips_loop" /\ pc' \in {"ips_loop", "copy", "crashed"}
          /\ UNCHANGED <<raw_str_address, str_address, fd, res>>
      BY <1>1 DEF IpsLoop
    <2>2. CASE pc' \in {"ips_loop", "copy"}
      BY <2>1, <2>2 DEF Dial!dvars, DialPc, DialAddress
    <2>3. CASE pc' = "crashed"
      <3>1. str_address = Calloc(raw_str_address)
        BY <2>1, CopiedNone DEF CopyInv
      <3>2. Dial!Abort
        BY <2>1, <2>3, <3>1 DEF Dial!Abort, DialPc, DialAddress
      <3>3. QED
        BY <3>2 DEF Dial!Next
    <2>4. QED
      BY <2>1, <2>2, <2>3
  <1>2. CASE CopyStep
    <2> DEFINE c == CharAt(raw_str_address, char_index)
    <2>1. pc = "copy" /\ UNCHANGED <<raw_str_address, fd, res>>
      BY <1>2 DEF CopyStep
    <2>2. CASE c = ":" \/ c = NUL \/ char_index > Len(raw_str_address)
      <3>1. pc' = "socket" /\ UNCHANGED str_address
        BY <1>2, <2>2 DEF CopyStep
      <3>2. str_address' = HostBuffer(raw_str_address)
        BY <1>0, <2>1, <3>1 DEF CopyInv, HostCopied
      <3>3. Dial!HostBuffer(raw_str_address) = HostBuffer(raw_str_address)
        BY SameHostBuffer
      <3>4. Dial!CopyHost
        BY <2>1, <3>1, <3>2, <3>3 DEF Dial!CopyHost, DialPc, DialAddress
      <3>5. QED
        BY <3>4 DEF Dial!Next
    <2>3. CASE ~(c = ":" \/ c = NUL \/ char_index > Len(raw_str_address))
      <3>1. pc' = "copy"
        BY <1>2, <2>3 DEF CopyStep
      <3>2. QED
        BY <2>1, <3>1 DEF Dial!dvars, DialPc, DialAddress
    <2>4. QED
      BY <2>2, <2>3
  <1>3. CASE OpenSocket
    <2>1. /\ pc = "socket" /\ pc' \in {"connect", "done"}
          /\ UNCHANGED <<raw_str_address, str_address>>
      BY <1>3 DEF OpenSocket
    <2>2. Dial!OpenSocket
      BY <1>3, <2>1 DEF OpenSocket, Dial!OpenSocket, DialPc, DialAddress
    <2>3. QED
      BY <2>2 DEF Dial!Next
  <1>4. CASE Connect
    <2>1. Dial!Connect
      BY <1>4 DEF Connect, Dial!Connect, DialPc, DialAddress
    <2>2. QED
      BY <2>1 DEF Dial!Next
  <1>5. CASE Finished \/ UNCHANGED vars
    <2>1. UNCHANGED vars
      BY <1>5 DEF Finished
    <2>2. QED
      BY <2>1 DEF vars, Dial!dvars, DialPc, DialAddress
  <1>6. QED
    BY <1>1, <1>2, <1>3, <1>4, <1>5 DEF Next

\* sqlite3_open_v2 implements connect_socket's promise: every behaviour of
\* init_ips and the character-by-character copy loop, seen through the
\* mapping, is a behaviour of LldDial, where the buffer receives the host
\* part of the url in one step before socket() and connect(); for every url,
\* address file and buffer size.
THEOREM RefinesDial == Spec => Dial!Safety
  <1>1. Init => Dial!Init
    BY DEF Init, Dial!Init, DialPc, DialAddress, Calloc, Dial!Calloc
  <1>2. QED
    BY <1>1, DialStep, InitCopyInv, NextCopyInv, PTL
       DEF Spec, Dial!Safety

=============================================================================
