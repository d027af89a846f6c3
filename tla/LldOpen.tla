------------------------------- MODULE LldOpen -------------------------------
(***************************************************************************)
(* sqlite3_open_v2 (src/lib/tmp/sqlite3_if.c): init_ips reads the address  *)
(* file line by line with fgets (src/lib/net.c), then connect_socket       *)
(* copies the host part of the url into a fresh buffer and dials it        *)
(* (src/lib/c_client.c).  The properties are about the string handling,    *)
(* so strings are sequences of characters over a small alphabet; a C       *)
(* string's terminating NUL is implicit past its end.                      *)
(***************************************************************************)
EXTENDS Integers, SequencesExt, LldStrings

CONSTANTS
    MaxServers,   \* MAXSERVERS: entries allocated for ips
    MaxLineSize,  \* MAXLINESIZE: size of the fgets buffer
    Files,        \* contents of ips.csv the process may start with
    NoFile,       \* ips.csv does not exist: fopen returns NULL
    Urls,         \* url strings passed to sqlite3_open_v2
    NL            \* the character '\n'

ASSUME OpenAssumption ==
    /\ MaxServers \in Nat \ {0} /\ MaxLineSize \in Nat \ {0, 1}
    /\ NoFile \notin Files

\* A url is a C string: a sequence of characters with no NUL before the one
\* that terminates it, and NUL is not ':'.
ASSUME CStringAssumption ==
    /\ NUL # ":"
    /\ \A u \in Urls : u \in Seq(Range(u)) /\ \A i \in 1 .. Len(u) : u[i] # NUL

VARIABLES
    file, fp,                        \* ips.csv and the read position
    line, n, lines_cnt, ips, n_servers,
    raw_str_address, char_index, str_address,
    fd, res, pc

vars == <<file, fp, line, n, lines_cnt, ips, n_servers, raw_str_address,
          char_index, str_address, fd, res, pc>>

\* The characters fgets(line, MaxLineSize, fp) reads from position p: up to
\* and including the next newline, at most MaxLineSize - 1 of them.
FgetsChunk(f, p) ==
    LET rest == SubSeq(f, p + 1, Len(f))
        nls  == {i \in 1 .. Len(rest) : rest[i] = NL}
        upto == IF nls = {} THEN Len(rest) ELSE Min(nls)
    IN  SubSeq(rest, 1, Min({upto, MaxLineSize - 1}))

Init ==
    /\ file \in Files \cup {NoFile} /\ fp = 0
    /\ line = <<>>                  \* malloc'd, not read before fgets
    /\ n = 1 /\ lines_cnt = 0 /\ ips = <<>> /\ n_servers = 0
    /\ raw_str_address \in Urls
    /\ char_index = 0
    /\ str_address = Calloc(raw_str_address)
    /\ fd = "none" /\ res = 0
    /\ pc = "ips_loop"

\* Mutant of IpsLoop: the loop condition written with && for ||.
IpsLoopAnd ==
    /\ pc = "ips_loop"
    /\ \/ file = NoFile /\ pc' = "crashed"
          /\ UNCHANGED <<fp, line, n, lines_cnt, ips, n_servers>>
       \/ /\ file # NoFile
          /\ LET got == fp < Len(file)
                 buf == IF got THEN FgetsChunk(file, fp) ELSE line
             IN  /\ line' = buf
                 /\ fp' = IF got THEN fp + Len(buf) ELSE fp
                 /\ IF got /\ n = 0
                       THEN /\ ips' = Append(ips, buf)
                            /\ lines_cnt' = lines_cnt + 1 /\ n' = n - 1
                            /\ UNCHANGED <<n_servers, pc>>
                       ELSE /\ n_servers' = lines_cnt /\ pc' = "copy"
                            /\ UNCHANGED <<ips, lines_cnt, n>>
    /\ UNCHANGED <<file, raw_str_address, char_index, str_address, fd, res>>

\* One turn of while (fgets(line, MAXLINESIZE, fp) || n == 0): fgets
\* returns NULL at end of file and leaves line as it was; the body copies
\* line into ips[lines_cnt] (past MAXSERVERS entries as well) and counts
\* n down.  fgets on the NULL of a failed fopen crashes the process.
IpsLoop ==
    /\ pc = "ips_loop"
    /\ \/ file = NoFile /\ pc' = "crashed"
          /\ UNCHANGED <<fp, line, n, lines_cnt, ips, n_servers>>
       \/ /\ file # NoFile
          /\ LET got == fp < Len(file)
                 buf == IF got THEN FgetsChunk(file, fp) ELSE line
             IN  /\ line' = buf
                 /\ fp' = IF got THEN fp + Len(buf) ELSE fp
                 /\ IF got \/ n = 0
                       THEN /\ ips' = Append(ips, buf)
                            /\ lines_cnt' = lines_cnt + 1 /\ n' = n - 1
                            /\ UNCHANGED <<n_servers, pc>>
                       ELSE /\ n_servers' = lines_cnt /\ pc' = "copy"
                            /\ UNCHANGED <<ips, lines_cnt, n>>
    /\ UNCHANGED <<file, raw_str_address, char_index, str_address, fd, res>>

\* Mutant of CopyStep: the port is copied too (no test for ':').
CopyStepKeepsPort ==
    /\ pc = "copy"
    /\ LET c == CharAt(raw_str_address, char_index)
       IN  IF c = NUL \/ char_index > Len(raw_str_address)
              THEN pc' = "socket" /\ UNCHANGED str_address
              ELSE str_address' = [str_address EXCEPT ![char_index] = c]
                   /\ UNCHANGED pc
    /\ char_index' = char_index + 1
    /\ UNCHANGED <<file, fp, line, n, lines_cnt, ips, n_servers,
                   raw_str_address, fd, res>>

\* One turn of connect_socket's copy loop: stop at ':' (the port is
\* ignored), at the terminating NUL or past raw_str_size; otherwise copy
\* the character.
CopyStep ==
    /\ pc = "copy"
    /\ LET c == CharAt(raw_str_address, char_index)
       IN  IF c = ":" \/ c = NUL \/ char_index > Len(raw_str_address)
              THEN pc' = "socket" /\ UNCHANGED str_address
              ELSE str_address' = [str_address EXCEPT ![char_index] = c]
                   /\ UNCHANGED pc
    /\ char_index' = char_index + 1
    /\ UNCHANGED <<file, fp, line, n, lines_cnt, ips, n_servers,
                   raw_str_address, fd, res>>

\* Mutant of OpenSocket: the error is printed but the return is missing,
\* so connect() runs on the failed descriptor.
OpenSocketNoReturn ==
    /\ pc = "socket"
    /\ \/ fd' = "open" /\ pc' = "connect" /\ UNCHANGED res
       \/ res' = 1 /\ pc' = "connect" /\ UNCHANGED fd
    /\ UNCHANGED <<file, fp, line, n, lines_cnt, ips, n_servers,
                   raw_str_address, char_index, str_address>>

\* socket(AF_INET, SOCK_STREAM, 0): on failure connect_socket returns 1.
OpenSocket ==
    /\ pc = "socket"
    /\ \/ fd' = "open" /\ pc' = "connect" /\ UNCHANGED res
       \/ res' = 1 /\ pc' = "done" /\ UNCHANGED fd
    /\ UNCHANGED <<file, fp, line, n, lines_cnt, ips, n_servers,
                   raw_str_address, char_index, str_address>>

\* inet_addr(str_address), then connect(): its result is returned, and on
\* failure the descriptor is left open.
Connect ==
    /\ pc = "connect"
    /\ res' \in {0, -1} /\ pc' = "done"
    /\ UNCHANGED <<file, fp, line, n, lines_cnt, ips, n_servers,
                   raw_str_address, char_index, str_address, fd>>

\* sqlite3_open_v2 has returned, or the process crashed.
Finished == pc \in {"done", "crashed"} /\ UNCHANGED vars

Next == IpsLoop \/ CopyStep \/ OpenSocket \/ Connect \/ Finished

Spec == Init /\ [][Next]_vars /\ WF_vars(Next)
-----------------------------------------------------------------------------
(* Reference definitions and properties.                                   *)

LoopDone == pc \in {"copy", "socket", "connect", "done"}

\* Once connect_socket's copy loop is over, str_address holds exactly the
\* host part of the url, the rest of the calloc'd buffer still zero.
HostCopied ==
    pc \in {"socket", "connect", "done"} =>
        str_address = HostBuffer(raw_str_address)

\* init_ips loses nothing of the address file: the entries it stores,
\* read back in order, start with the whole file (a line longer than the
\* fgets buffer is split, not truncated).
IpsCoverFile ==
    LoopDone => IsPrefix(file, FlattenSeq(ips))

\* init_ips stores each entry in ips[lines_cnt] inside the MAXSERVERS
\* pointers net.c:26 allocated: the loop has no bound of its own, so an
\* address file of more entries writes past the array.
IpsInArray == Len(ips) <= MaxServers

\* The host string handed to inet_addr is NUL-terminated inside the buffer
\* connect_socket allocated for it.
HostTerminated ==
    pc = "connect" => \E i \in DOMAIN str_address : str_address[i] = NUL

-----------------------------------------------------------------------------
(* Refinement: the copy loop implements connect_socket's one-step dial.    *)

\* init_ips and the copy loop are all "before the dial"; until the loop has
\* stopped, the dial's buffer is still the calloc'd one.
DialPc == IF pc \in {"ips_loop", "copy"} THEN "dial" ELSE pc
DialAddress ==
    IF pc \in {"ips_loop", "copy"} THEN Calloc(raw_str_address) ELSE str_address

Dial == INSTANCE LldDial WITH str_address <- DialAddress, pc <- DialPc

\* sqlite3_open_v2 behaves as connect_socket promises: under the mapping
\* every step of init_ips and of the copy loop is a stutter or the one step
\* that fills the buffer with the host part, socket() failing returns 1,
\* connect's result is returned, and the dial is carried through.
ImplementsDial == Dial!Spec

=============================================================================
