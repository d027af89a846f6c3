------------------------------- MODULE LldDial -------------------------------
(***************************************************************************)
(* What connect_socket (src/lib/c_client.c) promises sqlite3_open_v2: in   *)
(* one step the calloc'd buffer receives the host part of the url, then a  *)
(* socket is made (its failure returns 1) and connected (connect's result  *)
(* is returned).  The process may die first, in init_ips.  LldOpen's      *)
(* character-by-character copy loop is shown to implement this.           *)
(***************************************************************************)
EXTENDS LldStrings

CONSTANT Urls   \* url strings passed to sqlite3_open_v2

VARIABLES raw_str_address, str_address, fd, res, pc

dvars == <<raw_str_address, str_address, fd, res, pc>>

Init ==
    /\ raw_str_address \in Urls /\ str_address = Calloc(raw_str_address)
    /\ fd = "none" /\ res = 0 /\ pc = "dial"

\* The process dies before it dials (init_ips on a missing address file).
Abort ==
    /\ pc = "dial" /\ pc' = "crashed"
    /\ UNCHANGED <<raw_str_address, str_address, fd, res>>

\* The host part of the url is put in the buffer, port and all after it
\* dropped.
CopyHost ==
    /\ pc = "dial" /\ pc' = "socket"
    /\ str_address' = HostBuffer(raw_str_address)
    /\ UNCHANGED <<raw_str_address, fd, res>>

\* socket(): a descriptor, or return 1.
OpenSocket ==
    /\ pc = "socket"
    /\ \/ fd' = "open" /\ pc' = "connect" /\ UNCHANGED res
       \/ res' = 1 /\ pc' = "done" /\ UNCHANGED fd
    /\ UNCHANGED <<raw_str_address, str_address>>

\* connect(): its result is returned.
Connect ==
    /\ pc = "connect"
    /\ res' \in {0, -1} /\ pc' = "done"
    /\ UNCHANGED <<raw_str_address, str_address, fd>>

Next == Abort \/ CopyHost \/ OpenSocket \/ Connect

\* The safety part, proved to be implemented; Spec adds that the dial is
\* carried through, which only TLC checks.
Safety == Init /\ [][Next]_dvars

Spec == Safety /\ WF_dvars(Next)

=============================================================================
