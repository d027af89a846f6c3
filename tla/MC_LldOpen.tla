------------------------------ MODULE MC_LldOpen ------------------------------
(* Address files and urls for LldOpen, with the buffer sizes of net.c.     *)
EXTENDS LldOpen

MC_MaxServers == 32     \* MAXSERVERS
MC_MaxLineSize == 32    \* MAXLINESIZE

\* k lines "h\n".
Hosts(k) == [i \in 1 .. 2 * k |-> IF i % 2 = 1 THEN "h" ELSE NL]
\* One line of k host characters, with or without its newline.
LongLine(k, nl) == [i \in 1 .. k |-> "h"] \o (IF nl THEN <<NL>> ELSE <<>>)

\* An empty file, one line, two lines, a last line without newline, a
\* line of exactly MAXLINESIZE - 1 characters and one that is longer.
MC_Files == {<<>>, Hosts(1), Hosts(2), <<"h", NL, "h">>,
             LongLine(MC_MaxLineSize - 1, FALSE), LongLine(MC_MaxLineSize, TRUE)}
\* Host only, host:port, a port only, the empty string.
MC_Urls == {<<"h", "h">>, <<"h", ":", "p">>, <<":", "p">>, <<>>}
\* Address files of MAXSERVERS lines and of one more.
MC_ManyLineFiles == {Hosts(MC_MaxServers), Hosts(MC_MaxServers + 1)}
\* One host:port url.
MC_OneUrl == {<<"h", ":", "p">>}
MC_PortUrls == {<<"h", ":", "p">>, <<"h", "h", ":", "p", "p">>}
=============================================================================
