------------------------------ MODULE LldStrings ------------------------------
(***************************************************************************)
(* C strings as the driver handles them in connect_socket                  *)
(* (src/lib/c_client.c): a sequence of characters, the terminating NUL     *)
(* implicit past its end, indexed from 0.                                  *)
(***************************************************************************)
EXTENDS Integers, SequencesExt

CONSTANT NUL   \* the character '\0'

\* s[i], 0-based, with the NUL that terminates a C string.
CharAt(s, i) == IF i < Len(s) THEN s[i + 1] ELSE NUL

\* calloc(sizeof(char), strlen(s)): a buffer of Len(s) zero bytes.
Calloc(s) == [i \in 0 .. Len(s) - 1 |-> NUL]

\* The host part of an address: the characters before the first ':'.
HostPart(s) ==
    LET colons == {i \in 1 .. Len(s) : s[i] = ":"}
    IN  IF colons = {} THEN s ELSE SubSeq(s, 1, Min(colons) - 1)

\* A buffer of Len(s) bytes holding the host part of s, NUL after it.
HostBuffer(s) == [i \in 0 .. Len(s) - 1 |-> CharAt(HostPart(s), i)]

=============================================================================
