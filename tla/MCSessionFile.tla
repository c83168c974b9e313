--------------------------- MODULE MCSessionFile ---------------------------
(***************************************************************************)
(* SessionFile for TLC: two processes with commands whose arguments are    *)
(* hard on the encoding, and the encoding itself on all short texts.       *)
(***************************************************************************)
EXTENDS SessionFile, TLC

CONSTANT MaxLen     \* bound on the length of those texts

Texts == UNION {[1 .. n -> Char] : n \in 0 .. MaxLen}

\* A value survives encoding and decoding, and takes one line of the file.
ASSUME RoundTrip == \A v \in Texts :
    LET e == opty_escape_session_value(v)
    IN  /\ opty_decode_session_value(opty_chomp(e)) = v
        /\ opty_decode_graceful_input(opty_chomp(e)) = v
        /\ Printed(e) = e

MCArgv == {<<v>> : v \in {<<"BS", "n">>, <<"LF", "CR">>, <<"BS">>, <<"CR">>, <<"BS", "BS">>}}
          \cup {<<<<"a">>, v>> : v \in {<<"BS", "TAB", "t">>, << >>}}
MCCwd == {<<"a", "BS", "n">>, << >>}
MCInput == {<<"BS", "LF">>}
Symmetry == Permutations(Pid)
=============================================================================
