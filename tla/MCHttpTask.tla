----------------------------- MODULE MCHttpTask -----------------------------
(* Small instances of HttpTask for TLC. *)
EXTENDS HttpTask

(* "/a%" is a file of two pieces and a rest, "/b" one of two pieces, "/e"  *)
(* an empty one, "/+ " one that cannot be opened; "/" is the directory,    *)
(* whose listing is one piece, and "/d" one whose listing is longer; the   *)
(* status of "/x" cannot be read.                                          *)
Files7 == {[name |-> <<47, 120>>, kind |-> "NOSTAT", len |-> 0],
           [name |-> <<47, 97, 37>>, kind |-> "FILE", len |-> 7],
           [name |-> <<47, 98>>, kind |-> "FILE", len |-> 6],
           [name |-> <<47, 43, 32>>, kind |-> "NOOPEN", len |-> 0],
           [name |-> <<47>>, kind |-> "DIR", len |-> 3],
           [name |-> <<47, 100>>, kind |-> "DIR", len |-> 4],
           [name |-> <<47, 101>>, kind |-> "FILE", len |-> 0]}

(* The files, a path that does not exist, one with two dots, and a         *)
(* malformed request.                                                      *)
Requests10 == {[name |-> f.name, bad |-> FALSE] : f \in Files7}
              \cup {[name |-> <<47, 200>>, bad |-> FALSE],
                    [name |-> <<47, 46, 46>>, bad |-> FALSE],
                    [name |-> <<47, 97>>, bad |-> TRUE]}

(* The hypothesis of the proofs, for the requests of the runs and for every *)
(* name of up to two bytes that a URL can hold.                             *)
ASSUME LinksDecodeHere == LinksDecode
ASSUME ShortNamesDecode ==
    \A a, b \in 16 .. 255 : decode(encode(<<a>>)) = <<a>> /\ decode(encode(<<a, b>>)) = <<a, b>>

OneRequest == {[name |-> <<47, 97, 37>>, bad |-> FALSE]}
=============================================================================
