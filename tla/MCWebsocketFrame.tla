-------------------------- MODULE MCWebsocketFrame --------------------------
(* A small instance of WebsocketFrame for TLC: bytes of three bits, so     *)
(* that the length forms change at 1|2 and at 63|64.                       *)
EXTENDS WebsocketFrame, Bitwise

BitXor(a, b) == a ^^ b

Payload(n) == [i \in 1 .. n |-> (3 * i + n) % Base]
Key == <<5, 2, 7, 1>>

Honest(op, form, mask, n) ==
    [op |-> op, form |-> form, mask |-> mask, key |-> Key, payload |-> Payload(n), claim |-> n]
Liar(mask, claim) ==
    [op |-> 1, form |-> LongDigits, mask |-> mask, key |-> Key, payload |-> Payload(2),
     claim |-> claim]

(* Every form of the length, masked and not, on both sides of every        *)
(* boundary; frames without payload; frames of other types; and lengths    *)
(* that are never met, among them some whose sum with the index wraps.     *)
Frames15 ==
    {Honest(1, 0, TRUE, 1), Honest(2, 0, FALSE, 1), Honest(1, ShortDigits, TRUE, 2),
     Honest(1, ShortDigits, FALSE, 6), Honest(1, LongDigits, FALSE, 3),
     Honest(1, ShortDigits, TRUE, 63), Honest(2, LongDigits, TRUE, 64),
     Honest(1, 0, TRUE, 0), Honest(1, LongDigits, FALSE, 0),
     Honest(0, 0, TRUE, 1), Honest(3, 0, FALSE, 0)}
    \cup {Liar(TRUE, Word - 1), Liar(FALSE, Word - 9), Liar(TRUE, MaxSize + 1), Liar(TRUE, 1000)}
=============================================================================
