-------------------------------- MODULE Frame --------------------------------
(***************************************************************************)
(* The request parser of nivona_frame.c.  Requests come as a stream of     *)
(* bytes, cut into writes anywhere; the parser finds the frames in it      *)
(* again, by the size of a request where that is fixed and by the byte     *)
(* that ends a frame where it is not.                                      *)
(*                                                                         *)
(* Of a byte only what the parser tells apart is kept: "S" (0x53, which    *)
(* starts a frame), "E" (0x45, which ends one), "H", the letter of the     *)
(* command, and "o" for all others.  Ciphertext may hold any of them.  A   *)
(* byte carries its request and place, <<r, i>>, so that a buffer is a     *)
(* request unharmed exactly if it is all of its bytes in order; the        *)
(* checksum, one byte, is taken to find every other buffer out.            *)
(***************************************************************************)
EXTENDS Integers, Sequences

CONSTANTS
    Requests,           (* the frames a client sends, as bytes             *)
    MAX_FRAME_BYTES     (* room in s_buf (512)                             *)

Nothing == <<>>         (* no request                                      *)

command(r) == r[3]      (* the letter after "H"                            *)

expected_request_size(c) ==
    CASE c \in {"V", "X", "I"}      -> 7
      [] c \in {"R", "A", "D", "C"} -> 9
      [] c \in {"U", "Y", "Z"}      -> 11
      [] c = "W"                    -> 13
      [] c = "E"                    -> 25
      [] c = "J"                    -> 73
      [] OTHER                      -> 0

ASSUME RequestAssumption ==
    /\ MAX_FRAME_BYTES \in Nat \ {0}
    /\ Requests # {}
    /\ \A r \in Requests :
         /\ Len(r) \in 5..MAX_FRAME_BYTES
         /\ r[1] = "S" /\ r[2] = "H" /\ r[Len(r)] = "E"
         /\ expected_request_size(command(r)) \in {0, Len(r)}

Bytes(r)    == [i \in 1..Len(r) |-> <<r, i>>]
Class(byte) == byte[1][byte[2]]

(* s_in_frame and s_buf[0 .. s_len).                                       *)
Empty == [inFrame |-> FALSE, buf |-> <<>>]

(* Mutant: every frame ends at the first byte that may end one.            *)
Complete_AtTerminator(buf) == Class(buf[Len(buf)]) = "E"

Complete(buf) ==
    LET expected == IF Len(buf) >= 3 /\ Class(buf[2]) = "H"
                    THEN expected_request_size(Class(buf[3])) ELSE 0
    IN  IF expected > 0 THEN Len(buf) = expected
                        ELSE Class(buf[Len(buf)]) = "E"

(* The request try_parse dispatches when the buffer is complete.           *)
Parsed(buf) ==
    IF \E r \in Requests : buf = Bytes(r)
    THEN CHOOSE r \in Requests : buf = Bytes(r) ELSE Nothing

(* Mutant: one byte more than there is room for.                           *)
Full_OffByOne(p) == Len(p.buf) > MAX_FRAME_BYTES

Full(p) == Len(p.buf) >= MAX_FRAME_BYTES

(* Mutant: a frame that does not parse stays in the buffer.                *)
Fed_KeepsBadFrame(p, byte) ==
    IF ~p.inFrame THEN
        IF Class(byte) = "S" THEN [inFrame |-> TRUE, buf |-> <<byte>>] ELSE p
    ELSE IF Full(p) \/ (Complete(Append(p.buf, byte))
                          /\ Parsed(Append(p.buf, byte)) # Nothing) THEN Empty
    ELSE [p EXCEPT !.buf = Append(@, byte)]

(* What a byte does to the parser ...                                      *)
Fed(p, byte) ==
    IF ~p.inFrame THEN
        IF Class(byte) = "S" THEN [inFrame |-> TRUE, buf |-> <<byte>>] ELSE p
    ELSE IF Full(p) \/ Complete(Append(p.buf, byte)) THEN Empty
    ELSE [p EXCEPT !.buf = Append(@, byte)]

(* ... and the request it completes, if it does.                           *)
Heard(p, byte) ==
    IF p.inFrame /\ ~Full(p) /\ Complete(Append(p.buf, byte))
    THEN Parsed(Append(p.buf, byte)) ELSE Nothing
=============================================================================
