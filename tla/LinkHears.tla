------------------------------ MODULE LinkHears ------------------------------
(***************************************************************************)
(* What the parser of Link hears of the stream of bytes: everything, as    *)
(* long as no request was given up, and soon again everything after one    *)
(* was, for every set of requests, every size of the buffer and any number *)
(* of connections.                                                         *)
(***************************************************************************)
EXTENDS LinkSafety, WellFoundedInduction

-----------------------------------------------------------------------------
(* THE SIZES OF REQUESTS.                                                  *)

LEMMA Least ==
    ASSUME NEW S \in SUBSET Nat, S # {}
    PROVE  \E n \in S : \A m \in S : n <= m
<1>1. PICK n \in S : \A m \in S \ {n} : <<m, n>> \notin OpToRel(<, Nat)
  BY NatLessThanWellFounded, WFMin
<1>2. \A m \in S \ {n} : <<m, n>> \in Nat \X Nat /\ ~(m < n)
  <2>1. \A m \in S \ {n} : <<m, n>> \in Nat \X Nat
    OBVIOUS
  <2>2. \A m \in S \ {n} : ~(<<m, n>>[1] < <<m, n>>[2])
    BY <1>1, <2>1 DEF OpToRel
  <2> QED
    BY <2>1, <2>2
<1>3. \A m \in S : n <= m
  <2> SUFFICES ASSUME NEW m \in S PROVE n <= m
    OBVIOUS
  <2>1. n \in Nat /\ m \in Nat
    OBVIOUS
  <2>2. m = n \/ ~(m < n)
    BY <1>2
  <2> QED
    BY <2>1, <2>2
<1> QED
  BY <1>3

LEMMA Greatest ==
    ASSUME NEW M \in Nat, NEW S \in SUBSET (0..M), S # {}
    PROVE  \E n \in S : \A m \in S : m <= n
<1> DEFINE R == {M - n : n \in S}
<1>1. R \in SUBSET Nat /\ R # {}
  <2>1. \A n \in S : n \in 0..M
    OBVIOUS
  <2>2. \A n \in S : M - n \in Nat
    BY <2>1
  <2> QED
    BY <2>2
<1>0. \A n \in S : n \in Int
  OBVIOUS
<1> HIDE DEF R
<1>2. PICK k \in R : \A m \in R : k <= m
  BY <1>1, Least
<1>3. PICK n \in S : k = M - n
  BY DEF R
<1>4. \A m \in S : M - m \in R
  BY DEF R
<1>5. \A m \in S : M - n <= M - m
  BY <1>2, <1>3, <1>4
<1> QED
  BY <1>0, <1>5

(* What one request given up may cost.                                     *)
Budget == Longest \div Shortest + 1

LEMMA SizesAre ==
    /\ Longest \in Nat /\ Shortest \in Nat \ {0} /\ Longest <= MAX_FRAME_BYTES
    /\ \A r \in Requests : Shortest <= Len(r) /\ Len(r) <= Longest
<1>1. Sizes \in SUBSET (5..MAX_FRAME_BYTES) /\ Sizes # {} /\ MAX_FRAME_BYTES \in Nat
  BY RequestAssumption DEF Sizes
<1>2. Sizes \in SUBSET Nat /\ Sizes \in SUBSET (0..MAX_FRAME_BYTES)
  BY <1>1
<1>3. Shortest \in Sizes /\ \A m \in Sizes : Shortest <= m
  BY <1>1, <1>2, Least DEF Shortest
<1>4. Longest \in Sizes /\ \A m \in Sizes : m <= Longest
  BY <1>1, <1>2, Greatest DEF Longest
<1>5. \A r \in Requests : Len(r) \in Sizes
  BY DEF Sizes
<1> QED
  BY <1>1, <1>3, <1>4, <1>5

LEMMA Quotients ==
    ASSUME NEW n \in Nat, NEW s \in Nat \ {0}
    PROVE  /\ n \div s \in Nat
           /\ n <= (n \div s + 1) * s
<1> DEFINE q == n \div s
           r == n % s
<1>1. q \in Int /\ r \in 0..s-1 /\ n = s * q + r
  OBVIOUS
<1> HIDE DEF q, r
<1>2. q >= 0
  <2> SUFFICES ASSUME q <= -1 PROVE FALSE
    BY <1>1
  <2>1. s * q <= s * (-1)
    BY <1>1
  <2> QED
    BY <1>1, <2>1
<1>3. (q + 1) * s = s * q + s
  BY <1>1
<1> QED
  BY <1>1, <1>2, <1>3 DEF q

LEMMA BudgetIs == Budget \in Nat \ {0} /\ Longest <= Budget * Shortest
  BY SizesAre, Quotients DEF Budget

-----------------------------------------------------------------------------
(* BYTES IN THE BUFFER.                                                    *)

(* The first k bytes of r.                                                 *)
Prefix(r, k) == [i \in 1..k |-> <<r, i>>]

LEMMA RequestIs ==
    ASSUME NEW r \in Requests
    PROVE  /\ Len(r) \in Nat /\ Len(r) >= 5 /\ Len(r) <= MAX_FRAME_BYTES
           /\ MAX_FRAME_BYTES \in Nat /\ r # Nothing
           /\ r[1] = "S" /\ r[2] = "H" /\ r[Len(r)] = "E"
           /\ expected_request_size(r[3]) = 0 \/ expected_request_size(r[3]) = Len(r)
<1>1. Len(r) \in 5..MAX_FRAME_BYTES /\ MAX_FRAME_BYTES \in Nat
  BY RequestAssumption
<1>2. Len(Nothing) = 0
  BY DEF Nothing
<1> QED
  BY <1>1, <1>2, RequestAssumption DEF command

LEMMA ClassIs == ASSUME NEW r, NEW i PROVE Class(<<r, i>>) = r[i]
  BY DEF Class

LEMMA PrefixIs ==
    ASSUME NEW r \in Requests, NEW k \in Nat
    PROVE  /\ Prefix(r, k) \in Seq(Requests \X Nat) /\ Len(Prefix(r, k)) = k
           /\ \A i \in 1..k : Class(Prefix(r, k)[i]) = r[i]
           /\ k = Len(r) => Prefix(r, k) = Bytes(r)
<1>1. \A i \in 1..k : Prefix(r, k)[i] = <<r, i>>
  BY DEF Prefix
<1>2. Prefix(r, k) \in Seq(Requests \X Nat) /\ Len(Prefix(r, k)) = k
  BY DEF Prefix
<1>3. \A i \in 1..k : Class(Prefix(r, k)[i]) = r[i]
  BY <1>1, ClassIs
<1> QED
  BY <1>2, <1>3 DEF Prefix, Bytes

LEMMA PrefixGrows ==
    ASSUME NEW r \in Requests, NEW k \in Nat
    PROVE  Append(Prefix(r, k), <<r, k + 1>>) = Prefix(r, k + 1)
<1> DEFINE a == Prefix(r, k)
           b == Append(a, <<r, k + 1>>)
<1>0. k + 1 \in Nat
  OBVIOUS
<1>1. a \in Seq(Requests \X Nat) /\ Len(a) = k
  BY PrefixIs
<1>2. \A i \in 1..k : a[i] = <<r, i>>
  BY DEF Prefix
<1> HIDE DEF a
<1>3. /\ b = [i \in 1..(k + 1) |-> b[i]] /\ b[k + 1] = <<r, k + 1>>
      /\ \A i \in 1..k : b[i] = a[i]
  <2>1. <<r, k + 1>> \in Requests \X Nat
    BY <1>0
  <2> QED
    BY <1>1, <2>1
<1> HIDE DEF b
<1>4. \A i \in 1..(k + 1) : b[i] = <<r, i>>
  <2> TAKE i \in 1..(k + 1)
  <2>1. i \in 1..k \/ i = k + 1
    OBVIOUS
  <2> QED
    BY <1>2, <1>3, <2>1
<1>5. b = Prefix(r, k + 1)
  BY <1>3, <1>4 DEF Prefix
<1> QED
  BY <1>5 DEF a, b

(* The size a frame must have, or 0: it ends with a byte.                  *)
Expected(buf) ==
    IF Len(buf) >= 3 /\ Class(buf[2]) = "H"
    THEN expected_request_size(Class(buf[3])) ELSE 0

LEMMA CompleteIs ==
    ASSUME NEW buf \in Seq(Requests \X Nat)
    PROVE  Complete(buf) <=> IF Expected(buf) > 0 THEN Len(buf) = Expected(buf)
                             ELSE Class(buf[Len(buf)]) = "E"
  BY DEF Complete, Expected

(* A request that arrives in step is complete with its last byte, and not  *)
(* before.                                                                 *)
LEMMA CompleteAtEnd ==
    ASSUME EndsOnce, NEW r \in Requests, NEW k \in 2..Len(r)
    PROVE  Complete(Prefix(r, k)) <=> k = Len(r)
<1> DEFINE b == Prefix(r, k)
<1>1. /\ k \in Nat /\ k \in 1..k /\ 2 \in 1..k /\ (k >= 3 => 3 \in 1..k)
      /\ Len(r) \in Nat /\ Len(r) >= 5
  BY RequestIs
<1>2. /\ b \in Seq(Requests \X Nat) /\ Len(b) = k /\ Class(b[2]) = "H"
      /\ Class(b[k]) = r[k] /\ (k >= 3 => Class(b[3]) = r[3])
  BY <1>1, PrefixIs, RequestIs
<1> HIDE DEF b
<1>3. Expected(b) = IF k >= 3 THEN expected_request_size(r[3]) ELSE 0
  BY <1>1, <1>2 DEF Expected
<1>4. Complete(b) <=> IF Expected(b) > 0 THEN k = Expected(b) ELSE r[k] = "E"
  BY <1>2, CompleteIs
<1>5. CASE k = 2
  BY <1>1, <1>3, <1>4, <1>5, RequestIs DEF b
<1>6. CASE k >= 3 /\ expected_request_size(r[3]) > 0
  BY <1>1, <1>3, <1>4, <1>6, RequestIs DEF b
<1>7. CASE k >= 3 /\ expected_request_size(r[3]) = 0
  <2>1. k # Len(r) => r[k] # "E"
    BY <1>1, <1>7 DEF EndsOnce, command
  <2> QED
    BY <1>1, <1>3, <1>4, <1>7, <2>1, RequestIs DEF b
<1> QED
  BY <1>1, <1>5, <1>6, <1>7, RequestIs

(* The bytes of a request that arrives in step.                            *)
LEMMA FirstByte ==
    ASSUME NEW r \in Requests
    PROVE  /\ Fed(Empty, <<r, 1>>) = [inFrame |-> TRUE, buf |-> Prefix(r, 1)]
           /\ Heard(Empty, <<r, 1>>) = Nothing
<1>1. Class(<<r, 1>>) = "S"
  BY RequestIs, ClassIs
<1>2. <<<<r, 1>>>> = Prefix(r, 1)
  BY DEF Prefix
<1> QED
  BY <1>1, <1>2 DEF Fed, Heard, Empty

LEMMA NextByte ==
    ASSUME EndsOnce, NEW r \in Requests, NEW k \in Nat, 0 < k, k < Len(r),
           NEW p, p = [inFrame |-> TRUE, buf |-> Prefix(r, k)]
    PROVE  IF k + 1 = Len(r)
           THEN Fed(p, <<r, k + 1>>) = Empty /\ Heard(p, <<r, k + 1>>) # Nothing
           ELSE /\ Fed(p, <<r, k + 1>>) = [inFrame |-> TRUE, buf |-> Prefix(r, k + 1)]
                /\ Heard(p, <<r, k + 1>>) = Nothing
<1>1. p.inFrame /\ p.buf = Prefix(r, k)
  OBVIOUS
<1>2. ~Full(p)
  BY <1>1, PrefixIs, RequestIs DEF Full
<1>3. Append(p.buf, <<r, k + 1>>) = Prefix(r, k + 1)
  BY <1>1, PrefixGrows
<1>4. Complete(Prefix(r, k + 1)) <=> k + 1 = Len(r)
  BY CompleteAtEnd, RequestIs
<1>5. CASE k + 1 = Len(r)
  <2>1. Prefix(r, k + 1) = Bytes(r)
    BY <1>5, PrefixIs
  <2>2. Fed(p, <<r, k + 1>>) = Empty /\ Heard(p, <<r, k + 1>>) = Parsed(Bytes(r))
    BY <1>1, <1>2, <1>3, <1>4, <1>5, <2>1 DEF Fed, Heard
  <2>3. Parsed(Bytes(r)) \in Requests
    BY DEF Parsed
  <2> QED
    BY <1>5, <2>2, <2>3, RequestIs
<1>6. CASE k + 1 # Len(r)
  <2>1. Heard(p, <<r, k + 1>>) = Nothing
    BY <1>1, <1>3, <1>4, <1>6 DEF Heard
  <2>2. Fed(p, <<r, k + 1>>) = [p EXCEPT !.buf = Prefix(r, k + 1)]
    BY <1>1, <1>2, <1>3, <1>4, <1>6 DEF Fed
  <2> QED
    BY <1>6, <2>1, <2>2
<1> QED
  BY <1>5, <1>6

-----------------------------------------------------------------------------
(* WHAT ONE BYTE DOES.  A parser p stands somewhere in the stream while    *)
(* the client, which is to send r, has sent at bytes of it.                *)

(* It holds what was sent of the request, and nothing else.                *)
InStep(p, r, at) ==
    p = IF at = 0 THEN Empty ELSE [inFrame |-> TRUE, buf |-> Prefix(r, at)]

(* It looks for the byte that ends a frame, and no byte still to come can  *)
(* give it a size.                                                         *)
Loose(p, r, at) ==
    /\ p.inFrame /\ Len(p.buf) >= 1 /\ Expected(p.buf) = 0
    /\ Len(p.buf) = 1 => at = 0 \/ r[at + 1] # "H"
    /\ Len(p.buf) = 2 /\ Class(p.buf[2]) = "H" => at = 0

(* It waits for as many bytes as m of the shortest requests have at most,  *)
(* those already sent of this one counted.                                 *)
Sized(p, at, m) ==
    /\ p.inFrame /\ Len(p.buf) < Expected(p.buf) /\ Expected(p.buf) <= Longest
    /\ Expected(p.buf) - Len(p.buf) + at <= m * Shortest

(* It is back in step when it has missed m requests more.                  *)
Off(p, r, at, m) ==
    \/ InStep(p, r, at)
    \/ m > 0 /\ (p = Empty \/ Loose(p, r, at))
    \/ Sized(p, at, m)

(* Between two requests it does not matter which one comes next.           *)
LEMMA AnyNext ==
    ASSUME NEW p, NEW r, NEW s, NEW m, Off(p, r, 0, m) PROVE Off(p, s, 0, m)
  BY DEF Off, InStep, Loose, Sized

(* Out of a frame, a byte starts one or is passed over.                    *)
LEMMA ByteOutside ==
    ASSUME StartsOnce, NEW r \in Requests, NEW at \in Nat, 0 < at, at < Len(r)
    PROVE  /\ Heard(Empty, <<r, at + 1>>) = Nothing
           /\ \/ Fed(Empty, <<r, at + 1>>) = Empty
              \/ at + 1 < Len(r) /\ Loose(Fed(Empty, <<r, at + 1>>), r, at + 1)
<1> DEFINE byte == <<r, at + 1>>
           b    == <<byte>>
<1>1. ~Empty.inFrame
  BY DEF Empty
<1>2. Heard(Empty, byte) = Nothing
  BY <1>1 DEF Heard
<1>3. Class(byte) = r[at + 1]
  BY ClassIs
<1>4. CASE r[at + 1] # "S"
  <2>1. Fed(Empty, byte) = Empty
    BY <1>1, <1>3, <1>4 DEF Fed
  <2> QED
    BY <1>2, <2>1
<1>5. CASE r[at + 1] = "S"
  <2>1. Fed(Empty, byte) = [inFrame |-> TRUE, buf |-> b]
    BY <1>1, <1>3, <1>5 DEF Fed
  <2>2. Len(b) = 1
    OBVIOUS
  <2>3. at + 1 # Len(r)
    <3>1. r[Len(r)] = "E"
      BY RequestIs
    <3> QED
      BY <1>5, <3>1
  <2>4. at + 1 < Len(r) /\ at + 1 \in 2..Len(r) - 1
    BY <2>3, RequestIs
  <2>5. r[(at + 1) + 1] # "H"
    BY <1>5, <2>4 DEF StartsOnce
  <2>6. Expected(b) = 0
    BY <2>2 DEF Expected
  <2> HIDE DEF b
  <2> DEFINE q == [inFrame |-> TRUE, buf |-> b]
  <2>7. q.inFrame /\ q.buf = b
    OBVIOUS
  <2> HIDE DEF q
  <2>8. Len(q.buf) = 1 /\ Expected(q.buf) = 0
    BY <2>2, <2>6, <2>7, Zenon
  <2>9. Loose(q, r, at + 1)
    BY <2>5, <2>7, <2>8 DEF Loose
  <2> QED
    BY <1>2, <2>1, <2>4, <2>9 DEF q
<1> QED
  BY <1>4, <1>5

(* A byte more in the buffer.                                              *)
LEMMA Put ==
    ASSUME NEW p \in Parsers, NEW c \in Seq(Requests \X Nat)
    PROVE  [p EXCEPT !.buf = c] = [inFrame |-> p.inFrame, buf |-> c]
  BY DEF Parsers

LEMMA Appended ==
    ASSUME NEW p \in Parsers, p.inFrame, NEW byte \in Requests \X Nat
    PROVE  LET b == Append(p.buf, byte)
           IN  /\ b \in Seq(Requests \X Nat) /\ Len(b) = Len(p.buf) + 1 /\ Len(p.buf) \in Nat
               /\ b[Len(b)] = byte
               /\ \A i \in 1..Len(p.buf) : b[i] = p.buf[i]
               /\ IF Full(p) THEN Fed(p, byte) = Empty /\ Heard(p, byte) = Nothing
                  ELSE IF Complete(b) THEN Fed(p, byte) = Empty
                  ELSE /\ Fed(p, byte) = [inFrame |-> TRUE, buf |-> b]
                       /\ Heard(p, byte) = Nothing
<1> DEFINE b == Append(p.buf, byte)
<1>1. p.buf \in Seq(Requests \X Nat) /\ p = [inFrame |-> TRUE, buf |-> p.buf]
  BY DEF Parsers
<1>2. /\ b \in Seq(Requests \X Nat) /\ Len(b) = Len(p.buf) + 1 /\ Len(p.buf) \in Nat
      /\ b[Len(b)] = byte
      /\ \A i \in 1..Len(p.buf) : b[i] = p.buf[i]
  BY <1>1
<1>3. IF Full(p) THEN Fed(p, byte) = Empty /\ Heard(p, byte) = Nothing
      ELSE IF Complete(b) THEN Fed(p, byte) = Empty
      ELSE /\ Fed(p, byte) = [p EXCEPT !.buf = b]
           /\ Heard(p, byte) = Nothing
  BY DEF Fed, Heard
<1> HIDE DEF b
<1>4. [p EXCEPT !.buf = b] = [inFrame |-> TRUE, buf |-> b]
  <2>1. p.inFrame = TRUE
    BY DEF Parsers
  <2>2. [p EXCEPT !.buf = b] = [inFrame |-> p.inFrame, buf |-> b]
    BY <1>2, Put
  <2> QED
    BY <2>1, <2>2, Zenon
<1> QED
  BY <1>2, <1>3, <1>4 DEF b

(* A parser that looks for the end of a frame finds it at the latest at    *)
(* the end of the request.                                                 *)
LEMMA ByteLoose ==
    ASSUME NEW p \in Parsers, NEW r \in Requests, NEW at \in Nat, at < Len(r),
           Loose(p, r, at)
    PROVE  \/ Fed(p, <<r, at + 1>>) = Empty
           \/ /\ at + 1 < Len(r) /\ Heard(p, <<r, at + 1>>) = Nothing
              /\ Loose(Fed(p, <<r, at + 1>>), r, at + 1)
<1> DEFINE byte == <<r, at + 1>>
           b    == Append(p.buf, byte)
           n    == Len(p.buf)
           q    == [inFrame |-> TRUE, buf |-> b]
<1>0. p.inFrame /\ n >= 1 /\ Expected(p.buf) = 0
  BY DEF Loose
<1>1. byte \in Requests \X Nat /\ Class(byte) = r[at + 1]
  BY ClassIs
<1>2. /\ b \in Seq(Requests \X Nat) /\ Len(b) = n + 1 /\ n \in Nat
      /\ b[Len(b)] = byte
      /\ \A i \in 1..n : b[i] = p.buf[i]
      /\ IF Full(p) THEN Fed(p, byte) = Empty
         ELSE IF Complete(b) THEN Fed(p, byte) = Empty
         ELSE Fed(p, byte) = q /\ Heard(p, byte) = Nothing
  BY <1>0, <1>1, Appended
<1>3. q.inFrame /\ q.buf = b
  OBVIOUS
<1>4. n = 1 => at = 0 \/ r[at + 1] # "H"
  BY DEF Loose
<1>5. n = 2 /\ Class(p.buf[2]) = "H" => at = 0
  BY DEF Loose
<1>6. r[1] = "S" /\ r[Len(r)] = "E" /\ Len(r) \in Nat
  BY RequestIs
<1> HIDE DEF b, q, n, byte
<1>7. n = 1 => Class(b[2]) # "H"
  <2> SUFFICES ASSUME n = 1 PROVE Class(b[2]) # "H"
    OBVIOUS
  <2>1. Class(b[2]) = r[at + 1]
    BY <1>1, <1>2
  <2> QED
    BY <1>4, <1>6, <2>1
<1>8. Expected(b) = 0
  <2>1. CASE n = 1
    BY <1>2, <2>1 DEF Expected
  <2>2. CASE n = 2
    <3>1. b[2] = p.buf[2] /\ b[3] = byte
      BY <1>2, <2>2
    <3>2. Class(p.buf[2]) = "H" => Class(b[3]) = "S"
      BY <1>1, <1>5, <1>6, <2>2, <3>1
    <3>3. expected_request_size("S") = 0
      BY DEF expected_request_size
    <3> QED
      BY <3>1, <3>2, <3>3 DEF Expected
  <2>3. CASE n >= 3
    <3>1. b[2] = p.buf[2] /\ b[3] = p.buf[3]
      BY <1>2, <2>3
    <3>2. Len(b) >= 3 /\ Len(p.buf) >= 3
      BY <1>2, <2>3 DEF n
    <3> QED
      BY <1>0, <3>1, <3>2 DEF Expected
  <2> QED
    BY <1>0, <1>2, <2>1, <2>2, <2>3
<1>9. SUFFICES ASSUME ~Full(p), ~Complete(b)
               PROVE  /\ at + 1 < Len(r) /\ Heard(p, byte) = Nothing
                      /\ Loose(Fed(p, byte), r, at + 1)
  BY <1>2 DEF byte
<1>10. Fed(p, byte) = q /\ Heard(p, byte) = Nothing
  BY <1>2, <1>9
<1>11. r[at + 1] # "E"
  <2>1. Class(b[Len(b)]) # "E"
    BY <1>2, <1>8, <1>9, CompleteIs
  <2> QED
    BY <1>1, <1>2, <2>1
<1>12. at + 1 < Len(r)
  BY <1>6, <1>11
<1>13. Len(q.buf) = n + 1 /\ Expected(q.buf) = 0 /\ (n = 1 => Class(q.buf[2]) # "H")
  BY <1>2, <1>3, <1>7, <1>8, Zenon
<1>14. Loose(q, r, at + 1)
  <2>1. Len(q.buf) >= 1 /\ Len(q.buf) # 1 /\ (Len(q.buf) = 2 => n = 1)
    BY <1>0, <1>2, <1>13
  <2> QED
    BY <1>3, <1>13, <2>1 DEF Loose
<1> QED
  BY <1>10, <1>12, <1>14

LEMMA Shorter ==
    ASSUME NEW m \in Nat, NEW s \in Nat
    PROVE  (m - 1) * s = m * s - s /\ m * s \in Nat /\ (m = 0 => m * s = 0)
  OBVIOUS

(* A parser that knows the size of the frame takes bytes until it has it.  *)
LEMMA ByteSized ==
    ASSUME NEW p \in Parsers, NEW r \in Requests, NEW at \in Nat, at < Len(r),
           NEW m \in Nat, Sized(p, at, m)
    PROVE  /\ m > 0
           /\ \/ Fed(p, <<r, at + 1>>) = Empty
              \/ /\ Heard(p, <<r, at + 1>>) = Nothing
                 /\ IF at + 1 < Len(r) THEN Sized(Fed(p, <<r, at + 1>>), at + 1, m)
                                       ELSE Sized(Fed(p, <<r, at + 1>>), 0, m - 1)
<1> DEFINE byte == <<r, at + 1>>
           b    == Append(p.buf, byte)
           n    == Len(p.buf)
           q    == [inFrame |-> TRUE, buf |-> b]
           e    == Expected(p.buf)
           all  == m * Shortest
<1>0. /\ p.inFrame /\ n < e /\ e <= Longest /\ e - n + at <= all
  BY DEF Sized
<1>1. byte \in Requests \X Nat
  OBVIOUS
<1>2. /\ b \in Seq(Requests \X Nat) /\ Len(b) = n + 1 /\ n \in Nat
      /\ \A i \in 1..n : b[i] = p.buf[i]
      /\ IF Full(p) THEN Fed(p, byte) = Empty
         ELSE IF Complete(b) THEN Fed(p, byte) = Empty
         ELSE Fed(p, byte) = q /\ Heard(p, byte) = Nothing
  BY <1>0, <1>1, Appended
<1>3. q.inFrame /\ q.buf = b
  OBVIOUS
<1>4. e \in Nat
  BY DEF Expected, expected_request_size
<1>5. /\ (m - 1) * Shortest = all - Shortest /\ all \in Nat /\ (m = 0 => all = 0)
      /\ Shortest <= Len(r) /\ Shortest \in Nat /\ Len(r) \in Nat /\ Longest \in Nat
  BY SizesAre, Shorter, RequestIs
<1>6. n >= 3
  <2> SUFFICES ASSUME ~(n >= 3) PROVE e = 0
    BY <1>0, <1>2, <1>4
  <2> QED
    BY DEF Expected
<1>7. Expected(b) = e
  <2>1. b[2] = p.buf[2] /\ b[3] = p.buf[3] /\ Len(b) >= 3
    BY <1>2, <1>6
  <2> QED
    BY <1>6, <2>1 DEF Expected
<1> HIDE DEF b, q, n, e, byte, all
<1>8. m > 0
  BY <1>0, <1>2, <1>4, <1>5
<1>9. CASE Full(p) \/ Complete(b)
  BY <1>2, <1>8, <1>9 DEF byte
<1>10. CASE ~Full(p) /\ ~Complete(b)
  <2>1. Fed(p, byte) = q /\ Heard(p, byte) = Nothing
    BY <1>2, <1>10
  <2>2. n + 1 # e
    <3>1. Expected(b) > 0
      BY <1>0, <1>2, <1>4, <1>7
    <3>2. Complete(b) <=> Len(b) = Expected(b)
      BY <1>2, <3>1, CompleteIs
    <3> QED
      BY <1>2, <1>7, <1>10, <3>2
  <2>3. Expected(q.buf) = e /\ Len(q.buf) = n + 1
    BY <1>2, <1>3, <1>7, Zenon
  <2>4. /\ Len(q.buf) < Expected(q.buf) /\ Expected(q.buf) <= Longest
        /\ Expected(q.buf) - Len(q.buf) + (at + 1) <= m * Shortest
    BY <1>0, <1>2, <1>4, <1>5, <2>2, <2>3 DEF all
  <2>5. at + 1 < Len(r) => Sized(q, at + 1, m)
    BY <1>3, <2>4 DEF Sized
  <2>6. ~(at + 1 < Len(r)) =>
          Expected(q.buf) - Len(q.buf) + 0 <= (m - 1) * Shortest
    <3>1. ~(at + 1 < Len(r)) => e - (n + 1) + 0 <= all - Shortest
      BY <1>0, <1>2, <1>4, <1>5
    <3>2. (m - 1) * Shortest = all - Shortest
      BY <1>5, Zenon
    <3> QED
      BY <2>3, <3>1, <3>2, Zenon
  <2>7. ~(at + 1 < Len(r)) => Sized(q, 0, m - 1)
    BY <1>3, <2>4, <2>6 DEF Sized
  <2> QED
    BY <1>8, <2>1, <2>5, <2>7 DEF byte
<1> QED
  BY <1>9, <1>10

(* In step, a byte is the next one of its request, and the last one is     *)
(* heard.                                                                  *)
LEMMA ByteInStep ==
    ASSUME EndsOnce,
           NEW p, NEW r \in Requests, NEW at \in Nat, at < Len(r), InStep(p, r, at),
           NEW q, q = Fed(p, <<r, at + 1>>),
           NEW h, h = Heard(p, <<r, at + 1>>)
    PROVE  \/ h # Nothing /\ at + 1 = Len(r) /\ q = Empty
           \/ h = Nothing /\ at + 1 < Len(r) /\ InStep(q, r, at + 1)
<1>1. Len(r) \in Nat /\ Len(r) >= 5
  BY RequestIs
<1>2. CASE at = 0
  <2>1. p = Empty /\ q = [inFrame |-> TRUE, buf |-> Prefix(r, 1)] /\ h = Nothing
    BY <1>2, FirstByte DEF InStep
  <2>2. InStep(q, r, 1)
    <3>1. 1 # 0
      OBVIOUS
    <3> QED
      BY <2>1, <3>1, Zenon DEF InStep
  <2> QED
    BY <1>1, <1>2, <2>1, <2>2
<1>3. CASE at # 0
  <2>1. p = [inFrame |-> TRUE, buf |-> Prefix(r, at)] /\ 0 < at
    BY <1>3 DEF InStep
  <2>2. IF at + 1 = Len(r) THEN q = Empty /\ h # Nothing
        ELSE q = [inFrame |-> TRUE, buf |-> Prefix(r, at + 1)] /\ h = Nothing
    BY <2>1, NextByte
  <2>3. at + 1 # Len(r) => InStep(q, r, at + 1)
    BY <1>3, <2>2 DEF InStep
  <2> QED
    BY <1>1, <2>2, <2>3
<1> QED
  BY <1>2, <1>3

(* A byte either brings the parser back in step, or leaves it off as much  *)
(* as it was; a whole request that was missed brings it nearer.            *)
LEMMA OneByte ==
    ASSUME EndsOnce, StartsOnce,
           NEW p \in Parsers, NEW r \in Requests, NEW at \in Nat, at < Len(r),
           NEW m \in Nat, Off(p, r, at, m),
           NEW q, q = Fed(p, <<r, at + 1>>),
           NEW h, h = Heard(p, <<r, at + 1>>)
    PROVE  \/ h # Nothing /\ at + 1 = Len(r) /\ q = Empty
           \/ h = Nothing /\ at + 1 = Len(r) /\ m > 0 /\ Off(q, r, 0, m - 1)
           \/ h = Nothing /\ at + 1 < Len(r) /\ Off(q, r, at + 1, m)
<1>1. Len(r) \in Nat /\ Len(r) >= 5 /\ at + 1 \in Nat /\ at + 1 # 0
  BY RequestIs
<1>2. h # Nothing => at + 1 = Len(r)
  BY <1>1, HeardIsSent
<1>3. CASE m > 0 /\ q = Empty
  <2>1. InStep(q, r, 0)
    BY <1>3 DEF InStep
  <2> QED
    BY <1>1, <1>2, <1>3, <2>1 DEF Off
<1>4. CASE InStep(p, r, at)
  BY <1>1, <1>2, <1>4, ByteInStep DEF Off
<1>5. CASE m > 0 /\ p = Empty /\ at # 0
  <2>1. 0 < at
    BY <1>5
  <2>2. h = Nothing /\ (q = Empty \/ (at + 1 < Len(r) /\ Loose(q, r, at + 1)))
    BY <1>5, <2>1, ByteOutside
  <2> QED
    BY <1>3, <1>5, <2>2 DEF Off
<1>6. CASE m > 0 /\ Loose(p, r, at)
  <2>1. q = Empty \/ (at + 1 < Len(r) /\ h = Nothing /\ Loose(q, r, at + 1))
    BY <1>6, ByteLoose
  <2> QED
    BY <1>3, <1>6, <2>1 DEF Off
<1>7. CASE Sized(p, at, m)
  <2>1. /\ m > 0
        /\ \/ q = Empty
           \/ h = Nothing /\ IF at + 1 < Len(r) THEN Sized(q, at + 1, m)
                             ELSE Sized(q, 0, m - 1)
    BY <1>7, ByteSized
  <2>2. at + 1 < Len(r) \/ at + 1 = Len(r)
    BY <1>1
  <2> QED
    BY <1>1, <1>3, <2>1, <2>2 DEF Off
<1>8. p = Empty /\ at = 0 => InStep(p, r, at)
  BY DEF InStep
<1> QED
  BY <1>4, <1>5, <1>6, <1>7, <1>8 DEF Off

(* A request given up leaves the parser off by no more than its budget.    *)
LEMMA GivenUp ==
    ASSUME NEW p \in Parsers, NEW r \in Requests, NEW at \in Nat, 0 < at, at < Len(r),
           NEW m \in Nat, Off(p, r, at, m), NEW s
    PROVE  Off(p, s, 0, Budget)
<1>0. /\ Budget \in Nat /\ Budget > 0 /\ Longest <= Budget * Shortest
      /\ Longest \in Nat /\ Shortest \in Nat /\ Budget * Shortest \in Nat
      /\ Len(r) \in Nat /\ Len(r) <= Longest
  BY BudgetIs, SizesAre, RequestIs
<1>1. CASE InStep(p, r, at)
  <2> DEFINE b == Prefix(r, at)
  <2>1. p.inFrame /\ p.buf = b
    BY <1>1 DEF InStep
  <2>2. /\ b \in Seq(Requests \X Nat) /\ Len(b) = at
        /\ \A i \in 1..at : Class(b[i]) = r[i]
    BY PrefixIs
  <2> HIDE DEF b
  <2>3. CASE Expected(b) = 0
    <3>1. Loose(p, s, 0)
      BY <2>1, <2>2, <2>3 DEF Loose
    <3> QED
      BY <1>0, <3>1 DEF Off
  <2>4. CASE Expected(b) # 0
    <3>1. at >= 3 /\ Expected(b) = expected_request_size(Class(b[3]))
      BY <2>2, <2>4 DEF Expected
    <3>2. Class(b[3]) = r[3]
      BY <2>2, <3>1
    <3>3. Expected(b) = Len(r)
      BY <2>4, <3>1, <3>2, RequestIs
    <3>4. Sized(p, 0, Budget)
      BY <1>0, <2>1, <2>2, <3>3 DEF Sized
    <3> QED
      BY <3>4 DEF Off
  <2> QED
    BY <2>3, <2>4
<1>2. CASE p = Empty
  BY <1>2 DEF Off, InStep
<1>3. CASE Loose(p, r, at)
  <2>1. Loose(p, s, 0)
    BY <1>3 DEF Loose
  <2> QED
    BY <1>0, <2>1 DEF Off
<1>4. CASE Sized(p, at, m)
  <2>1. Len(p.buf) \in Nat /\ Expected(p.buf) \in Nat
    <3>1. Len(p.buf) \in Nat
      BY DEF Parsers
    <3> QED
      BY <3>1 DEF Expected, expected_request_size
  <2>2. Expected(p.buf) - Len(p.buf) + 0 <= Budget * Shortest
    BY <1>0, <1>4, <2>1 DEF Sized
  <2>3. Sized(p, 0, Budget)
    BY <1>4, <2>2 DEF Sized
  <2> QED
    BY <2>3 DEF Off
<1> QED
  BY <1>1, <1>2, <1>3, <1>4 DEF Off

-----------------------------------------------------------------------------
(* THE STREAM.                                                             *)

(* What holds of every stream: the client is somewhere in the request it   *)
(* sends; without a connection nothing was missed; and once the host task  *)
(* is done with a connection, the buffer is empty.                         *)
Counts == broken \in Nat /\ missed \in Nat

Place == IF client.request = Nothing THEN client.at = 0
                                     ELSE client.at < Len(client.request)

Between ==
    peer = NONE => /\ missed = 0
                   /\ link.conn = NONE /\ pc["host"] # "reset" => parser = Empty

Stream == TypeOK /\ Links /\ Counts /\ Place /\ Between

(* The actions that neither feed the parser nor begin or end a connection  *)
(* or a request.                                                           *)
Apart ==
    \/ \E t \in {"host", "console"} : AdvStop(t) \/ AdvStart(t)
    \/ Pair \/ ConnectFails \/ OnDisconnect \/ Subscribe \/ Timeout \/ Receive
    \/ PushStatus
    \/ \E t \in {"host", "push"} : Snapshot(t) \/ Notify(t) \/ Sent(t)
    \/ UNCHANGED vars

LEMMA ApartIs ==
    ASSUME TypeOK, Apart
    PROVE  /\ UNCHANGED <<peer, parser, broken, missed>>
           /\ client'.request = client.request /\ client'.at = client.at
<1> USE DEF session, sending, ghost
<1>1. CASE \E t \in {"host", "console"} : AdvStop(t) \/ AdvStart(t)
  BY <1>1 DEF AdvStop, AdvStart
<1>2. CASE Pair \/ ConnectFails \/ OnDisconnect \/ Subscribe
  BY <1>2 DEF Pair, ConnectFails, OnDisconnect, Subscribe
<1>3. CASE Timeout \/ Receive
  <2>1. client \in Clients
    BY DEF TypeOK
  <2> QED
    BY <1>3, <2>1 DEF Timeout, Receive, Clients
<1>4. CASE PushStatus \/ \E t \in {"host", "push"} : Snapshot(t) \/ Notify(t) \/ Sent(t)
  BY <1>4 DEF PushStatus, Snapshot, Notify, Sent
<1>5. CASE UNCHANGED vars
  BY <1>5 DEF vars
<1> QED
  BY <1>1, <1>2, <1>3, <1>4, <1>5 DEF Apart

LEMMA NextIs ==
    ASSUME [Next]_vars
    PROVE  Apart \/ Connect \/ LinkDown \/ FrameReset \/ (\E r \in Requests : Begin(r))
             \/ GiveUp \/ Write
  BY DEF Next, Apart

(* The request a client sends.                                             *)
LEMMA SendingIs ==
    ASSUME TypeOK, Place, client.request # Nothing
    PROVE  client.request \in Requests /\ client.at \in Nat /\ client.at < Len(client.request)
  BY DEF TypeOK, Clients, Place

LEMMA StreamInit == Init => Stream
<1> SUFFICES ASSUME Init PROVE Stream
  OBVIOUS
<1>1. client.request = Nothing /\ client.at = 0
  BY DEF Init, NewClient
<1>2. Counts /\ Place /\ Between
  BY <1>1 DEF Init, Counts, Place, Between
<1> QED
  BY <1>2, TypedInit, LinksInit DEF Stream

LEMMA PlaceStep == ASSUME Stream, [Next]_vars PROVE Counts' /\ Place'
<1> USE DEF Stream, Counts, Place, session, sending, ghost
<1>1. CASE Apart
  BY <1>1, ApartIs
<1>2. CASE Connect \/ FrameReset
  BY <1>2 DEF Connect, FrameReset
<1>3. CASE LinkDown
  <2>1. client'.request = Nothing /\ client'.at = 0
    BY <1>3 DEF LinkDown, NewClient
  <2> QED
    BY <1>3, <2>1 DEF LinkDown
<1>4. CASE \E r \in Requests : Begin(r)
  <2>1. PICK r \in Requests : Begin(r)
    BY <1>4
  <2>2. client'.request = r /\ client'.at = client.at /\ client.at = 0
    BY <2>1 DEF Begin, TypeOK, Clients
  <2>3. Len(r) >= 5 /\ Len(r) \in Nat /\ r # Nothing
    BY RequestIs
  <2>4. client'.at < Len(client'.request) /\ client'.request # Nothing
    BY <2>2, <2>3
  <2>5. UNCHANGED <<broken, missed>>
    BY <2>1 DEF Begin
  <2> QED
    BY <2>4, <2>5
<1>5. CASE GiveUp
  <2>1. client'.request = Nothing /\ client'.at = 0
    BY <1>5 DEF GiveUp, TypeOK, Clients
  <2> QED
    BY <1>5, <2>1 DEF GiveUp
<1>6. CASE Write
  <2>1. missed' \in Nat /\ broken' \in Nat
    BY <1>6 DEF Write
  <2>2. client.request # Nothing
    BY <1>6 DEF Write
  <2>3. /\ client.request \in Requests /\ client.at \in Nat
        /\ client.at < Len(client.request) /\ Len(client.request) \in Nat
    BY <2>2, SendingIs, RequestIs
  <2>4. IF client.at + 1 = Len(client.request)
        THEN client'.request = Nothing /\ client'.at = 0
        ELSE client'.request = client.request /\ client'.at = client.at + 1
    BY <1>6 DEF Write, TypeOK, Clients
  <2>5. Place'
    BY <2>2, <2>3, <2>4
  <2> QED
    BY <2>1, <2>5
<1> QED
  BY <1>1, <1>2, <1>3, <1>4, <1>5, <1>6, NextIs

LEMMA BetweenStep == ASSUME Stream, [Next]_vars PROVE Between'
<1> USE DEF Between, session, sending, ghost, Move, At, Goto, Tasks
<1>0. /\ pc \in [Tasks -> Places] /\ link \in [conn : Nat, subscribed : BOOLEAN]
      /\ peer \in Nat /\ connections \in Nat /\ OneConnection /\ Between
  BY ShapesFromTypes DEF Stream, Shapes, Links
<1>1. CASE Apart
  <2>1. UNCHANGED <<peer, parser, missed>>
    BY <1>1, ApartIs DEF Stream
  <2>2. peer = NONE /\ link'.conn = NONE /\ pc'["host"] # "reset" =>
          link.conn = NONE /\ pc["host"] # "reset"
    <3>1. CASE \E t \in {"host", "console"} : AdvStop(t) \/ AdvStart(t)
      BY <1>0, <3>1 DEF AdvStop, AdvStart
    <3>2. CASE Pair \/ ConnectFails \/ Timeout \/ Receive
      BY <1>0, <3>2 DEF Pair, ConnectFails, Incoming, Timeout, Receive
    <3>3. CASE OnDisconnect
      BY <1>0, <3>3 DEF OnDisconnect
    <3>4. CASE Subscribe
      BY <1>0, <3>4 DEF Subscribe
    <3>5. CASE PushStatus
      BY <1>0, <3>5 DEF PushStatus
    <3>6. CASE \E t \in {"host", "push"} : Snapshot(t) \/ Notify(t) \/ Sent(t)
      BY <1>0, <3>6 DEF Snapshot, Notify, Sent
    <3>7. CASE UNCHANGED vars
      BY <3>7 DEF vars
    <3> QED
      BY <1>1, <3>1, <3>2, <3>3, <3>4, <3>5, <3>6, <3>7 DEF Apart
  <2> QED
    BY <1>0, <2>1, <2>2
<1>2. CASE Connect
  BY <1>2, LinkAssumption DEF Connect
<1>3. CASE LinkDown
  <2>1. link' = link /\ missed' = 0 /\ link.conn # NONE
    BY <1>0, <1>3 DEF LinkDown, OneConnection
  <2> QED
    BY <2>1
<1>4. CASE FrameReset
  BY <1>0, <1>4 DEF FrameReset
<1>5. CASE \E r \in Requests : Begin(r)
  BY <1>0, <1>5 DEF Begin, OneConnection
<1>6. CASE GiveUp \/ Write
  <2>1. client.request # Nothing
    <3>1. GiveUp => client.at # 0
      BY DEF GiveUp
    <3>2. Write => client.request # Nothing
      BY DEF Write
    <3> QED
      BY <1>6, <3>1, <3>2 DEF Stream, Place
  <2>2. peer # NONE
    BY <1>0, <2>1, ClientIsConnected
  <2> QED
    BY <1>6, <2>2 DEF GiveUp, Write
<1> QED
  BY <1>1, <1>2, <1>3, <1>4, <1>5, <1>6, NextIs

LEMMA StreamStep == ASSUME Stream, [Next]_vars PROVE Stream'
<1>1. TypeOK' /\ Links'
  BY TypedStep, LinksStep DEF Stream
<1> QED
  BY <1>1, PlaceStep, BetweenStep DEF Stream

LEMMA StreamHolds == Spec => []Stream
<1>1. Stream /\ [Next]_vars => Stream'
  BY StreamStep
<1> QED
  BY <1>1, StreamInit, PTL DEF Spec

-----------------------------------------------------------------------------
(* WHAT IS HEARD.                                                          *)

LEMMA WriteIs ==
    ASSUME Stream, Write,
           NEW r, r = client.request, NEW at, at = client.at,
           NEW h, h = Heard(parser, <<r, at + 1>>)
    PROVE  /\ r \in Requests /\ at \in Nat /\ at < Len(r) /\ parser \in Parsers
           /\ peer # NONE /\ peer' = peer /\ broken' = broken
           /\ parser' = Fed(parser, <<r, at + 1>>)
           /\ missed' = IF h # Nothing THEN 0
                        ELSE IF at + 1 = Len(r) THEN missed + 1 ELSE missed
           /\ IF at + 1 = Len(r) THEN client'.at = 0
              ELSE client'.request = r /\ client'.at = at + 1
<1>1. r \in Requests /\ at \in Nat /\ at < Len(r) /\ r # Nothing
  BY SendingIs DEF Write, Stream
<1>2. peer # NONE
  BY <1>1, ClientIsConnected DEF Stream, Links
<1>3. client \in Clients /\ parser \in Parsers
  BY DEF Stream, TypeOK
<1>4. IF at + 1 = Len(r) THEN client'.at = 0
      ELSE client'.request = r /\ client'.at = at + 1
  BY <1>1, <1>3 DEF Write, Clients
<1> QED
  BY <1>1, <1>2, <1>3, <1>4 DEF Write

(* A connection begins in step.                                            *)
LEMMA ConnectIs ==
    ASSUME Stream, Connect
    PROVE  /\ missed' = 0 /\ broken' = broken
           /\ InStep(parser', client'.request, client'.at)
<1>1. peer = NONE /\ link.conn = NONE /\ pc["host"] # "reset"
  BY DEF Connect, Incoming, At
<1>2. parser = Empty /\ missed = 0 /\ client = NewClient
  BY <1>1 DEF Stream, Between, Links, OneConnection
<1>3. client.at = 0
  BY <1>2 DEF NewClient
<1>4. InStep(parser, client.request, client.at)
  BY <1>2, <1>3 DEF InStep
<1> QED
  BY <1>2, <1>4 DEF Connect, session, ghost

(* A request is begun where the one before ended.                          *)
LEMMA BeginIs ==
    ASSUME Stream, NEW r \in Requests, Begin(r)
    PROVE  /\ UNCHANGED <<peer, parser, broken, missed>>
           /\ client.at = 0 /\ client'.at = 0
<1>1. client.request = Nothing /\ client \in Clients
  BY DEF Begin, Stream, TypeOK
<1>2. client.at = 0 /\ client'.at = client.at
  BY <1>1 DEF Begin, Stream, Place, Clients
<1> QED
  BY <1>2 DEF Begin, session, ghost

(* As long as no request was given up on a connection, the parser is in    *)
(* step with the client and nothing was missed.                            *)
Follows ==
    peer # NONE /\ broken = 0 =>
        missed = 0 /\ InStep(parser, client.request, client.at)

LEMMA FollowsStep ==
    ASSUME EndsOnce, Stream, Follows, [Next]_vars PROVE Follows'
<1>0. Counts
  BY DEF Stream
<1>1. CASE Apart
  BY <1>1, ApartIs DEF Stream, Follows
<1>2. CASE Connect
  BY <1>2, ConnectIs DEF Follows
<1>3. CASE LinkDown
  BY <1>3 DEF LinkDown, Follows
<1>4. CASE FrameReset
  <2>1. pc["host"] = "reset" /\ peer' = peer
    BY <1>4 DEF FrameReset, Move, At
  <2> QED
    BY <2>1 DEF Stream, Links, OneConnection, Follows
<1>5. CASE \E r \in Requests : Begin(r)
  <2>1. PICK r \in Requests : Begin(r)
    BY <1>5
  <2> QED
    BY <2>1, BeginIs DEF Follows, InStep
<1>6. CASE GiveUp
  BY <1>0, <1>6 DEF GiveUp, Follows, Counts
<1>7. CASE Write
  <2>1. PICK r, at, h : r = client.request /\ at = client.at
                          /\ h = Heard(parser, <<r, at + 1>>)
    OBVIOUS
  <2>2. /\ r \in Requests /\ at \in Nat /\ at < Len(r)
        /\ peer # NONE /\ peer' = peer /\ broken' = broken
        /\ parser' = Fed(parser, <<r, at + 1>>)
        /\ missed' = IF h # Nothing THEN 0
                     ELSE IF at + 1 = Len(r) THEN missed + 1 ELSE missed
        /\ IF at + 1 = Len(r) THEN client'.at = 0
           ELSE client'.request = r /\ client'.at = at + 1
    BY <1>7, <2>1, WriteIs
  <2>3. SUFFICES ASSUME broken = 0
                 PROVE  missed' = 0 /\ InStep(parser', client'.request, client'.at)
    BY <2>2 DEF Follows
  <2>4. missed = 0 /\ InStep(parser, r, at)
    BY <2>1, <2>2, <2>3 DEF Follows
  <2>5. \/ h # Nothing /\ at + 1 = Len(r) /\ parser' = Empty
        \/ h = Nothing /\ at + 1 < Len(r) /\ InStep(parser', r, at + 1)
    BY <2>1, <2>2, <2>4, ByteInStep
  <2>6. CASE at + 1 = Len(r)
    BY <2>2, <2>5, <2>6 DEF InStep
  <2>7. CASE at + 1 # Len(r)
    BY <2>2, <2>4, <2>5, <2>7
  <2> QED
    BY <2>6, <2>7
<1> QED
  BY <1>1, <1>2, <1>3, <1>4, <1>5, <1>6, <1>7, NextIs

(* The bytes of requests whose end cannot be mistaken are cut into frames  *)
(* by try_parse where the client cut them: as long as none was given up on *)
(* this connection, none is missed.                                        *)
THEOREM HearsAll == ASSUME EndsOnce PROVE Spec => []Hears
<1>1. Init => Follows
  BY DEF Init, Follows
<1>2. Stream /\ Follows /\ [Next]_vars => Follows'
  BY FollowsStep
<1>3. Stream /\ Follows => Hears
  BY DEF Stream, Counts, Between, Follows, Hears
<1> QED
  BY <1>1, <1>2, <1>3, StreamHolds, PTL DEF Spec

(* A parser that is off misses no more requests than those given up on     *)
(* this connection may still cost, those it has missed counted.            *)
Owes(p, r, at, missing, given) ==
    \E m \in Nat : Off(p, r, at, m) /\ missing + m <= given * Budget

Owing == peer # NONE => Owes(parser, client.request, client.at, missed, broken)

LEMMA Product ==
    ASSUME NEW n \in Nat
    PROVE  n * Budget \in Nat /\ (n + 1) * Budget = n * Budget + Budget
<1>1. Budget \in Nat
  BY BudgetIs
<1>2. \A k \in Nat : n * k \in Nat /\ (n + 1) * k = n * k + k
  OBVIOUS
<1> QED
  BY <1>1, <1>2

LEMMA OwesInStep ==
    ASSUME NEW p, NEW r, NEW at, InStep(p, r, at), NEW n \in Nat
    PROVE  Owes(p, r, at, 0, n)
<1>1. Off(p, r, at, 0) /\ 0 + 0 <= n * Budget
  BY Product DEF Off
<1> QED
  BY <1>1 DEF Owes

LEMMA OwingWrite == ASSUME EndsOnce, StartsOnce, Stream, Owing, Write PROVE Owing'
<1>1. PICK r, at, h : r = client.request /\ at = client.at
                        /\ h = Heard(parser, <<r, at + 1>>)
  OBVIOUS
<1>2. /\ r \in Requests /\ at \in Nat /\ at < Len(r) /\ parser \in Parsers
      /\ peer # NONE /\ peer' = peer /\ broken' = broken
      /\ parser' = Fed(parser, <<r, at + 1>>)
      /\ missed' = IF h # Nothing THEN 0
                   ELSE IF at + 1 = Len(r) THEN missed + 1 ELSE missed
      /\ IF at + 1 = Len(r) THEN client'.at = 0
         ELSE client'.request = r /\ client'.at = at + 1
  BY <1>1, WriteIs
<1>3. SUFFICES Owes(parser', client'.request, client'.at, missed', broken)
  BY <1>2 DEF Owing
<1>4. missed \in Nat /\ broken \in Nat /\ broken * Budget \in Nat
  BY Product DEF Stream, Counts
<1>5. PICK m \in Nat : Off(parser, r, at, m) /\ missed + m <= broken * Budget
  BY <1>1, <1>2 DEF Owing, Owes
<1>6. \/ h # Nothing /\ at + 1 = Len(r) /\ parser' = Empty
      \/ h = Nothing /\ at + 1 = Len(r) /\ m > 0 /\ Off(parser', r, 0, m - 1)
      \/ h = Nothing /\ at + 1 < Len(r) /\ Off(parser', r, at + 1, m)
  BY <1>1, <1>2, <1>5, OneByte
<1>7. CASE h # Nothing
  <2>1. missed' = 0 /\ client'.at = 0 /\ parser' = Empty
    BY <1>2, <1>6, <1>7
  <2>2. InStep(parser', client'.request, 0)
    BY <2>1 DEF InStep
  <2> QED
    BY <1>4, <2>1, <2>2, OwesInStep
<1>8. CASE h = Nothing /\ at + 1 = Len(r)
  <2>1. m > 0 /\ Off(parser', r, 0, m - 1)
    BY <1>2, <1>6, <1>8
  <2>2. missed' = missed + 1 /\ client'.at = 0
    BY <1>2, <1>8
  <2>3. Off(parser', client'.request, 0, m - 1)
    BY <2>1, AnyNext
  <2>4. m - 1 \in Nat /\ missed' + (m - 1) <= broken * Budget
    BY <1>4, <1>5, <2>1, <2>2
  <2> QED
    BY <2>2, <2>3, <2>4 DEF Owes
<1>9. CASE h = Nothing /\ at + 1 # Len(r)
  <2>1. Off(parser', r, at + 1, m)
    BY <1>6, <1>9
  <2>2. missed' = missed /\ client'.request = r /\ client'.at = at + 1
    BY <1>2, <1>9
  <2> QED
    BY <1>5, <2>1, <2>2 DEF Owes
<1> QED
  BY <1>7, <1>8, <1>9

LEMMA OwingGiveUp == ASSUME Stream, Owing, GiveUp PROVE Owing'
<1>1. client \in Clients /\ parser \in Parsers /\ client.at > 0 /\ client.at \in Nat
  BY DEF GiveUp, Stream, TypeOK, Clients
<1>2. client.request # Nothing
  BY <1>1 DEF Stream, Place
<1>3. client.request \in Requests /\ client.at < Len(client.request)
  BY <1>2, SendingIs DEF Stream
<1>4. peer # NONE
  BY <1>2, ClientIsConnected DEF Stream, Links
<1>5. PICK m \in Nat : /\ Off(parser, client.request, client.at, m)
                       /\ missed + m <= broken * Budget
  BY <1>4 DEF Owing, Owes
<1>6. Off(parser, client'.request, 0, Budget)
  BY <1>1, <1>3, <1>5, GivenUp
<1>7. missed + Budget <= (broken + 1) * Budget /\ Budget \in Nat
  <2>1. missed \in Nat /\ broken \in Nat /\ Budget \in Nat
    BY BudgetIs DEF Stream, Counts
  <2>2. broken * Budget \in Nat /\ (broken + 1) * Budget = broken * Budget + Budget
    BY <2>1, Product
  <2> QED
    BY <1>5, <2>1, <2>2
<1>8. /\ client'.at = 0 /\ broken' = broken + 1
      /\ UNCHANGED <<peer, parser, missed>>
  BY <1>1 DEF GiveUp, Clients, session
<1> QED
  BY <1>6, <1>7, <1>8 DEF Owing, Owes

LEMMA OwingStep ==
    ASSUME EndsOnce, StartsOnce, Stream, Owing, [Next]_vars PROVE Owing'
<1>1. CASE Apart
  BY <1>1, ApartIs DEF Stream, Owing
<1>2. CASE Connect
  <2>1. broken \in Nat
    BY DEF Stream, Counts
  <2>2. Owes(parser', client'.request, client'.at, 0, broken)
    BY <1>2, <2>1, ConnectIs, OwesInStep
  <2> QED
    BY <1>2, <2>2, ConnectIs DEF Owing
<1>3. CASE LinkDown
  BY <1>3 DEF LinkDown, Owing
<1>4. CASE FrameReset
  <2>1. pc["host"] = "reset" /\ peer' = peer
    BY <1>4 DEF FrameReset, Move, At
  <2> QED
    BY <2>1 DEF Stream, Links, OneConnection, Owing
<1>5. CASE \E r \in Requests : Begin(r)
  <2>1. PICK r \in Requests : Begin(r)
    BY <1>5
  <2>2. UNCHANGED <<peer, parser, broken, missed>> /\ client.at = 0 /\ client'.at = 0
    BY <2>1, BeginIs
  <2>3. SUFFICES ASSUME peer # NONE
                 PROVE  Owes(parser, client'.request, 0, missed, broken)
    BY <2>2 DEF Owing
  <2>4. PICK m \in Nat : /\ Off(parser, client.request, 0, m)
                         /\ missed + m <= broken * Budget
    BY <2>2, <2>3 DEF Owing, Owes
  <2>5. Off(parser, client'.request, 0, m)
    BY <2>4, AnyNext
  <2> QED
    BY <2>4, <2>5 DEF Owes
<1> QED
  BY <1>1, <1>2, <1>3, <1>4, <1>5, OwingGiveUp, OwingWrite, NextIs

(* A client that gives a request up and sends others is heard again soon:  *)
(* what the buffer still holds of it swallows no more of the next requests *)
(* than its size allows, and the one it ends in.                           *)
THEOREM RecoversSoon == ASSUME EndsOnce, StartsOnce PROVE Spec => []Recovers
<1>1. Init => Owing
  BY DEF Init, Owing
<1>2. Stream /\ Owing /\ [Next]_vars => Owing'
  BY OwingStep
<1>3. Stream /\ Owing => Recovers
  <2> SUFFICES ASSUME Stream, Owing PROVE missed <= broken * Budget
    BY DEF Recovers, Budget
  <2>1. missed \in Nat /\ broken * Budget \in Nat
    BY Product DEF Stream, Counts
  <2>2. CASE peer = NONE
    BY <2>1, <2>2 DEF Stream, Between
  <2>3. CASE peer # NONE
    <3>1. PICK m \in Nat : missed + m <= broken * Budget
      BY <2>3 DEF Owing, Owes
    <3> QED
      BY <2>1, <3>1
  <2> QED
    BY <2>2, <2>3
<1> QED
  BY <1>1, <1>2, <1>3, StreamHolds, PTL DEF Spec
=============================================================================
