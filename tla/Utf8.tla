-------------------------------- MODULE Utf8 --------------------------------
(***************************************************************************)
(* mosquitto_validate_utf8() (lib/utf8_mosq.c), compared with the encoding *)
(* of the code points it is meant to admit.  A text grows byte by byte;    *)
(* the bytes are followed by the terminating zero every caller in the      *)
(* broker and the library provides.                                        *)
(***************************************************************************)
EXTENDS Integers, Sequences

CONSTANTS Bytes, MaxText    \* the bytes tried; bound on the length
VARIABLE text

(* The length of the sequence a byte begins, 0 when it can begin none. *)
CodeLen(b) ==
    CASE b \in 1..127   -> 1
      [] b \in 194..223 -> 2
      [] b \in 224..239 -> 3
      [] b \in 240..244 -> 4
      [] OTHER          -> 0

\* Mutant: overlong three byte forms are let through.
OverlongAdmitted(codelen, c) ==
    /\ c \notin 55296..57343
    /\ codelen = 4 => c \in 65536..1114111
    /\ c \notin 64976..65007
    /\ c % 65536 \notin {65534, 65535}
    /\ c \notin 0..31 \cup 127..159

(* Surrogates, overlong and out of range forms, non-characters and control *)
(* characters are refused.                                                 *)
PointOk(codelen, c) ==
    /\ c \notin 55296..57343
    /\ codelen = 3 => c >= 2048
    /\ codelen = 4 => c \in 65536..1114111
    /\ c \notin 64976..65007
    /\ c % 65536 \notin {65534, 65535}
    /\ c \notin 0..31 \cup 127..159

(* The code point whose first byte is at i, the bytes after it being       *)
(* continuation bytes.                                                     *)
CodePoint(s, i, n) ==
    LET cont(k) == s[i + k] % 64
    IN  CASE n = 1 -> s[i]
          [] n = 2 -> (s[i] % 32) * 64 + cont(1)
          [] n = 3 -> (s[i] % 16) * 4096 + cont(1) * 64 + cont(2)
          [] n = 4 -> (s[i] % 8) * 262144 + cont(1) * 4096 + cont(2) * 64 + cont(3)

(* The loop from index i on.  "Not enough data" is noticed when exactly    *)
(* one byte is missing; when more are, the terminating zero is.            *)
RECURSIVE ValidFrom(_, _)
ValidFrom(s, i) ==
    LET n == CodeLen(s[i])
        z == s \o <<0, 0, 0>>
    IN  \/ i > Len(s)
        \/ /\ n # 0
           /\ i - 1 # Len(s) - n + 1
           /\ \A k \in 1..(n - 1) : z[i + k] \div 64 = 2
           /\ PointOk(n, CodePoint(z, i, n))
           /\ ValidFrom(s, i + n)

mosquitto_validate_utf8(s) == IF s = <<>> THEN TRUE ELSE ValidFrom(s, 1)

-----------------------------------------------------------------------------

Init == text = <<>>
Next == Len(text) < MaxText /\ \E b \in Bytes : text' = Append(text, b)

(* The reference: the encoding of a code point, and the points admitted.   *)
Encode(c) ==
    CASE c < 128   -> <<c>>
      [] c < 2048  -> <<192 + c \div 64, 128 + (c % 64)>>
      [] c < 65536 -> <<224 + c \div 4096, 128 + ((c \div 64) % 64), 128 + (c % 64)>>
      [] OTHER     -> <<240 + c \div 262144, 128 + ((c \div 4096) % 64),
                        128 + ((c \div 64) % 64), 128 + (c % 64)>>

Admitted(c) ==
    /\ c \in 32..1114111
    /\ c \notin 127..159 \cup 55296..57343 \cup 64976..65007
    /\ c % 65536 < 65534

(* The one code point a sequence of bytes could be the encoding of. *)
Decode(s) ==
    CASE Len(s) = 1 -> s[1]
      [] Len(s) = 2 -> (s[1] - 192) * 64 + s[2] - 128
      [] Len(s) = 3 -> (s[1] - 224) * 4096 + (s[2] - 128) * 64 + s[3] - 128
      [] Len(s) = 4 -> (s[1] - 240) * 262144 + (s[2] - 128) * 4096 + (s[3] - 128) * 64
                       + s[4] - 128

RECURSIVE IsText(_)
IsText(s) ==
    \/ s = <<>>
    \/ \E n \in 1..4 :
        /\ n <= Len(s)
        /\ \E p \in {SubSeq(s, 1, n)} : Admitted(Decode(p)) /\ Encode(Decode(p)) = p
        /\ IsText(SubSeq(s, n + 1, Len(s)))

(* mosquitto_validate_utf8() accepts exactly the concatenated encodings of *)
(* admitted code points, whatever bytes it is given and wherever they end. *)
Utf8Exact == mosquitto_validate_utf8(text) = IsText(text)
=============================================================================
