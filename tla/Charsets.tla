-------------------------------- MODULE Charsets --------------------------------
(***************************************************************************)
(* What java.io.InputStreamReader and String.getBytes() (external) make of *)
(* bytes, in the default charset of the platform. A character stands for   *)
(* itself by the bytes that getBytes() writes for it.                      *)
(***************************************************************************)
EXTENDS Integers, Sequences

Charset == {"UTF-8", "ISO-8859-1"}

\* U+FFFD in UTF-8, for whatever is malformed.
Replacement == <<239, 191, 189>>

\* The bytes of a character of UTF-8 that begins with this one; 0 if none does.
Utf8Length(lead) ==
  IF lead < 128 THEN 1
  ELSE IF lead \in 194..223 THEN 2
  ELSE IF lead \in 224..239 THEN 3
  ELSE IF lead \in 240..244 THEN 4
  ELSE 0

\* What may follow as the second byte: no overlong forms, no surrogates.
SecondBytes(lead) ==
  CASE lead = 224 -> 160..191
    [] lead = 237 -> 128..159
    [] lead = 240 -> 144..191
    [] lead = 244 -> 128..143
    [] OTHER -> 128..191

\* The longest beginning of a character at position i.
ValidBytes(bytes, i) ==
  LET most == IF Utf8Length(bytes[i]) <= Len(bytes) - i + 1
                THEN Utf8Length(bytes[i]) ELSE Len(bytes) - i + 1
      follows(k) == bytes[i + k] \in IF k = 1 THEN SecondBytes(bytes[i]) ELSE 128..191
  IN  CHOOSE n \in 0..most :
        /\ \A k \in 1..(n - 1) : follows(k)
        /\ n < most => n > 0 /\ ~follows(n)

\* The characters of which all bytes are there.
\* (At the end of the stream a beginning that is left would be one more
\* replacement; a body that ends so is short, and dropped either way.)
Utf8Characters(bytes) ==
  LET from[i \in 1..(Len(bytes) + 1)] ==
        IF i > Len(bytes) THEN <<>>
        ELSE LET n == ValidBytes(bytes, i)
                 complete == n > 0 /\ n = Utf8Length(bytes[i])
             IN  IF complete THEN <<SubSeq(bytes, i, i + n - 1)>> \o from[i + n]
                 ELSE IF n > 0 /\ i + n > Len(bytes) THEN <<>>
                 ELSE <<Replacement>> \o from[i + (IF n = 0 THEN 1 ELSE n)]
  IN  from[1]

Characters(charset, bytes) ==
  IF charset = "UTF-8" THEN Utf8Characters(bytes)
  ELSE [i \in 1..Len(bytes) |-> <<bytes[i]>>]

\* getBytes()
BytesOf(characters) ==
  LET upTo[i \in 0..Len(characters)] ==
        IF i = 0 THEN <<>> ELSE upTo[i - 1] \o characters[i]
  IN  upTo[Len(characters)]
================================================================================
