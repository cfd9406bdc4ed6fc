---------------------------- MODULE RouterProofs ----------------------------
(***************************************************************************)
(* Proofs about the router, for any servers, descriptors, commands and     *)
(* bounds.                                                                 *)
(*                                                                         *)
(* RespStream: wherever reads cut the bytes, no word is torn or joined     *)
(* with another; what a follower is sent of an entry is the command the    *)
(* leader ran; and, while each read returns one packet, the answers        *)
(* printed are the right ones.                                             *)
(*                                                                         *)
(* UserRouter: no pointer of the router dangles, what is meant for the     *)
(* current server goes nowhere else, and, when no server is connected      *)
(* twice, every connection has exactly one role.                           *)
(***************************************************************************)
EXTENDS UserRouter, RespStream, SequenceTheorems, FiniteSetTheorems,
        NaturalsInduction, WellFoundedInduction, TLAPS

-----------------------------------------------------------------------------
(* Counting, as an induction over a set of numbers.                          *)

\* A set of numbers has a least.
LEMMA LeastOf ==
  ASSUME NEW S \in SUBSET Nat, S # {}
  PROVE  \E m \in S : \A i \in S : m <= i
<1> DEFINE R == OpToRel(<, Nat)
<1>1. \E m \in S : \A i \in S : ~(<<i, m>> \in R)
  BY NatLessThanWellFounded, WFMin
<1>2. \A i, m \in Nat : i < m => <<i, m>> \in R
  BY DEF OpToRel
<1>3. PICK m \in S : \A i \in S : ~(<<i, m>> \in R)
  BY <1>1
<1> HIDE DEF R
<1>4. ASSUME NEW i \in S PROVE m <= i
  <2>1. m \in Nat /\ i \in Nat
    OBVIOUS
  <2>2. ~(i < m)
    BY <1>2, <1>3, <2>1
  <2> QED BY <2>1, <2>2
<1> QED BY <1>4

\* What holds at 0 and is passed on holds up to n.
LEMMA CountUp ==
  ASSUME NEW n \in Nat, NEW P, 0 \in P,
         \A i \in 1..n : i - 1 \in P => i \in P
  PROVE  \A i \in 0..n : i \in P
<1> DEFINE Bad == {k \in 0..n : k \notin P}
<1>1. Bad = {}
  <2> SUFFICES ASSUME Bad # {} PROVE FALSE
    OBVIOUS
  <2>1. PICK k \in Bad : \A l \in Bad : k <= l
    <3>1. Bad \in SUBSET Nat
      OBVIOUS
    <3> HIDE DEF Bad
    <3> QED BY <3>1, LeastOf
  <2>2. k \in 0..n /\ k \notin P
    BY <2>1
  <2>3. k \in 1..n /\ k - 1 \in 0..n /\ ~(k <= k - 1)
    BY <2>2
  <2>4. k - 1 \notin Bad
    <3> HIDE DEF Bad
    <3> QED BY <2>1, <2>3
  <2>5. k - 1 \in P
    BY <2>3, <2>4
  <2> QED BY <2>2, <2>3, <2>5
<1> QED BY <1>1

-----------------------------------------------------------------------------
(* Bytes, words and commands.                                                *)

\* Bytes: digits, words of the program, and what the words typed are made of.
Decimals == {"0", "1", "2", "3", "4", "5", "6", "7", "8", "9"}

Letters == {"set", "get", "del", "+", "-", ":", "OK", "ERROR", "MISSING", "SYN", "times", "?", "nil"}

Byte == STRING \cup Special \cup Decimals \cup Letters

Text == Seq(Byte)

\* What the encoding reads back: words without special bytes, and sequences of them.
AWord(w) == w \in Text /\ w # <<>> /\ \A i \in 1..Len(w) : w[i] \notin Special

ACommand(c) == c \in Seq(Text) /\ c # <<>> /\ \A i \in 1..Len(c) : AWord(c[i])

\* No digit and no word of the program is a special byte.
LEMMA BytesAre ==
  /\ Special \subseteq Byte /\ Decimals \subseteq Byte /\ Letters \subseteq Byte
     /\ STRING \subseteq Byte
  /\ \A b \in Decimals \cup Letters : b \notin Special
BY DEF Byte, Special, Decimals, Letters, CR, LF

\* What is typed is a command.
LEMMA LinesAre ==
  ASSUME NEW line \in Line
  PROVE  ACommand(line)
<1>1. line \in Seq(Seq(STRING)) /\ line # <<>>
  BY RespConstants
<1>2. \A i \in 1..Len(line) : line[i] \in Seq(STRING) /\ i \in DOMAIN line
  BY <1>1
<1>3. ASSUME NEW i \in 1..Len(line) PROVE AWord(line[i])
  <2>1. /\ line[i] \in Seq(STRING) /\ line[i] # <<>>
        /\ \A j \in DOMAIN line[i] : line[i][j] \notin Special
    BY <1>2, RespConstants
  <2>2. \A j \in 1..Len(line[i]) : line[i][j] \in Byte
    <3> SUFFICES ASSUME NEW j \in 1..Len(line[i]) PROVE line[i][j] \in Byte
      OBVIOUS
    <3>1. line[i][j] \in STRING
      BY <2>1
    <3> QED BY <3>1, BytesAre
  <2>3. line[i] \in Text
    BY <2>1, <2>2 DEF Text
  <2> QED BY <2>1, <2>3 DEF AWord
<1>4. line \in Seq(Text)
  BY <1>1, <1>3 DEF AWord
<1> QED BY <1>1, <1>3, <1>4 DEF ACommand

\* Digit has digits.
LEMMA DigitIs ==
  \A i \in 1..10 : Digit[i] \in Decimals
<1>1. \A i \in 1..10 : i = 1 \/ i = 2 \/ i = 3 \/ i = 4 \/ i = 5 \/ i = 6 \/ i = 7 \/ i = 8 \/ i = 9 \/ i = 10
  OBVIOUS
<1> QED BY <1>1 DEF Digit, Decimals

-----------------------------------------------------------------------------
(* What to_string writes.                                                    *)

\* The function of ToDigits; it exists, so what its CHOOSE returns is known.
DigitsOf(n, d) ==
  d = [m \in 0..n |-> IF m < 10 THEN <<Digit[m + 1]>> ELSE Append(d[m \div 10], Digit[(m % 10) + 1])]

\* The step of ToDigits is to a smaller number.
LEMMA Tenth ==
  ASSUME NEW m \in Nat, m >= 10
  PROVE  m \div 10 \in 0..m - 1 /\ (m % 10) + 1 \in 1..10
OBVIOUS

\* ToDigits is defined for every number.
LEMMA DigitsExist ==
  ASSUME NEW n \in Nat
  PROVE  \E d : DigitsOf(n, d)
<1>1. PICK P : P = {k \in 0..n : \E d : DigitsOf(k, d)}
  OBVIOUS
<1>2. 0 \in P
  <2>1. DigitsOf(0, [m \in 0..0 |-> <<Digit[m + 1]>>])
    BY DEF DigitsOf
  <2> QED BY <1>1, <2>1
<1>3. ASSUME NEW k \in 1..n, k - 1 \in P PROVE k \in P
  <2>1. PICK d : DigitsOf(k - 1, d)
    BY <1>1, <1>3
  <2> DEFINE step(e, m) == IF m < 10 THEN <<Digit[m + 1]>> ELSE Append(e[m \div 10], Digit[(m % 10) + 1])
             g == [m \in 0..k |-> IF m < k THEN d[m] ELSE step(d, m)]
  <2>2. \A m \in 0..k - 1 : d[m] = step(d, m) /\ g[m] = d[m]
    <3>1. \A m \in 0..k - 1 : m \in 0..k /\ m < k
      OBVIOUS
    <3>2. \A m \in 0..k - 1 : g[m] = d[m]
      BY <3>1
    <3>3. d = [m \in 0..k - 1 |-> step(d, m)]
      BY <2>1 DEF DigitsOf
    <3> HIDE DEF step, g
    <3> QED BY <3>2, <3>3
  <2>3. g[k] = step(d, k)
    OBVIOUS
  <2>4. ASSUME NEW m \in 0..k PROVE g[m] = step(g, m)
    <3>1. CASE m < 10
      <4>1. step(g, m) = <<Digit[m + 1]>> /\ step(d, m) = <<Digit[m + 1]>>
        BY <3>1
      <4>2. m \in 0..k - 1 \/ m = k
        OBVIOUS
      <4> QED BY <2>2, <2>3, <4>1, <4>2
    <3>2. CASE ~(m < 10)
      <4>1. m \div 10 \in 0..m - 1
        BY <3>2, Tenth
      <4>2. m \div 10 \in 0..k - 1
        BY <4>1
      <4>3. g[m \div 10] = d[m \div 10]
        BY <2>2, <4>2
      <4>4. step(g, m) = step(d, m)
        BY <4>3
      <4>5. m \in 0..k - 1 \/ m = k
        OBVIOUS
      <4> HIDE DEF step, g
      <4> QED BY <2>2, <2>3, <4>4, <4>5
    <3> QED BY <3>1, <3>2
  <2>5. g = [m \in 0..k |-> g[m]]
    OBVIOUS
  <2> HIDE DEF g
  <2>6. DigitsOf(k, g)
    BY <2>4, <2>5 DEF DigitsOf
  <2>7. k \in 0..n
    OBVIOUS
  <2> QED BY <1>1, <2>6, <2>7
<1>4. \A k \in 0..n : k \in P
  BY <1>2, <1>3, CountUp
<1> QED BY <1>1, <1>4

(* A number is written as at least one digit. *)
Numeral(t) == t \in Text /\ t # <<>> /\ \A i \in 1..Len(t) : t[i] \in Decimals

\* A number is encoded as digits, one below 10 as one.
LEMMA DigitsAre ==
  ASSUME NEW n \in Nat
  PROVE  Numeral(ToDigits(n)) /\ (n < 10 => ToDigits(n) = <<Digit[n + 1]>>)
<1> DEFINE d == CHOOSE d : DigitsOf(n, d)
<1>1. DigitsOf(n, d)
  BY DigitsExist
<1>2. ToDigits(n) = d[n]
  BY DEF ToDigits, DigitsOf
<1>3. PICK e : e = d
  OBVIOUS
<1>4. \A m \in 0..n : e[m] = IF m < 10 THEN <<Digit[m + 1]>> ELSE Append(e[m \div 10], Digit[(m % 10) + 1])
  BY <1>1, <1>3 DEF DigitsOf
<1>5. PICK P : P = {k \in 0..n : \A m \in 0..k : Numeral(e[m])}
  OBVIOUS
<1>6. ASSUME NEW m \in 0..n, m < 10 PROVE Numeral(e[m]) /\ e[m] = <<Digit[m + 1]>>
  <2>1. e[m] = <<Digit[m + 1]>>
    <3>1. e[m] = IF m < 10 THEN <<Digit[m + 1]>> ELSE Append(e[m \div 10], Digit[(m % 10) + 1])
      BY <1>4
    <3> QED BY <1>6, <3>1
  <2>3. m + 1 \in 1..10
    BY <1>6
  <2>2. Digit[m + 1] \in Decimals /\ Digit[m + 1] \in Byte
    BY <2>3, DigitIs, BytesAre
  <2> QED BY <2>1, <2>2 DEF Numeral, Text
<1>7. 0 \in P
  BY <1>5, <1>6
<1>8. ASSUME NEW k \in 1..n, k - 1 \in P PROVE k \in P
  <2>1. \A m \in 0..k - 1 : Numeral(e[m])
    BY <1>5, <1>8
  <2>2. CASE k < 10
    BY <1>5, <1>6, <2>1, <2>2
  <2>3. CASE ~(k < 10)
    <3>1. k \div 10 \in 0..k - 1 /\ (k % 10) + 1 \in 1..10 /\ k \in 0..n
      BY <2>3, Tenth
    <3>2. PICK t, b : t = e[k \div 10] /\ b = Digit[(k % 10) + 1]
      OBVIOUS
    <3>3. Numeral(t) /\ b \in Decimals /\ b \in Byte
      BY <2>1, <3>1, <3>2, DigitIs, BytesAre
    <3>4. e[k] = Append(t, b)
      BY <1>4, <2>3, <3>1, <3>2
    <3>5. Numeral(e[k])
      BY <3>3, <3>4 DEF Numeral, Text
    <3> QED BY <1>5, <2>1, <3>1, <3>5
  <2> QED BY <2>2, <2>3
<1>9. \A k \in 0..n : k \in P
  BY <1>7, <1>8, CountUp
<1>10. n \in 0..n
  OBVIOUS
<1>11. Numeral(e[n])
  BY <1>5, <1>9, <1>10
<1> HIDE DEF d
<1> QED BY <1>2, <1>3, <1>6, <1>10, <1>11

-----------------------------------------------------------------------------
(* Where a packet has its words.                                             *)

\* Digits of the length of a word, and bytes of its bulk.
Width(w) == Len(ToDigits(Len(w)))

Size(w) == Width(w) + Len(w) + 5

\* Behind the first o bytes of p comes the bulk of w, with d digits.
BulkAt(p, o, w, d) ==
  /\ p[o + 1] = "$"
  /\ \A i \in 1..d : p[o + 1 + i] \in Decimals
  /\ p[o + d + 2] = CR /\ p[o + d + 3] = LF
  /\ \A i \in 1..Len(w) : p[o + d + 3 + i] = w[i]
  /\ p[o + d + Len(w) + 4] = CR /\ p[o + d + Len(w) + 5] = LF

\* p is the packet of c, and e[k] the end of its k-th bulk.
LaidOut(p, c, e) ==
  /\ p \in Text /\ e \in [0..Len(c) -> Nat] /\ Len(p) = e[Len(c)] /\ e[0] >= 4
  /\ p[1] = "*" /\ \A i \in 2..e[0] : p[i] \notin {"*", "$"}
  /\ \A k \in 1..Len(c) : e[k] = e[k - 1] + Size(c[k]) /\ BulkAt(p, e[k - 1], c[k], Width(c[k]))

\* Two texts, one behind the other.
LEMMA Joins ==
  ASSUME NEW p \in Text, NEW q \in Text
  PROVE  /\ p \o q \in Text /\ Len(p \o q) = Len(p) + Len(q)
         /\ \A i \in 1..Len(p) : (p \o q)[i] = p[i]
         /\ \A i \in 1..Len(q) : (p \o q)[Len(p) + i] = q[i]
BY DEF Text

\* r is p, of n bytes, and behind it q, of k.
Joined(p, n, q, k, r) ==
  /\ r \in Text /\ Len(r) = n + k
  /\ \A i \in 1..n : r[i] = p[i]
  /\ \A i \in 1..k : r[n + i] = q[i]

\* The same in one predicate.
LEMMA JoinsTo ==
  ASSUME NEW p \in Text, NEW q \in Text
  PROVE  Joined(p, Len(p), q, Len(q), p \o q) /\ Len(p) \in Nat /\ Len(q) \in Nat
<1>1. Len(p) \in Nat /\ Len(q) \in Nat
  BY DEF Text
<1> QED BY <1>1, Joins DEF Joined

\* Widths and sizes are numbers.
LEMMA WidthIs ==
  ASSUME NEW w \in Text
  PROVE  Width(w) \in Nat \ {0} /\ Len(w) \in Nat /\ Size(w) \in Nat /\ Numeral(ToDigits(Len(w)))
<1>1. Len(w) \in Nat
  BY DEF Text
<1>2. Numeral(ToDigits(Len(w)))
  BY <1>1, DigitsAre
<1>3. \A t : Numeral(t) => Len(t) \in Nat \ {0}
  BY DEF Numeral, Text
<1> QED BY <1>1, <1>2, <1>3 DEF Width, Size

\* The two bytes at the end of a line.
LEMMA CrLf ==
  CRLF \in Text /\ Len(CRLF) = 2 /\ CRLF[1] = CR /\ CRLF[2] = LF
<1>1. CR \in Byte /\ LF \in Byte
  BY BytesAre DEF Special
<1> QED BY <1>1 DEF CRLF, Text

\* A word's bulk: a dollar, the length, the word.
LEMMA BulkIs ==
  ASSUME NEW w \in Text
  PROVE  Bulk(w) \in Text /\ Len(Bulk(w)) = Size(w) /\ BulkAt(Bulk(w), 0, w, Width(w))
<1> DEFINE t == ToDigits(Len(w))
<1>1. PICK d, l, s, u, v, x, y :
        d = Width(w) /\ l = Len(w) /\ s = <<"$">> /\ u = s \o t /\ v = u \o CRLF /\ x = v \o w
          /\ y = x \o CRLF
  OBVIOUS
<1>2. /\ t \in Text /\ Len(t) = d /\ d \in Nat \ {0} /\ l \in Nat /\ w \in Text
      /\ \A i \in 1..d : t[i] \in Decimals
  BY <1>1, WidthIs DEF Width, Numeral
<1>3. s \in Text /\ Len(s) = 1 /\ s[1] = "$"
  <2>1. "$" \in Byte
    BY BytesAre DEF Special
  <2> QED BY <1>1, <2>1 DEF Text
<1> HIDE DEF t
<1>4. /\ u \in Text /\ Len(u) = d + 1 /\ u[1] = "$"
      /\ \A i \in 1..d : u[1 + i] = t[i]
  BY <1>1, <1>2, <1>3, Joins
<1>5. /\ v \in Text /\ Len(v) = d + 3
      /\ \A i \in 1..d + 1 : v[i] = u[i]
      /\ v[d + 2] = CR /\ v[d + 3] = LF
  <2>1. 1 \in 1..2 /\ 2 \in 1..2 /\ (d + 1) + 1 = d + 2 /\ (d + 1) + 2 = d + 3
    BY <1>2
  <2>2. /\ v \in Text /\ Len(v) = (d + 1) + 2
        /\ \A i \in 1..d + 1 : v[i] = u[i]
        /\ \A i \in 1..2 : v[(d + 1) + i] = CRLF[i]
    <3>1. Joined(u, Len(u), CRLF, Len(CRLF), v)
      BY <1>1, <1>4, CrLf, JoinsTo
    <3>2. Joined(u, d + 1, CRLF, 2, v)
      BY <1>4, <3>1, CrLf
    <3> QED BY <3>2 DEF Joined
  <2> QED BY <2>1, <2>2, CrLf
<1>6. /\ x \in Text /\ Len(x) = d + 3 + l
      /\ \A i \in 1..d + 3 : x[i] = v[i]
      /\ \A i \in 1..l : x[d + 3 + i] = w[i]
  <2>1. /\ x \in Text /\ Len(x) = (d + 3) + l
        /\ \A i \in 1..d + 3 : x[i] = v[i]
        /\ \A i \in 1..l : x[(d + 3) + i] = w[i]
    <3>1. Joined(v, Len(v), w, Len(w), x)
      BY <1>1, <1>5, JoinsTo
    <3>2. Joined(v, d + 3, w, l, x)
      BY <1>1, <1>5, <3>1
    <3> QED BY <3>2 DEF Joined
  <2> QED BY <2>1
<1>7. /\ y \in Text /\ Len(y) = d + l + 5
      /\ \A i \in 1..d + 3 + l : y[i] = x[i]
      /\ y[d + l + 4] = CR /\ y[d + l + 5] = LF
  <2>1. 1 \in 1..2 /\ 2 \in 1..2 /\ (d + 3 + l) + 1 = d + l + 4 /\ (d + 3 + l) + 2 = d + l + 5
    BY <1>2
  <2>2. /\ y \in Text /\ Len(y) = (d + 3 + l) + 2
        /\ \A i \in 1..d + 3 + l : y[i] = x[i]
        /\ \A i \in 1..2 : y[(d + 3 + l) + i] = CRLF[i]
    <3>1. Joined(x, Len(x), CRLF, Len(CRLF), y)
      BY <1>1, <1>6, CrLf, JoinsTo
    <3>2. Joined(x, d + 3 + l, CRLF, 2, y)
      BY <1>6, <3>1, CrLf
    <3> QED BY <3>2 DEF Joined
  <2> QED BY <2>1, <2>2, CrLf
<1>8. y = Bulk(w)
  BY <1>1 DEF Bulk, t
<1>9. /\ 1 \in 1..d + 3 + l /\ 1 \in 1..d + 3 /\ 1 \in 1..d + 1
      /\ d + 2 \in 1..d + 3 + l /\ d + 2 \in 1..d + 3
      /\ d + 3 \in 1..d + 3 + l /\ d + 3 \in 1..d + 3
      /\ \A i \in 1..d : 1 + i \in 1..d + 3 + l /\ 1 + i \in 1..d + 3 /\ 1 + i \in 1..d + 1
      /\ \A i \in 1..l : d + 3 + i \in 1..d + 3 + l
  BY <1>2
<1>10. y[1] = "$" /\ y[d + 2] = CR /\ y[d + 3] = LF
  BY <1>4, <1>5, <1>6, <1>7, <1>9
<1>11. \A i \in 1..d : y[1 + i] \in Decimals
  <2> SUFFICES ASSUME NEW i \in 1..d PROVE y[1 + i] \in Decimals
    OBVIOUS
  <2>1. y[1 + i] = x[1 + i]
    BY <1>7, <1>9
  <2>2. x[1 + i] = v[1 + i]
    BY <1>6, <1>9
  <2>3. v[1 + i] = u[1 + i]
    BY <1>5, <1>9
  <2> QED BY <1>2, <1>4, <2>1, <2>2, <2>3
<1>12. \A i \in 1..l : y[d + 3 + i] = w[i]
  BY <1>6, <1>7, <1>9
<1>13. /\ 0 + 1 = 1 /\ 0 + d + 2 = d + 2 /\ 0 + d + 3 = d + 3
       /\ 0 + d + l + 4 = d + l + 4 /\ 0 + d + l + 5 = d + l + 5
       /\ \A i \in 1..d : 0 + 1 + i = 1 + i
       /\ \A i \in 1..l : 0 + d + 3 + i = d + 3 + i
  BY <1>2
<1>14. BulkAt(y, 0, w, d)
  BY <1>1, <1>7, <1>10, <1>11, <1>12, <1>13 DEF BulkAt
<1> QED BY <1>1, <1>7, <1>8, <1>14 DEF Size

\* A bulk lies wherever the same bytes are.
LEMMA BulkMoves ==
  ASSUME NEW p, NEW q, NEW o \in Nat, NEW r \in Nat, NEW w \in Text, BulkAt(p, o, w, Width(w)),
         \A i \in 1..Size(w) : q[r + i] = p[o + i]
  PROVE  BulkAt(q, r, w, Width(w))
<1>1. PICK d, l : d = Width(w) /\ l = Len(w) /\ d \in Nat \ {0} /\ l \in Nat
  BY WidthIs
<1>2. \A i \in 1..d + l + 5 : q[r + i] = p[o + i]
  BY <1>1 DEF Size
<1>3. \A i \in 1..d : 1 + i \in 1..d + l + 5 /\ r + (1 + i) = r + 1 + i /\ o + (1 + i) = o + 1 + i
  BY <1>1
<1>7. \A i \in 1..l : /\ d + 3 + i \in 1..d + l + 5
                    /\ r + (d + 3 + i) = r + d + 3 + i /\ o + (d + 3 + i) = o + d + 3 + i
  BY <1>1, SMTT(20)
<1>4. /\ q[r + 1] = p[o + 1] /\ q[r + d + 2] = p[o + d + 2] /\ q[r + d + 3] = p[o + d + 3]
      /\ q[r + d + l + 4] = p[o + d + l + 4] /\ q[r + d + l + 5] = p[o + d + l + 5]
  <2>1. \A i \in 1..d + l + 5 : \A j, k : j = r + i /\ k = o + i => q[j] = p[k]
    BY <1>2
  <2>2. 1 \in 1..d + l + 5
    BY <1>1
  <2>3. d + 2 \in 1..d + l + 5 /\ r + (d + 2) = r + d + 2 /\ o + (d + 2) = o + d + 2
    <3>1. d \in Nat /\ l \in Nat
      BY <1>1
    <3> QED BY <3>1
  <2>4. d + 3 \in 1..d + l + 5 /\ r + (d + 3) = r + d + 3 /\ o + (d + 3) = o + d + 3
    BY <1>1, SMTT(20)
  <2>5. d + l + 4 \in 1..d + l + 5 /\ r + (d + l + 4) = r + d + l + 4
          /\ o + (d + l + 4) = o + d + l + 4
    BY <1>1, SMTT(20)
  <2>6. d + l + 5 \in 1..d + l + 5 /\ r + (d + l + 5) = r + d + l + 5
          /\ o + (d + l + 5) = o + d + l + 5
    BY <1>1
  <2> QED BY <2>1, <2>2, <2>3, <2>4, <2>5, <2>6
<1>5. \A i \in 1..d : q[r + 1 + i] = p[o + 1 + i]
  <2> SUFFICES ASSUME NEW i \in 1..d PROVE q[r + 1 + i] = p[o + 1 + i]
    OBVIOUS
  <2>1. PICK j : j = 1 + i
    OBVIOUS
  <2>2. j \in 1..d + l + 5 /\ r + j = r + 1 + i /\ o + j = o + 1 + i
    BY <1>3, <2>1
  <2>3. q[r + j] = p[o + j]
    BY <1>2, <2>2
  <2> QED BY <2>2, <2>3
<1>6. \A i \in 1..l : q[r + d + 3 + i] = p[o + d + 3 + i]
  <2> SUFFICES ASSUME NEW i \in 1..l PROVE q[r + d + 3 + i] = p[o + d + 3 + i]
    OBVIOUS
  <2>1. PICK j : j = d + 3 + i
    OBVIOUS
  <2>2. j \in 1..d + l + 5 /\ r + j = r + d + 3 + i /\ o + j = o + d + 3 + i
    BY <1>7, <2>1
  <2>3. q[r + j] = p[o + j]
    BY <1>2, <2>2
  <2> QED BY <2>2, <2>3
<1> QED BY <1>1, <1>4, <1>5, <1>6 DEF BulkAt

\* The function of EncodeResp.
BulksOf(c, b) == b = [i \in 0..Len(c) |-> IF i = 0 THEN <<>> ELSE b[i - 1] \o Bulk(c[i])]

\* EncodeResp is defined for every command.
LEMMA BulksExist ==
  ASSUME NEW c \in Seq(Text)
  PROVE  \E b : BulksOf(c, b)
<1> DEFINE Upto(k, b) == b = [i \in 0..k |-> IF i = 0 THEN <<>> ELSE b[i - 1] \o Bulk(c[i])]
<1>1. PICK n : n = Len(c) /\ n \in Nat
  OBVIOUS
<1>2. PICK P : P = {k \in 0..n : \E b : Upto(k, b)}
  OBVIOUS
<1>3. 0 \in P
  <2> DEFINE g == [i \in 0..0 |-> <<>>]
  <2>1. \A i \in 0..0 : i = 0
    OBVIOUS
  <2>2. \A i \in 0..0 : g[i] = IF i = 0 THEN <<>> ELSE g[i - 1] \o Bulk(c[i])
    BY <2>1
  <2>3. g = [i \in 0..0 |-> g[i]]
    OBVIOUS
  <2> HIDE DEF g
  <2>4. Upto(0, g)
    BY <2>2, <2>3
  <2>5. 0 \in 0..n
    BY <1>1
  <2> HIDE DEF Upto
  <2> QED BY <1>2, <2>4, <2>5
<1>4. ASSUME NEW k \in 1..n, k - 1 \in P PROVE k \in P
  <2>1. PICK b : Upto(k - 1, b)
    BY <1>2, <1>4
  <2> DEFINE g == [i \in 0..k |-> IF i < k THEN b[i] ELSE b[k - 1] \o Bulk(c[k])]
  <2>2. ASSUME NEW i \in 0..k PROVE g[i] = IF i = 0 THEN <<>> ELSE g[i - 1] \o Bulk(c[i])
    <3>1. CASE i < k
      <4>1. i \in 0..k - 1 /\ (i # 0 => i - 1 \in 0..k - 1 /\ i - 1 < k /\ i - 1 \in 0..k)
        BY <3>1
      <4>2. b[i] = IF i = 0 THEN <<>> ELSE b[i - 1] \o Bulk(c[i])
        BY <2>1, <4>1
      <4>3. g[i] = b[i] /\ (i # 0 => g[i - 1] = b[i - 1])
        BY <3>1, <4>1
      <4> QED BY <4>2, <4>3
    <3>2. CASE i = k
      <4>1. i # 0 /\ i - 1 < k /\ i - 1 \in 0..k /\ ~(i < k) /\ i - 1 = k - 1
        BY <3>2
      <4>2. g[i] = b[k - 1] \o Bulk(c[k]) /\ g[i - 1] = b[k - 1]
        BY <4>1
      <4> QED BY <3>2, <4>1, <4>2
    <3>3. i < k \/ i = k
      OBVIOUS
    <3> QED BY <3>1, <3>2, <3>3
  <2>3. g = [i \in 0..k |-> g[i]]
    OBVIOUS
  <2> HIDE DEF g
  <2>4. Upto(k, g)
    BY <2>2, <2>3
  <2>5. k \in 0..n
    BY <1>1
  <2> HIDE DEF Upto
  <2> QED BY <1>2, <2>4, <2>5
<1>5. \A k \in 0..n : k \in P
  BY <1>1, <1>3, <1>4, CountUp
<1>6. n \in 0..n
  BY <1>1
<1> QED BY <1>1, <1>2, <1>5, <1>6 DEF BulksOf

\* The bulks of a command, one behind the other.
Bulks(c, b) ==
  /\ b \in [0..Len(c) -> Text] /\ b[0] = <<>>
  /\ \A i \in 1..Len(c) : b[i] = b[i - 1] \o Bulk(c[i])

\* EncodeResp by the bulks.
LEMMA EncodesTo ==
  ASSUME NEW c \in Seq(Text)
  PROVE  \E b : /\ Bulks(c, b)
                /\ EncodeResp(c) = <<"*">> \o ToDigits(Len(c)) \o CRLF \o b[Len(c)]
<1> DEFINE d == CHOOSE b : BulksOf(c, b)
<1>1. BulksOf(c, d)
  BY BulksExist
<1>2. EncodeResp(c) = <<"*">> \o ToDigits(Len(c)) \o CRLF \o d[Len(c)]
  BY DEF EncodeResp, BulksOf
<1>3. PICK b : b = d
  OBVIOUS
<1> HIDE DEF d
<1>4. PICK n : n = Len(c) /\ n \in Nat
  OBVIOUS
<1>5. b = [i \in 0..n |-> IF i = 0 THEN <<>> ELSE b[i - 1] \o Bulk(c[i])]
  BY <1>1, <1>3, <1>4 DEF BulksOf
<1>6. b[0] = <<>> /\ DOMAIN b = 0..n /\ \A i \in 1..n : b[i] = b[i - 1] \o Bulk(c[i])
  <2>1. 0 \in 0..n /\ \A i \in 1..n : i \in 0..n /\ i # 0
    BY <1>4
  <2>2. \A i \in 0..n : b[i] = IF i = 0 THEN <<>> ELSE b[i - 1] \o Bulk(c[i])
    BY <1>5
  <2> QED BY <1>5, <2>1, <2>2
<1>7. PICK P : P = {k \in 0..n : b[k] \in Text}
  OBVIOUS
<1>8. 0 \in P
  <2>1. b[0] \in Text /\ 0 \in 0..n
    BY <1>4, <1>6 DEF Text
  <2> QED BY <1>7, <2>1
<1>9. ASSUME NEW k \in 1..n, k - 1 \in P PROVE k \in P
  <2>1. b[k] = b[k - 1] \o Bulk(c[k]) /\ c[k] \in Text /\ k \in 0..n
    <3>1. k \in 1..Len(c) /\ k \in 0..n
      BY <1>4
    <3>2. c[k] \in Text
      BY <3>1
    <3> QED BY <1>6, <3>1, <3>2
  <2>2. b[k - 1] \in Text /\ Bulk(c[k]) \in Text
    BY <1>7, <1>9, <2>1, BulkIs
  <2> QED BY <1>7, <2>1, <2>2, Joins, ZenonT(40)
<1>10. \A k \in 0..n : k \in P
  BY <1>4, <1>8, <1>9, CountUp
<1>11. Bulks(c, b)
  <2>1. b \in [0..n -> Text]
    <3>1. \A k \in 0..n : b[k] \in Text
      BY <1>7, <1>10
    <3> QED BY <1>5, <1>6, <3>1
  <2> QED BY <1>4, <1>6, <2>1 DEF Bulks
<1> QED BY <1>2, <1>3, <1>11

\* Where the packet of a command has its bulks.
LEMMA LaysOut ==
  ASSUME NEW c \in Seq(Text)
  PROVE  \E e : LaidOut(EncodeResp(c), c, e)
<1>1. PICK b : Bulks(c, b) /\ EncodeResp(c) = <<"*">> \o ToDigits(Len(c)) \o CRLF \o b[Len(c)]
  BY EncodesTo
<1>2. PICK n, t, s, u, h, p :
        n = Len(c) /\ t = ToDigits(n) /\ s = <<"*">> /\ u = s \o t /\ h = u \o CRLF /\ p = h \o b[n]
  OBVIOUS
<1>3. n \in Nat /\ p = EncodeResp(c) /\ b[n] \in Text /\ \A k \in 0..n : b[k] \in Text
  <2>1. n \in Nat /\ n \in 0..n
    BY <1>2
  <2>2. \A k \in 0..n : b[k] \in Text
    BY <1>1, <1>2 DEF Bulks
  <2>3. p = EncodeResp(c)
    BY <1>1, <1>2
  <2> QED BY <2>1, <2>2, <2>3
<1>4. PICK d : d = Len(t) /\ d \in Nat /\ d >= 1 /\ t \in Text /\ \A i \in 1..d : t[i] \in Decimals
  <2>1. Numeral(t)
    BY <1>2, <1>3, DigitsAre
  <2>2. Len(t) \in Nat /\ Len(t) >= 1
    BY <2>1 DEF Numeral, Text
  <2> QED BY <2>1, <2>2 DEF Numeral
<1>5. s \in Text /\ Len(s) = 1 /\ s[1] = "*"
  <2>1. "*" \in Byte
    BY BytesAre DEF Special
  <2> QED BY <1>2, <2>1 DEF Text
<1>6. Joined(s, 1, t, d, u) /\ u \in Text
  <2>1. Joined(s, Len(s), t, Len(t), u)
    BY <1>2, <1>4, <1>5, JoinsTo
  <2> QED BY <1>4, <1>5, <2>1 DEF Joined
<1>7. Joined(u, d + 1, CRLF, 2, h) /\ h \in Text /\ Len(h) = d + 3
  <2>1. Joined(u, Len(u), CRLF, Len(CRLF), h)
    BY <1>2, <1>6, CrLf, JoinsTo
  <2>2. Len(u) = d + 1 /\ (d + 1) + 2 = d + 3
    BY <1>4, <1>6 DEF Joined
  <2> QED BY <2>1, <2>2, CrLf DEF Joined
<1>8. Joined(h, d + 3, b[n], Len(b[n]), p) /\ Len(b[n]) \in Nat
  BY <1>2, <1>3, <1>7, JoinsTo
<1>9. h[1] = "*" /\ \A i \in 2..d + 3 : h[i] \notin {"*", "$"}
  <2>1. /\ 1 \in 1..1 /\ 1 \in 1..d + 1 /\ 1 \in 1..2 /\ 2 \in 1..2
        /\ (d + 1) + 1 = d + 2 /\ (d + 1) + 2 = d + 3
    BY <1>4
  <2>2. h[1] = "*" /\ h[d + 2] = CR /\ h[d + 3] = LF
    BY <1>5, <1>6, <1>7, <2>1, CrLf DEF Joined
  <2>3. ASSUME NEW i \in 2..d + 1 PROVE h[i] \in Decimals
    <3>1. i \in 1..d + 1 /\ i - 1 \in 1..d /\ 1 + (i - 1) = i
      BY <1>4
    <3>2. h[i] = u[i]
      BY <1>7, <3>1 DEF Joined
    <3>3. u[1 + (i - 1)] = t[i - 1]
      BY <1>6, <3>1 DEF Joined
    <3>4. u[i] = t[i - 1]
      BY <3>1, <3>3
    <3> QED BY <1>4, <3>1, <3>2, <3>4
  <2>4. \A i \in 2..d + 3 : i \in 2..d + 1 \/ i = d + 2 \/ i = d + 3
    BY <1>4
  <2>5. {CR, LF} \cap {"*", "$"} = {} /\ Decimals \cap {"*", "$"} = {}
    BY DEF CR, LF, Decimals
  <2> QED BY <2>2, <2>3, <2>4, <2>5
<1>10. PICK P : P = {k \in 0..n : \A j \in 1..k : /\ Len(b[j]) \in Nat /\ Len(b[j]) <= Len(b[k])
                                                   /\ Len(b[j]) = Len(b[j - 1]) + Size(c[j])
                                                   /\ Len(b[j - 1]) \in Nat
                                                   /\ BulkAt(b[k], Len(b[j - 1]), c[j], Width(c[j]))}
  OBVIOUS
<1>11. 0 \in P
  BY <1>3, <1>10
<1>12. ASSUME NEW k \in 1..n, k - 1 \in P PROVE k \in P
  <2>1. PICK q, w, r, m : q = b[k - 1] /\ w = c[k] /\ r = b[k] /\ m = Len(q)
    OBVIOUS
  <2>2. k - 1 \in 0..n /\ k \in 0..n
    BY <1>3
  <2>3. q \in Text /\ w \in Text /\ r = q \o Bulk(w)
    <3>1. k \in 1..Len(c)
      BY <1>2
    <3>2. w \in Text
      BY <2>1, <3>1
    <3>3. b[k] = b[k - 1] \o Bulk(c[k])
      BY <1>1, <3>1 DEF Bulks
    <3> QED BY <1>3, <2>1, <2>2, <3>2, <3>3
  <2>4. Bulk(w) \in Text /\ Len(Bulk(w)) = Size(w) /\ BulkAt(Bulk(w), 0, w, Width(w))
          /\ Size(w) \in Nat
    BY <2>3, BulkIs, WidthIs
  <2>5. Joined(q, m, Bulk(w), Size(w), r) /\ m \in Nat
    BY <2>1, <2>3, <2>4, JoinsTo
  <2>6. BulkAt(r, m, w, Width(w)) /\ Len(r) = m + Size(w)
    <3>1. \A i \in 1..Size(w) : r[m + i] = Bulk(w)[0 + i]
      BY <2>4, <2>5 DEF Joined
    <3>2. BulkAt(r, m, w, Width(w))
      BY <2>3, <2>4, <2>5, <3>1, BulkMoves
    <3> QED BY <2>5, <3>2 DEF Joined
  <2>7. ASSUME NEW j \in 1..k
        PROVE  /\ Len(b[j]) \in Nat /\ Len(b[j]) <= Len(b[k])
               /\ Len(b[j]) = Len(b[j - 1]) + Size(c[j])
               /\ Len(b[j - 1]) \in Nat
               /\ BulkAt(b[k], Len(b[j - 1]), c[j], Width(c[j]))
    <3>1. CASE j = k
      BY <2>1, <2>4, <2>5, <2>6, <3>1
    <3>2. CASE j # k
      <4>1. j \in 1..k - 1 /\ j \in 1..n
        BY <1>3, <3>2
      <4>2. PICK x, y : x = Len(b[j - 1]) /\ y = Len(b[j])
        OBVIOUS
      <4>3. /\ y \in Nat /\ y <= m /\ y = x + Size(c[j]) /\ x \in Nat
            /\ BulkAt(q, x, c[j], Width(c[j]))
        BY <1>10, <1>12, <2>1, <4>1, <4>2
      <4>4. c[j] \in Text /\ Size(c[j]) \in Nat
        BY <1>2, <4>1, WidthIs, SMTT(20)
      <4>5. \A i \in 1..Size(c[j]) : x + i \in 1..m
        BY <2>5, <4>3, <4>4
      <4>6. \A i \in 1..Size(c[j]) : r[x + i] = q[x + i]
        BY <2>5, <4>5 DEF Joined
      <4>7. BulkAt(r, x, c[j], Width(c[j]))
        BY <4>3, <4>4, <4>6, BulkMoves
      <4>8. y <= Len(r)
        BY <2>4, <2>5, <2>6, <4>3
      <4> QED BY <2>1, <4>2, <4>3, <4>7, <4>8
    <3> QED BY <3>1, <3>2
  <2> QED BY <1>10, <2>2, <2>7
<1>13. \A k \in 0..n : k \in P
  BY <1>3, <1>11, <1>12, CountUp
<1>14. n \in 0..n
  BY <1>3
<1>15. \A j \in 1..n : /\ Len(b[j]) \in Nat /\ Len(b[j]) <= Len(b[n])
                       /\ Len(b[j]) = Len(b[j - 1]) + Size(c[j]) /\ Len(b[j - 1]) \in Nat
                       /\ BulkAt(b[n], Len(b[j - 1]), c[j], Width(c[j]))
  BY <1>10, <1>13, <1>14
<1>16. PICK e : e = [k \in 0..n |-> d + 3 + Len(b[k])]
  OBVIOUS
<1>17. Len(b[0]) = 0 /\ 0 \in 0..n /\ \A j \in 0..n : Len(b[j]) \in Nat
  BY <1>1, <1>3 DEF Bulks, Text
<1>18. e \in [0..n -> Nat] /\ e[0] = d + 3 /\ e[n] = d + 3 + Len(b[n])
  BY <1>4, <1>14, <1>16, <1>17, SMTT(20)
<1>19. ASSUME NEW k \in 1..n PROVE e[k] = e[k - 1] + Size(c[k]) /\ BulkAt(p, e[k - 1], c[k], Width(c[k]))
  <2>1. PICK x, y, w : x = Len(b[k - 1]) /\ y = Len(b[k]) /\ w = c[k]
    OBVIOUS
  <2>2. /\ x \in Nat /\ y \in Nat /\ y = x + Size(w) /\ y <= Len(b[n])
           /\ BulkAt(b[n], x, w, Width(w))
        /\ k - 1 \in 0..n /\ k \in 0..n
    BY <1>3, <1>15, <2>1
  <2>3. w \in Text /\ Size(w) \in Nat
    BY <1>2, <2>1, WidthIs
  <2>4. e[k] = d + 3 + y /\ e[k - 1] = d + 3 + x
    BY <1>16, <2>1, <2>2
  <2>5. \A i \in 1..Size(w) : x + i \in 1..Len(b[n]) /\ (d + 3) + (x + i) = (d + 3 + x) + i
    BY <1>4, <1>8, <2>2, <2>3
  <2>6. ASSUME NEW i \in 1..Size(w) PROVE p[(d + 3 + x) + i] = b[n][x + i]
    <3>1. PICK j : j = x + i
      OBVIOUS
    <3>2. j \in 1..Len(b[n]) /\ (d + 3) + j = (d + 3 + x) + i
      BY <2>5, <3>1
    <3>3. p[(d + 3) + j] = b[n][j]
      BY <1>8, <3>2 DEF Joined
    <3> QED BY <3>1, <3>2, <3>3
  <2>7. d + 3 + x \in Nat
    BY <1>4, <2>2
  <2>8. BulkAt(p, d + 3 + x, w, Width(w))
    <3>1. PICK z, t2 : z = d + 3 + x /\ t2 = b[n]
      OBVIOUS
    <3>2. z \in Nat /\ BulkAt(t2, x, w, Width(w)) /\ \A i \in 1..Size(w) : p[z + i] = t2[x + i]
      BY <2>2, <2>6, <2>7, <3>1
    <3>3. BulkAt(p, z, w, Width(w))
      BY <2>2, <2>3, <3>2, BulkMoves
    <3> QED BY <3>1, <3>3
  <2>9. e[k] = e[k - 1] + Size(w)
    BY <1>4, <2>2, <2>3, <2>4
  <2> QED BY <2>1, <2>4, <2>8, <2>9
<1>20. p[1] = "*" /\ \A i \in 2..d + 3 : p[i] \notin {"*", "$"}
  <2>1. 1 \in 1..d + 3 /\ \A i \in 2..d + 3 : i \in 1..d + 3
    BY <1>4
  <2> QED BY <1>8, <1>9, <2>1 DEF Joined
<1>21. d + 3 >= 4
  BY <1>4
<1>22. p \in Text /\ Len(p) = e[n]
  BY <1>8, <1>18 DEF Joined
<1>23. LaidOut(p, c, e)
  BY <1>2, <1>18, <1>19, <1>20, <1>21, <1>22 DEF LaidOut
<1> QED BY <1>3, <1>23

-----------------------------------------------------------------------------
(* What decodeResp makes of a part of a packet.                              *)

\* States of decodeResp's loop.
DState == [dollar : BOOLEAN, str : BOOLEAN, text : Text, ret : Seq(Text)]

\* A round of the loop, by the byte.
LEMMA NextByteIs ==
  ASSUME NEW s \in DState, NEW b \in Byte, NEW t, t = NextByte(s, b)
  PROVE  /\ t \in DState
         /\ b = "$" => t.dollar /\ t.str = s.str /\ t.text = s.text /\ t.ret = s.ret
         /\ b = LF /\ s.dollar => t.dollar /\ t.str /\ t.text = <<>> /\ t.ret = s.ret
         /\ b = CR /\ s.str => ~t.dollar /\ ~t.str /\ t.text = s.text
            /\ t.ret = Append(s.ret, s.text)
         /\ b \notin {CR, LF, "$"} /\ s.str =>
              t.dollar = s.dollar /\ t.str = s.str /\ t.text = Append(s.text, b) /\ t.ret = s.ret
         /\ b # "$" /\ ~s.str /\ (b # LF \/ ~s.dollar) => t = s
<1>1. CR # LF /\ CR # "$" /\ LF # "$"
  BY DEF CR, LF
<1>2. /\ s.dollar \in BOOLEAN /\ s.str \in BOOLEAN /\ s.text \in Text /\ s.ret \in Seq(Text)
      /\ s = [dollar |-> s.dollar, str |-> s.str, text |-> s.text, ret |-> s.ret]
  BY DEF DState
<1>3. CASE b = CR /\ s.str
  <2>1. t = [s EXCEPT !.dollar = FALSE, !.str = FALSE, !.ret = Append(@, s.text)]
    BY <1>1, <1>3 DEF NextByte
  <2>2. Append(s.ret, s.text) \in Seq(Text)
    BY <1>2
  <2>3. /\ t \in DState /\ t.dollar = FALSE /\ t.str = FALSE /\ t.text = s.text
        /\ t.ret = Append(s.ret, s.text)
    BY <2>1, <2>2 DEF DState
  <2> QED BY <1>1, <1>3, <2>3
<1>4. CASE b = LF /\ s.dollar
  <2>1. t = [s EXCEPT !.str = TRUE, !.text = <<>>]
    BY <1>1, <1>4 DEF NextByte
  <2>2. <<>> \in Text
    BY DEF Text
  <2>3. t \in DState /\ t.dollar = s.dollar /\ t.str = TRUE /\ t.text = <<>> /\ t.ret = s.ret
    BY <2>1, <2>2 DEF DState
  <2> QED BY <1>1, <1>4, <2>3
<1>5. CASE b = "$"
  <2>1. t = [s EXCEPT !.dollar = TRUE]
    BY <1>1, <1>5 DEF NextByte
  <2>2. t \in DState /\ t.dollar = TRUE /\ t.str = s.str /\ t.text = s.text /\ t.ret = s.ret
    BY <2>1 DEF DState
  <2> QED BY <1>1, <1>5, <2>2
<1>6. CASE ~(b = CR /\ s.str) /\ ~(b = LF /\ s.dollar) /\ b # "$"
  <2>1. t = IF s.str THEN [s EXCEPT !.text = Append(@, b)] ELSE s
    BY <1>6 DEF NextByte
  <2>2. CASE s.str
    <3>1. t = [s EXCEPT !.text = Append(s.text, b)]
      BY <2>1, <2>2
    <3>2. Append(s.text, b) \in Text
      BY <1>2 DEF Text
    <3>3. t \in DState /\ t.dollar = s.dollar /\ t.str = s.str /\ t.text = Append(s.text, b)
            /\ t.ret = s.ret
      BY <3>1, <3>2 DEF DState
    <3> QED BY <1>6, <2>2, <3>3
  <2>3. CASE ~s.str
    BY <1>6, <2>1, <2>3
  <2> QED BY <2>2, <2>3
<1> QED BY <1>3, <1>4, <1>5, <1>6

\* The state the loop begins with, behind the first byte.
Begin(bytes) ==
  [dollar |-> FALSE, str |-> FALSE, text |-> <<>>,
   ret |-> IF bytes[1] \in {"+", "-", ":"} THEN <<SubSeq(bytes, 2, Len(bytes) - 2)>> ELSE <<>>]

\* g are the states of decodeResp's loop behind each byte.
Loops(g, bytes) ==
  /\ g \in [1..Len(bytes) -> DState] /\ g[1] = Begin(bytes)
  /\ \A i \in 2..Len(bytes) : g[i] = NextByte(g[i - 1], bytes[i])

\* It is a state of the loop.
LEMMA BeginTyped ==
  ASSUME NEW bytes \in Text
  PROVE  Begin(bytes) \in DState
<1>1. SubSeq(bytes, 2, Len(bytes) - 2) \in Text
  BY DEF Text
<1>2. <<SubSeq(bytes, 2, Len(bytes) - 2)>> \in Seq(Text) /\ <<>> \in Seq(Text) /\ <<>> \in Text
  BY <1>1 DEF Text
<1> QED BY <1>2 DEF Begin, DState

\* The function of Decoded.
LoopOf(bytes, k, f) ==
  f = [i \in 1..k |-> IF i = 1 THEN Begin(bytes) ELSE NextByte(f[i - 1], bytes[i])]

\* Decoded is defined for every text.
LEMMA LoopExists ==
  ASSUME NEW bytes \in Text, Len(bytes) > 0
  PROVE  \E f : LoopOf(bytes, Len(bytes), f)
<1>1. PICK n : n = Len(bytes) /\ n \in Nat /\ n > 0
  BY DEF Text
<1>2. PICK P : P = {k \in 0..n : k = 0 \/ \E f : LoopOf(bytes, k, f)}
  OBVIOUS
<1>3. 0 \in P
  BY <1>1, <1>2
<1>4. ASSUME NEW k \in 1..n, k - 1 \in P PROVE k \in P
  <2>0. k \in 0..n
    BY <1>1
  <2>1. CASE k = 1
    <3> DEFINE g == [i \in 1..1 |-> Begin(bytes)]
    <3>1. \A i \in 1..1 : i = 1
      OBVIOUS
    <3>2. \A i \in 1..1 : g[i] = IF i = 1 THEN Begin(bytes) ELSE NextByte(g[i - 1], bytes[i])
      BY <3>1
    <3>3. g = [i \in 1..1 |-> g[i]]
      OBVIOUS
    <3> HIDE DEF g
    <3>4. LoopOf(bytes, 1, g)
      BY <3>2, <3>3 DEF LoopOf
    <3> QED BY <1>2, <2>0, <2>1, <3>4
  <2>2. CASE k # 1
    <3>1. PICK f : LoopOf(bytes, k - 1, f)
      <4>1. k - 1 # 0
        BY <2>2
      <4> QED BY <1>2, <1>4, <4>1
    <3> DEFINE step(x, i) == IF i = 1 THEN Begin(bytes) ELSE NextByte(x, bytes[i])
               g == [i \in 1..k |-> IF i < k THEN f[i] ELSE NextByte(f[k - 1], bytes[k])]
    <3>2. ASSUME NEW i \in 1..k PROVE g[i] = step(g[i - 1], i)
      <4>1. CASE i < k
        <5>1. i \in 1..k - 1 /\ (i # 1 => i - 1 \in 1..k - 1 /\ i - 1 < k /\ i - 1 \in 1..k)
          BY <4>1
        <5>2. f[i] = step(f[i - 1], i)
          BY <3>1, <5>1 DEF LoopOf
        <5>3. g[i] = f[i] /\ (i # 1 => g[i - 1] = f[i - 1])
          BY <4>1, <5>1
        <5> QED BY <5>2, <5>3
      <4>2. CASE i = k
        <5>1. i # 1 /\ ~(i < k) /\ i - 1 < k /\ i - 1 \in 1..k /\ i - 1 = k - 1
          BY <2>2, <4>2
        <5>2. g[i] = NextByte(f[k - 1], bytes[k]) /\ g[i - 1] = f[k - 1]
          BY <5>1
        <5>3. step(g[i - 1], i) = NextByte(g[i - 1], bytes[i])
          BY <5>1
        <5> HIDE DEF g, step
        <5> QED BY <4>2, <5>2, <5>3
      <4>3. i < k \/ i = k
        OBVIOUS
      <4> QED BY <4>1, <4>2, <4>3
    <3>3. g = [i \in 1..k |-> g[i]]
      OBVIOUS
    <3> HIDE DEF g
    <3>4. g = [i \in 1..k |-> step(g[i - 1], i)]
      <4> HIDE DEF step
      <4> QED BY <3>2, <3>3
    <3>5. LoopOf(bytes, k, g)
      BY <3>4 DEF LoopOf
    <3> QED BY <1>2, <2>0, <3>5
  <2> QED BY <2>1, <2>2
<1>5. \A k \in 0..n : k \in P
  BY <1>1, <1>3, <1>4, CountUp
<1>6. n \in 0..n /\ n # 0
  BY <1>1
<1> QED BY <1>1, <1>2, <1>5, <1>6

\* decodeResp returns what the loop has pushed behind the last byte.
LEMMA DecodedBy ==
  ASSUME NEW bytes \in Text, Len(bytes) > 0, bytes[1] \in {"+", "-", ":", "*"}
  PROVE  \E g : Loops(g, bytes) /\ DecodeResp(bytes) = g[Len(bytes)].ret
<1> DEFINE d == CHOOSE f : LoopOf(bytes, Len(bytes), f)
<1>1. LoopOf(bytes, Len(bytes), d)
  BY LoopExists
<1>2. Decoded(bytes) = d[Len(bytes)]
  BY DEF Decoded, LoopOf, Begin
<1>3. PICK g, n : g = d /\ n = Len(bytes)
  OBVIOUS
<1> HIDE DEF d
<1>4. n \in Nat /\ n > 0 /\ \A i \in 1..n : bytes[i] \in Byte
  BY <1>3 DEF Text
<1>5. \A i \in 1..n : g[i] = IF i = 1 THEN Begin(bytes) ELSE NextByte(g[i - 1], bytes[i])
  BY <1>1, <1>3 DEF LoopOf
<1>6. g[1] = Begin(bytes) /\ \A i \in 2..n : g[i] = NextByte(g[i - 1], bytes[i])
  <2>1. 1 \in 1..n /\ \A i \in 2..n : i \in 1..n /\ i # 1
    BY <1>4
  <2> QED BY <1>5, <2>1
<1>7. PICK P : P = {k \in 0..n : k = 0 \/ g[k] \in DState}
  OBVIOUS
<1>8. 0 \in P
  BY <1>4, <1>7
<1>9. ASSUME NEW k \in 1..n, k - 1 \in P PROVE k \in P
  <2>0. k \in 0..n /\ bytes[k] \in Byte
    BY <1>4
  <2>1. CASE k = 1
    BY <1>6, <1>7, <2>0, <2>1, BeginTyped
  <2>2. CASE k # 1
    <3>1. k \in 2..n /\ k - 1 # 0
      BY <1>4, <2>2
    <3>2. g[k - 1] \in DState /\ g[k] = NextByte(g[k - 1], bytes[k])
      BY <1>6, <1>7, <1>9, <3>1
    <3>3. g[k] \in DState
      BY <2>0, <3>2, NextByteIs
    <3> QED BY <1>7, <2>0, <3>3
  <2> QED BY <2>1, <2>2
<1>10. \A k \in 0..n : k \in P
  BY <1>4, <1>8, <1>9, CountUp
<1>11. \A k \in 1..n : g[k] \in DState
  <2>1. \A k \in 1..n : k \in 0..n /\ k # 0
    BY <1>4
  <2> QED BY <1>7, <1>10, <2>1
<1>12. g = [i \in 1..n |-> g[i]]
  BY <1>1, <1>3 DEF LoopOf
<1>13. Loops(g, bytes)
  <2>1. g \in [1..n -> DState]
    BY <1>11, <1>12
  <2> QED BY <1>3, <1>6, <2>1 DEF Loops
<1> QED BY <1>2, <1>3, <1>13 DEF DecodeResp

\* Behind the bulks f to k of c; with k < f, before the first "$".
Behind(s, c, f, k) == ~s.dollar /\ ~s.str /\ s.ret = SubSeq(c, f, k)

\* Within the k-th bulk, f the first one: behind its "$", within the first j bytes
\* of its word.
InHeader(s, c, f, k) == s.dollar /\ ~s.str /\ s.ret = SubSeq(c, f, k - 1)
InWord(s, c, f, k, j) == s.dollar /\ s.str /\ s.text = SubSeq(c[k], 1, j)
  /\ s.ret = SubSeq(c, f, k - 1)

\* Behind the m-th byte of the k-th bulk, which has d digits and a word of l bytes.
InBulk(s, c, f, k, m, d, l) ==
  \/ m \in 1..d + 2 /\ InHeader(s, c, f, k)
  \/ m \in d + 3..d + l + 3 /\ InWord(s, c, f, k, m - d - 3)
  \/ m \in d + l + 4..d + l + 5 /\ Behind(s, c, f, k)

\* A dollar behind a bulk begins the next one.
LEMMA BulkBegins ==
  ASSUME NEW c \in Seq(Text), NEW f \in Nat, NEW k \in Nat, NEW s \in DState,
         Behind(s, c, f, k - 1), NEW d \in Nat, NEW l \in Nat
  PROVE  NextByte(s, "$") \in DState /\ InBulk(NextByte(s, "$"), c, f, k, 1, d, l)
<1>1. "$" \in Byte
  BY BytesAre DEF Special
<1>2. PICK t : t = NextByte(s, "$")
  OBVIOUS
<1>3. t \in DState /\ t.dollar /\ t.str = s.str /\ t.ret = s.ret
  BY <1>1, <1>2, NextByteIs
<1>4. 1 \in 1..d + 2
  OBVIOUS
<1>5. InHeader(t, c, f, k)
  BY <1>3 DEF Behind, InHeader
<1> QED BY <1>2, <1>3, <1>4, <1>5 DEF InBulk

\* A stretch of a sequence and the element behind it.
LEMMA MoreOf ==
  ASSUME NEW S, NEW q \in Seq(S), NEW f \in 1..Len(q) + 1, NEW k \in f..Len(q)
  PROVE  Append(SubSeq(q, f, k - 1), q[k]) = SubSeq(q, f, k)
OBVIOUS

\* Within a bulk, the loop goes on to its next byte.
LEMMA BulkGoesOn ==
  ASSUME NEW c, ACommand(c), NEW f \in 1..Len(c) + 1, NEW k \in f..Len(c), NEW s \in DState,
         NEW d \in Nat, NEW l, l = Len(c[k]), NEW m \in 1..d + l + 4, InBulk(s, c, f, k, m, d, l),
         NEW p, NEW o \in Nat, BulkAt(p, o, c[k], d), NEW b, b = p[o + m + 1]
  PROVE  NextByte(s, b) \in DState /\ InBulk(NextByte(s, b), c, f, k, m + 1, d, l)
<1>1. PICK w, t : w = c[k] /\ t = NextByte(s, b)
  OBVIOUS
<1>2. /\ c \in Seq(Text) /\ w \in Text /\ l \in Nat /\ l > 0 /\ l = Len(w)
      /\ \A i \in 1..l : w[i] \notin Special /\ w[i] \in Byte
  <2>1. k \in 1..Len(c) /\ AWord(c[k]) /\ c \in Seq(Text)
    BY DEF ACommand
  <2>2. w \in Text /\ w # <<>> /\ \A i \in 1..Len(w) : w[i] \notin Special
    BY <1>1, <2>1 DEF AWord
  <2>3. l = Len(w) /\ l \in Nat /\ l > 0 /\ \A i \in 1..Len(w) : w[i] \in Byte
    BY <1>1, <2>2 DEF Text
  <2> QED BY <2>1, <2>2, <2>3
<1>3. CR # LF /\ CR # "$" /\ LF # "$" /\ {CR, LF, "$"} \subseteq Special /\ CR \notin Decimals
        /\ LF \notin Decimals /\ "$" \notin Decimals
  BY DEF CR, LF, Special, Decimals
<1>4. /\ p[o + d + 2] = CR /\ p[o + d + 3] = LF /\ \A i \in 1..d : p[o + 1 + i] \in Decimals
      /\ \A i \in 1..l : p[o + d + 3 + i] = w[i]
      /\ p[o + d + l + 4] = CR /\ p[o + d + l + 5] = LF
  BY <1>1, <1>2 DEF BulkAt
<1>5. CASE m \in 1..d + 1 /\ InHeader(s, c, f, k)
  <2>1. b # "$" /\ b # LF /\ b \in Byte
    <3>1. CASE m <= d
      <4>1. m \in 1..d /\ o + m + 1 = o + 1 + m
        BY <1>5, <3>1
      <4>2. b \in Decimals
        BY <1>4, <4>1
      <4> QED BY <1>3, <4>2, BytesAre
    <3>2. CASE m = d + 1
      <4>1. o + m + 1 = o + d + 2
        BY <3>2
      <4>2. b = CR
        BY <1>4, <4>1
      <4> QED BY <1>3, <4>2, BytesAre
    <3>3. m <= d \/ m = d + 1
      BY <1>5
    <3> QED BY <3>1, <3>2, <3>3
  <2>2. t = s /\ t \in DState
    BY <1>1, <1>5, <2>1, NextByteIs DEF InHeader
  <2>3. m + 1 \in 1..d + 2
    BY <1>5
  <2> QED BY <1>1, <1>5, <2>2, <2>3 DEF InBulk
<1>6. CASE m = d + 2 /\ InHeader(s, c, f, k)
  <2>1. o + m + 1 = o + d + 3
    BY <1>6
  <2>2. b = LF /\ b \in Byte
    BY <1>3, <1>4, <2>1, BytesAre
  <2>3. t \in DState /\ t.dollar /\ t.str /\ t.text = <<>> /\ t.ret = s.ret
    BY <1>1, <1>6, <2>2, NextByteIs, SMTT(20) DEF InHeader
  <2>4. m + 1 \in d + 3..d + l + 3 /\ (m + 1) - d - 3 = 0
    BY <1>2, <1>6
  <2>5. SubSeq(c[k], 1, 0) = <<>>
    BY <1>1, <1>2 DEF Text
  <2>6. InWord(t, c, f, k, (m + 1) - d - 3)
    BY <1>6, <2>3, <2>4, <2>5 DEF InWord, InHeader
  <2> QED BY <1>1, <2>3, <2>4, <2>6 DEF InBulk
<1>7. CASE m \in d + 3..d + l + 2 /\ InWord(s, c, f, k, m - d - 3)
  <2>1. PICK j : j = m - d - 2
    OBVIOUS
  <2>2. j \in 1..l /\ o + m + 1 = o + d + 3 + j /\ m - d - 3 = j - 1 /\ (m + 1) - d - 3 = j
    BY <1>2, <1>7, <2>1
  <2>3. b = w[j] /\ b \in Byte /\ b \notin {CR, LF, "$"}
    BY <1>2, <1>3, <1>4, <2>2
  <2>4. t \in DState /\ t.dollar /\ t.str /\ t.text = Append(s.text, b) /\ t.ret = s.ret
    <3>1. s.dollar /\ s.str
      BY <1>7 DEF InWord
    <3>2. t.dollar = s.dollar /\ t.str = s.str
      BY <1>1, <2>3, <3>1, NextByteIs
    <3>3. t.text = Append(s.text, b) /\ t.ret = s.ret
      BY <1>1, <2>3, <3>1, NextByteIs, SMTT(20)
    <3>4. t \in DState
      BY <1>1, <2>3, NextByteIs
    <3> QED BY <3>1, <3>2, <3>3, <3>4
  <2>5. Append(SubSeq(w, 1, j - 1), w[j]) = SubSeq(w, 1, j)
    <3>1. 1 \in 1..Len(w) + 1 /\ j \in 1..Len(w)
      BY <1>2, <2>2
    <3> QED BY <1>2, <3>1, MoreOf DEF Text
  <2>6. t.text = SubSeq(c[k], 1, j)
    BY <1>1, <1>7, <2>2, <2>3, <2>4, <2>5 DEF InWord
  <2>7. InWord(t, c, f, k, (m + 1) - d - 3)
    BY <1>7, <2>2, <2>4, <2>6 DEF InWord
  <2>8. m + 1 \in d + 3..d + l + 3
    BY <1>2, <1>7
  <2> QED BY <1>1, <2>4, <2>7, <2>8 DEF InBulk
<1>8. CASE m = d + l + 3 /\ InWord(s, c, f, k, m - d - 3)
  <2>1. o + m + 1 = o + d + l + 4 /\ m - d - 3 = l
    BY <1>2, <1>8
  <2>2. b = CR /\ b \in Byte
    BY <1>3, <1>4, <2>1, BytesAre
  <2>3. t \in DState /\ ~t.dollar /\ ~t.str /\ t.ret = Append(s.ret, s.text)
    BY <1>1, <1>8, <2>2, NextByteIs DEF InWord
  <2>4. s.text = c[k]
    <3>1. s.text = SubSeq(w, 1, l)
      BY <1>1, <1>8, <2>1 DEF InWord
    <3> QED BY <1>1, <1>2, <3>1 DEF Text
  <2>5. Append(SubSeq(c, f, k - 1), c[k]) = SubSeq(c, f, k)
    BY <1>2, MoreOf
  <2>6. Behind(t, c, f, k)
    BY <1>8, <2>3, <2>4, <2>5 DEF Behind, InWord
  <2>7. m + 1 \in d + l + 4..d + l + 5
    BY <1>2, <1>8
  <2> QED BY <1>1, <2>3, <2>6, <2>7 DEF InBulk
<1>9. CASE m \in d + l + 4..d + l + 5 /\ Behind(s, c, f, k)
  <2>1. m = d + l + 4 /\ o + m + 1 = o + d + l + 5
    BY <1>2, <1>9
  <2>2. b = LF /\ b \in Byte /\ b # "$"
    BY <1>3, <1>4, <2>1, BytesAre
  <2>3. t = s /\ t \in DState
    BY <1>1, <1>9, <2>2, NextByteIs, SMTT(20) DEF Behind
  <2>4. m + 1 \in d + l + 4..d + l + 5
    BY <1>2, <2>1
  <2> QED BY <1>1, <1>9, <2>3, <2>4 DEF InBulk
<1>10. \/ m \in 1..d + 1 /\ InHeader(s, c, f, k)
       \/ m = d + 2 /\ InHeader(s, c, f, k)
       \/ m \in d + 3..d + l + 2 /\ InWord(s, c, f, k, m - d - 3)
       \/ m = d + l + 3 /\ InWord(s, c, f, k, m - d - 3)
       \/ m \in d + l + 4..d + l + 5 /\ Behind(s, c, f, k)
  <2>1. m \in 1..d + 2 => m \in 1..d + 1 \/ m = d + 2
    OBVIOUS
  <2>2. m \in d + 3..d + l + 3 => m \in d + 3..d + l + 2 \/ m = d + l + 3
    BY <1>2
  <2> QED BY <2>1, <2>2 DEF InBulk
<1> QED BY <1>5, <1>6, <1>7, <1>8, <1>9, <1>10

\* Behind the first i bytes of the packet, read from the byte at a on; f is the
\* first bulk of which the "$" was read.
Reading(s, c, e, f, i) ==
  \/ i <= e[f - 1] /\ Behind(s, c, f, f - 1)
  \/ \E k \in f..Len(c) : i > e[k - 1] /\ InBulk(s, c, f, k, i - e[k - 1], Width(c[k]), Len(c[k]))

\* f is the first bulk that begins behind the first a bytes.
BulkBehind(c, e, f, a) ==
  /\ f \in 1..Len(c) + 1 /\ a <= e[f - 1]
  /\ f > 1 => e[f - 2] < a

\* A bulk has its dollar at its first byte only.
LEMMA NoDollar ==
  ASSUME NEW w, AWord(w), NEW p, NEW o \in Nat, BulkAt(p, o, w, Width(w)), NEW m \in 2..Size(w)
  PROVE  p[o + m] # "$"
<1>1. PICK d, l : d = Width(w) /\ l = Len(w)
  OBVIOUS
<1>2. d \in Nat /\ l \in Nat /\ Size(w) = d + l + 5 /\ \A i \in 1..l : w[i] \notin Special
  BY <1>1, WidthIs DEF AWord, Size
<1>3. CR # "$" /\ LF # "$" /\ "$" \in Special /\ "$" \notin Decimals
  BY DEF CR, LF, Special, Decimals
<1>4. CASE m \in 2..d + 1
  <2>1. m - 1 \in 1..d /\ o + 1 + (m - 1) = o + m
    BY <1>2, <1>4
  <2>2. p[o + 1 + (m - 1)] \in Decimals
    BY <1>1, <2>1 DEF BulkAt
  <2> QED BY <1>3, <2>1, <2>2
<1>5. CASE m \in d + 4..d + l + 3
  <2>1. PICK j : j = m - d - 3
    OBVIOUS
  <2>2. j \in 1..l /\ o + d + 3 + j = o + m
    BY <1>2, <1>5, <2>1
  <2>3. p[o + d + 3 + j] = w[j]
    BY <1>1, <2>2 DEF BulkAt
  <2> QED BY <1>2, <1>3, <2>2, <2>3
<1>6. CASE m \in {d + 2, d + 3, d + l + 4, d + l + 5}
  <2>1. /\ p[o + d + 2] = CR /\ p[o + d + 3] = LF
        /\ p[o + d + l + 4] = CR /\ p[o + d + l + 5] = LF
    BY <1>1 DEF BulkAt
  <2>2. \/ o + m = o + d + 2 \/ o + m = o + d + 3 \/ o + m = o + d + l + 4 \/ o + m = o + d + l + 5
    BY <1>2, <1>6
  <2> QED BY <1>3, <2>1, <2>2
<1>7. m \in 2..d + 1 \/ m \in d + 4..d + l + 3 \/ m \in {d + 2, d + 3, d + l + 4, d + l + 5}
  BY <1>2
<1> QED BY <1>4, <1>5, <1>6, <1>7

\* Facts about the words of a command.
LEMMA CommandIs ==
  ASSUME NEW c, ACommand(c)
  PROVE  /\ c \in Seq(Text) /\ Len(c) \in Nat /\ Len(c) > 0
         /\ \A k \in 1..Len(c) : /\ AWord(c[k]) /\ c[k] \in Text /\ Len(c[k]) \in Nat
                                    /\ Width(c[k]) \in Nat
                                 /\ Size(c[k]) = Width(c[k]) + Len(c[k]) + 5
<1>1. \A k \in 1..Len(c) : AWord(c[k]) /\ c[k] \in Text
  BY DEF ACommand, AWord
<1>2. \A k \in 1..Len(c) : Len(c[k]) \in Nat /\ Width(c[k]) \in Nat
  BY <1>1, WidthIs
<1> QED BY <1>1, <1>2 DEF ACommand, Size

\* The ends of bulks rise.
LEMMA EndsRise ==
  ASSUME NEW c, ACommand(c), NEW p, NEW e, LaidOut(p, c, e)
  PROVE  \A k \in 0..Len(c) : \A i \in 0..k : i < k => e[i] < e[k]
<1>1. PICK n : n = Len(c) /\ n \in Nat
  BY CommandIs
<1>2. PICK P : P = {k \in 0..n : \A i \in 0..k : i < k => e[i] < e[k]}
  OBVIOUS
<1>3. 0 \in P
  BY <1>1, <1>2
<1>4. ASSUME NEW k \in 1..n, k - 1 \in P PROVE k \in P
  <2>1. k \in 0..n /\ k - 1 \in 0..n
    BY <1>1
  <2>2. e[k] = e[k - 1] + Size(c[k]) /\ e[k] \in Nat /\ e[k - 1] \in Nat
    BY <1>1, <2>1 DEF LaidOut
  <2>3. Size(c[k]) \in Nat /\ Size(c[k]) > 0
    <3>1. /\ Size(c[k]) = Width(c[k]) + Len(c[k]) + 5 /\ Len(c[k]) \in Nat /\ Width(c[k]) \in Nat
      BY <1>1, CommandIs
    <3> QED BY <3>1
  <2>4. ASSUME NEW i \in 0..k, i < k PROVE e[i] < e[k]
    <3>1. i = k - 1 \/ (i \in 0..k - 1 /\ i < k - 1)
      BY <2>4
    <3>2. i \in 0..n
      BY <1>1
    <3>3. e[i] \in Nat
      BY <1>1, <3>2 DEF LaidOut
    <3>4. e[i] <= e[k - 1]
      <4>1. CASE i = k - 1
        BY <2>2, <4>1
      <4>2. CASE i \in 0..k - 1 /\ i < k - 1
        <5>1. e[i] < e[k - 1]
          BY <1>2, <1>4, <4>2
        <5> QED BY <2>2, <3>3, <5>1
      <4> QED BY <3>1, <4>1, <4>2
    <3> QED BY <2>2, <2>3, <3>3, <3>4
  <2> QED BY <1>2, <2>1, <2>4
<1>5. \A k \in 0..n : k \in P
  BY <1>1, <1>3, <1>4, CountUp
<1> QED BY <1>1, <1>2, <1>5

\* There is a first bulk behind any byte, or none is left.
LEMMA BulkIsBehind ==
  ASSUME NEW c, ACommand(c), NEW p, NEW e, LaidOut(p, c, e), NEW a \in 0..Len(p)
  PROVE  \E f : BulkBehind(c, e, f, a)
<1>1. PICK n : n = Len(c) /\ n \in Nat /\ n > 0
  BY CommandIs
<1>2. PICK F : F = {f \in 1..n + 1 : a <= e[f - 1]}
  OBVIOUS
<1>3. n + 1 \in F
  <2>1. a <= e[n] /\ (n + 1) - 1 = n /\ n + 1 \in 1..n + 1
    BY <1>1 DEF LaidOut
  <2> QED BY <1>2, <2>1
<1>4. F \in SUBSET Nat /\ F # {}
  BY <1>1, <1>2, <1>3
<1>5. PICK f \in F : \A g \in F : f <= g
  BY <1>4, LeastOf
<1>6. f \in 1..n + 1 /\ a <= e[f - 1]
  BY <1>2, <1>5
<1>7. ASSUME f > 1 PROVE e[f - 2] < a
  <2>1. f - 1 \in 1..n + 1 /\ (f - 1) - 1 = f - 2 /\ ~(f <= f - 1) /\ f - 2 \in 0..n
    BY <1>1, <1>6, <1>7
  <2>2. f - 1 \notin F
    BY <1>5, <2>1
  <2>3. ~(a <= e[f - 2])
    BY <1>2, <2>1, <2>2
  <2>4. e[f - 2] \in Nat
    BY <1>1, <2>1 DEF LaidOut
  <2> QED BY <2>3, <2>4
<1> QED BY <1>1, <1>6, <1>7 DEF BulkBehind

\* The next byte of a packet keeps the loop where it should be.
LEMMA ReadsOn ==
  ASSUME NEW c, ACommand(c), NEW p, NEW e, LaidOut(p, c, e), NEW f, NEW a \in Nat,
         BulkBehind(c, e, f, a),
         NEW i \in Nat, a <= i, i < Len(p), NEW s \in DState, Reading(s, c, e, f, i)
  PROVE  NextByte(s, p[i + 1]) \in DState /\ Reading(NextByte(s, p[i + 1]), c, e, f, i + 1)
<1>1. PICK n, b, t : n = Len(c) /\ b = p[i + 1] /\ t = NextByte(s, b)
  OBVIOUS
<1>2. /\ n \in Nat /\ n > 0 /\ c \in Seq(Text) /\ f \in 1..n + 1 /\ \A k \in 0..n : e[k] \in Nat
      /\ Len(p) = e[n] /\ p \in Text
  BY <1>1, CommandIs DEF BulkBehind, LaidOut
<1>3. b \in Byte
  <2>1. i + 1 \in 1..Len(p)
    BY <1>2
  <2> QED BY <1>1, <1>2, <2>1 DEF Text
<1>4. \A k \in 1..n : /\ AWord(c[k]) /\ e[k] = e[k - 1] + Size(c[k])
                      /\ BulkAt(p, e[k - 1], c[k], Width(c[k])) /\ p[e[k - 1] + 1] = "$"
                      /\ Width(c[k]) \in Nat /\ Len(c[k]) \in Nat
                      /\ Size(c[k]) = Width(c[k]) + Len(c[k]) + 5
  BY <1>1, CommandIs, SMTT(20) DEF LaidOut, BulkAt
<1>5. ASSUME NEW k \in f..n, i = e[k - 1], Behind(s, c, f, k - 1)
      PROVE  t \in DState /\ Reading(t, c, e, f, i + 1)
  <2>1. k \in 1..n /\ k \in Nat /\ f \in Nat
    BY <1>2
  <2>2. b = "$"
    BY <1>1, <1>4, <1>5, <2>1
  <2>3. Width(c[k]) \in Nat /\ Len(c[k]) \in Nat
    BY <1>4, <2>1
  <2>4. t \in DState /\ InBulk(t, c, f, k, 1, Width(c[k]), Len(c[k]))
    BY <1>1, <1>2, <1>5, <2>1, <2>2, <2>3, BulkBegins
  <2>5. k - 1 \in 0..n
    BY <1>2, <2>1
  <2>6. i + 1 > e[k - 1] /\ (i + 1) - e[k - 1] = 1
    BY <1>2, <1>5, <2>5
  <2> QED BY <1>1, <2>4, <2>6 DEF Reading
<1>6. CASE i < e[f - 1] /\ Behind(s, c, f, f - 1)
  <2>1. f - 1 \in 0..n /\ e[f - 1] \in Nat
    BY <1>2
  <2>2. b # "$"
    <3>1. CASE f = 1
      <4>1. i + 1 \in 1..e[0]
        BY <1>6, <2>1, <3>1
      <4>2. i + 1 = 1 \/ i + 1 \in 2..e[0]
        BY <2>1, <3>1, <4>1
      <4> QED BY <1>1, <4>2 DEF LaidOut
    <3>2. CASE f > 1
      <4>1. f - 1 \in 1..n /\ (f - 1) - 1 = f - 2 /\ f - 2 \in 0..n
        BY <1>2, <3>2
      <4>2. PICK o : o = e[f - 2]
        OBVIOUS
      <4>3. o \in Nat /\ o < a /\ e[f - 1] = o + Size(c[f - 1]) /\ Size(c[f - 1]) \in Nat
            /\ AWord(c[f - 1]) /\ BulkAt(p, o, c[f - 1], Width(c[f - 1]))
        <5>1. e[f - 1] = e[(f - 1) - 1] + Size(c[f - 1]) /\ AWord(c[f - 1])
                /\ BulkAt(p, e[(f - 1) - 1], c[f - 1], Width(c[f - 1]))
              /\ Width(c[f - 1]) \in Nat /\ Len(c[f - 1]) \in Nat
              /\ Size(c[f - 1]) = Width(c[f - 1]) + Len(c[f - 1]) + 5
          BY <1>4, <4>1
        <5>2. o \in Nat /\ o < a
          BY <1>2, <3>2, <4>1, <4>2 DEF BulkBehind
        <5>3. Size(c[f - 1]) \in Nat
          BY <5>1
        <5> QED BY <4>1, <4>2, <5>1, <5>2, <5>3
      <4>4. PICK m : m = i + 1 - o
        OBVIOUS
      <4>5. m \in 2..Size(c[f - 1]) /\ o + m = i + 1
        BY <1>6, <2>1, <4>3, <4>4
      <4>6. p[o + m] # "$"
        BY <4>3, <4>5, NoDollar
      <4> QED BY <1>1, <4>5, <4>6
    <3>3. f = 1 \/ f > 1
      BY <1>2
    <3> QED BY <3>1, <3>2, <3>3
  <2>3. t = s
    BY <1>1, <1>3, <1>6, <2>2, NextByteIs DEF Behind
  <2>4. i + 1 <= e[f - 1]
    BY <1>6, <2>1
  <2> QED BY <1>1, <1>6, <2>3, <2>4 DEF Reading
<1>7. CASE i = e[f - 1] /\ Behind(s, c, f, f - 1)
  <2>1. f # n + 1
    <3> SUFFICES ASSUME f = n + 1 PROVE FALSE
      OBVIOUS
    <3>1. f - 1 = n
      BY <1>2
    <3> QED BY <1>2, <1>7, <3>1
  <2>2. f \in f..n
    BY <1>2, <2>1
  <2> QED BY <1>1, <1>5, <1>7, <2>2
<1>8. ASSUME NEW k \in f..n, i > e[k - 1], InBulk(s, c, f, k, i - e[k - 1], Width(c[k]), Len(c[k]))
      PROVE  t \in DState /\ Reading(t, c, e, f, i + 1)
  <2>1. PICK o, d, l, m : o = e[k - 1] /\ d = Width(c[k]) /\ l = Len(c[k]) /\ m = i - o
    OBVIOUS
  <2>2. k \in 1..n /\ k - 1 \in 0..n /\ k \in 0..n
    BY <1>2
  <2>3. o \in Nat /\ d \in Nat /\ l \in Nat /\ e[k] = o + (d + l + 5) /\ BulkAt(p, o, c[k], d)
    BY <1>2, <1>4, <2>1, <2>2
  <2>4. m \in Nat /\ m >= 1 /\ i = o + m /\ InBulk(s, c, f, k, m, d, l)
    <3>1. InBulk(s, c, f, k, m, d, l) /\ i > o
      BY <1>8, <2>1
    <3>2. m = i - o /\ o \in Nat
      BY <2>1, <2>3
    <3>3. m \in Nat /\ m >= 1 /\ i = o + m
      BY <3>1, <3>2
    <3> QED BY <3>1, <3>3
  <2>5. CASE m \in 1..d + l + 4
    <3>1. b = p[o + m + 1]
      BY <1>1, <2>4
    <3>2. f \in 1..Len(c) + 1 /\ k \in f..Len(c)
      BY <1>1, <1>2
    <3>3. t \in DState /\ InBulk(t, c, f, k, m + 1, d, l)
      <4>1. l = Len(c[k]) /\ BulkAt(p, o, c[k], d) /\ InBulk(s, c, f, k, m, d, l)
        BY <2>1, <2>3, <2>4
      <4>2. NextByte(s, b) \in DState /\ InBulk(NextByte(s, b), c, f, k, m + 1, d, l)
        BY <2>3, <2>5, <3>1, <3>2, <4>1, BulkGoesOn
      <4> QED BY <1>1, <4>2
    <3>4. i + 1 > o /\ (i + 1) - o = m + 1
      BY <2>3, <2>4
    <3>5. i + 1 > e[k - 1] /\ InBulk(t, c, f, k, (i + 1) - e[k - 1], Width(c[k]), Len(c[k]))
      BY <2>1, <3>3, <3>4
    <3> QED BY <1>1, <3>3, <3>5 DEF Reading
  <2>6. CASE m = d + l + 5 /\ Behind(s, c, f, k)
    <3>1. i = e[k]
      BY <2>3, <2>4, <2>6
    <3>2. k # n
      BY <1>2, <3>1
    <3>3. k + 1 \in f..n /\ (k + 1) - 1 = k
      BY <1>2, <2>2, <3>2
    <3>4. i = e[(k + 1) - 1] /\ Behind(s, c, f, (k + 1) - 1)
      BY <2>6, <3>1, <3>3
    <3> QED BY <1>5, <3>3, <3>4
  <2>7. m \in 1..d + l + 4 \/ (m = d + l + 5 /\ Behind(s, c, f, k))
    BY <2>3, <2>4 DEF InBulk
  <2> QED BY <2>5, <2>6, <2>7
<1>9. \/ i < e[f - 1] /\ Behind(s, c, f, f - 1)
      \/ i = e[f - 1] /\ Behind(s, c, f, f - 1)
      \/ \E k \in f..n : i > e[k - 1] /\ InBulk(s, c, f, k, i - e[k - 1], Width(c[k]), Len(c[k]))
  <2>1. f - 1 \in 0..n /\ e[f - 1] \in Nat
    BY <1>2
  <2>2. i <= e[f - 1] => i < e[f - 1] \/ i = e[f - 1]
    BY <2>1
  <2> QED BY <1>1, <2>2 DEF Reading
<1> QED BY <1>1, <1>6, <1>7, <1>8, <1>9

\* bytes are a star and the part of p behind its first a bytes, up to the b-th.
PartOf(bytes, p, a, b) ==
  /\ bytes \in Text /\ a \in Nat /\ b \in a..Len(p) /\ Len(bytes) = b - a + 1 /\ bytes[1] = "*"
  /\ \A j \in 2..Len(bytes) : bytes[j] = p[a + j - 1]

\* The loop over a part of a packet: every state is where it should be.
LEMMA PartReads ==
  ASSUME NEW c, ACommand(c), NEW p, NEW e, LaidOut(p, c, e), NEW f, NEW a, BulkBehind(c, e, f, a),
         NEW b, NEW bytes, PartOf(bytes, p, a, b), NEW g, Loops(g, bytes)
  PROVE  Reading(g[Len(bytes)], c, e, f, b) /\ g[Len(bytes)] \in DState
<1>1. /\ bytes \in Text /\ a \in Nat /\ b \in Nat /\ a <= b /\ b <= Len(p) /\ Len(bytes) = b - a + 1
      /\ bytes[1] = "*" /\ \A j \in 2..Len(bytes) : bytes[j] = p[a + j - 1] /\ Len(p) \in Nat
  <2>1. Len(p) \in Nat
    BY DEF LaidOut, Text
  <2> QED BY <2>1 DEF PartOf
<1>3. PICK n : n = b - a /\ n \in Nat /\ Len(bytes) = n + 1
  BY <1>1
<1>4. \A k \in 0..n : g[k + 1] \in DState
  <2>1. \A k \in 0..n : k + 1 \in 1..Len(bytes)
    BY <1>3
  <2> QED BY <2>1 DEF Loops
<1>5. PICK P : P = {k \in 0..n : Reading(g[k + 1], c, e, f, a + k)}
  OBVIOUS
<1>6. 0 \in P
  <2>1. g[1] = Begin(bytes) /\ bytes[1] \notin {"+", "-", ":"}
    BY <1>1 DEF Loops
  <2>2. ~g[1].dollar /\ ~g[1].str /\ g[1].ret = <<>>
    BY <2>1 DEF Begin
  <2>3. c \in Seq(Text) /\ f \in Nat /\ f > 0 /\ a <= e[f - 1]
    BY CommandIs DEF BulkBehind
  <2>4. SubSeq(c, f, f - 1) = <<>>
    BY <2>3
  <2>5. Reading(g[1], c, e, f, a)
    BY <2>2, <2>3, <2>4 DEF Reading, Behind
  <2>6. a + 0 = a /\ 0 + 1 = 1 /\ 0 \in 0..n
    BY <1>1, <1>3
  <2> QED BY <1>5, <2>5, <2>6
<1>7. ASSUME NEW k \in 1..n, k - 1 \in P PROVE k \in P
  <2>1. PICK i, s : i = a + (k - 1) /\ s = g[k]
    OBVIOUS
  <2>2. /\ i \in Nat /\ a <= i /\ i < Len(p) /\ i + 1 = a + k /\ (k - 1) + 1 = k
           /\ k - 1 \in 0..n /\ k \in 0..n
        /\ k + 1 \in 2..Len(bytes) /\ (k + 1) - 1 = k /\ a + (k + 1) - 1 = a + k
    BY <1>1, <1>3, <2>1
  <2>3. s \in DState /\ Reading(s, c, e, f, i)
    BY <1>4, <1>5, <1>7, <2>1, <2>2
  <2>4. NextByte(s, p[i + 1]) \in DState /\ Reading(NextByte(s, p[i + 1]), c, e, f, i + 1)
    BY <1>1, <2>2, <2>3, ReadsOn
  <2>5. g[k + 1] = NextByte(s, bytes[k + 1])
    <3>1. g[k + 1] = NextByte(g[(k + 1) - 1], bytes[k + 1])
      BY <2>2 DEF Loops
    <3> QED BY <2>1, <2>2, <3>1
  <2>6. bytes[k + 1] = p[i + 1]
    <3>1. bytes[k + 1] = p[a + (k + 1) - 1]
      BY <1>1, <2>2
    <3> QED BY <2>2, <3>1
  <2>7. Reading(g[k + 1], c, e, f, a + k)
    BY <2>2, <2>4, <2>5, <2>6
  <2> QED BY <1>5, <2>2, <2>7
<1>8. \A k \in 0..n : k \in P
  BY <1>3, <1>6, <1>7, CountUp
<1>9. n \in 0..n /\ a + n = b
  BY <1>1, <1>3
<1>10. Reading(g[n + 1], c, e, f, b) /\ g[n + 1] \in DState
  BY <1>4, <1>5, <1>8, <1>9
<1> QED BY <1>3, <1>10

\* What a part decodes to is what the loop had read at its end.
LEMMA PartDecodes ==
  ASSUME NEW c, ACommand(c), NEW p, NEW e, LaidOut(p, c, e), NEW f, NEW a, BulkBehind(c, e, f, a),
         NEW b, NEW bytes, PartOf(bytes, p, a, b)
  PROVE  \E s \in DState : Reading(s, c, e, f, b) /\ DecodeResp(bytes) = s.ret
<1>1. bytes \in Text /\ Len(bytes) > 0 /\ bytes[1] \in {"+", "-", ":", "*"}
  <2>1. bytes \in Text /\ a \in Nat /\ b \in a..Len(p) /\ Len(bytes) = b - a + 1 /\ bytes[1] = "*"
    BY DEF PartOf
  <2>2. Len(p) \in Nat
    BY DEF LaidOut, Text
  <2> QED BY <2>1, <2>2
<1>2. PICK g : Loops(g, bytes) /\ DecodeResp(bytes) = g[Len(bytes)].ret
  BY <1>1, DecodedBy
<1>3. Reading(g[Len(bytes)], c, e, f, b) /\ g[Len(bytes)] \in DState
  BY <1>2, PartReads
<1> QED BY <1>2, <1>3

\* However a read cuts a packet, what it decodes to are whole words, one behind the
\* other, or none.
LEMMA PartIsSegment ==
  ASSUME NEW c, ACommand(c), NEW p, NEW e, LaidOut(p, c, e), NEW a, NEW b, NEW bytes,
         PartOf(bytes, p, a, b)
  PROVE  DecodeResp(bytes) = <<>> \/ IsSegment(DecodeResp(bytes), c)
<1>1. a \in 0..Len(p)
  <2>1. Len(p) \in Nat
    BY DEF LaidOut, Text
  <2> QED BY <2>1 DEF PartOf
<1>2. PICK f : BulkBehind(c, e, f, a)
  BY <1>1, BulkIsBehind
<1>3. PICK s \in DState : Reading(s, c, e, f, b) /\ DecodeResp(bytes) = s.ret
  BY <1>2, PartDecodes
<1>4. c \in Seq(Text) /\ Len(c) \in Nat /\ f \in 1..Len(c) + 1
  BY <1>2, CommandIs DEF BulkBehind
<1>5. \E k \in f - 1..Len(c) : s.ret = SubSeq(c, f, k)
  <2>1. CASE Behind(s, c, f, f - 1)
    <3>1. f - 1 \in f - 1..Len(c)
      BY <1>4
    <3> QED BY <2>1, <3>1 DEF Behind
  <2>2. CASE \E k \in f..Len(c) : InBulk(s, c, f, k, b - e[k - 1], Width(c[k]), Len(c[k]))
    <3>1. PICK k \in f..Len(c) : InBulk(s, c, f, k, b - e[k - 1], Width(c[k]), Len(c[k]))
      BY <2>2
    <3>2. k \in f - 1..Len(c) /\ k - 1 \in f - 1..Len(c)
      BY <1>4
    <3>3. s.ret = SubSeq(c, f, k) \/ s.ret = SubSeq(c, f, k - 1)
      BY <3>1 DEF InBulk, InHeader, InWord, Behind
    <3> QED BY <3>2, <3>3
  <2> QED BY <1>3, <2>1, <2>2 DEF Reading
<1>6. PICK k \in f - 1..Len(c) : s.ret = SubSeq(c, f, k)
  BY <1>5
<1>7. CASE k = f - 1
  BY <1>3, <1>4, <1>6, <1>7
<1>8. CASE k # f - 1
  <2>1. f \in DOMAIN c /\ k \in f..Len(c)
    BY <1>4, <1>8
  <2> QED BY <1>3, <1>6, <2>1 DEF IsSegment
<1> QED BY <1>7, <1>8

\* Behind the first k bulks of a packet, its first k words are read.
LEMMA BulksRead ==
  ASSUME NEW c, ACommand(c), NEW p, NEW e, LaidOut(p, c, e), NEW k \in 1..Len(c),
         NEW bytes, PartOf(bytes, p, 1, e[k]), NEW g, Loops(g, bytes)
  PROVE  Behind(g[Len(bytes)], c, 1, k) /\ g[Len(bytes)] \in DState
<1>1. PICK n : n = Len(c) /\ n \in Nat /\ n > 0 /\ c \in Seq(Text)
  BY CommandIs
<1>2. \A i \in 0..n : e[i] \in Nat
  BY <1>1 DEF LaidOut
<1>3. \A j \in 0..n : \A i \in 0..j : i < j => e[i] < e[j]
  BY <1>1, EndsRise
<1>4. BulkBehind(c, e, 1, 1)
  BY <1>1 DEF BulkBehind, LaidOut
<1>5. PICK s \in DState : Reading(s, c, e, 1, e[k]) /\ s = g[Len(bytes)]
  BY <1>4, PartReads
<1>6. k \in 0..n /\ 0 \in 0..k /\ 0 < k /\ 0 \in 0..n
  BY <1>1
<1>7. e[0] < e[k] /\ e[0] \in Nat /\ e[k] \in Nat
  BY <1>2, <1>3, <1>6
<1>8. PICK j \in 1..n : e[k] > e[j - 1]
        /\ InBulk(s, c, 1, j, e[k] - e[j - 1], Width(c[j]), Len(c[j]))
  <2>1. ~(e[k] <= e[1 - 1])
    BY <1>7
  <2> QED BY <1>1, <1>5, <2>1 DEF Reading
<1>9. PICK d, l, o, m : d = Width(c[j]) /\ l = Len(c[j]) /\ o = e[j - 1] /\ m = e[k] - o
  OBVIOUS
<1>10. d \in Nat /\ l \in Nat /\ e[j] = o + (d + l + 5) /\ j - 1 \in 0..n /\ j \in 0..n
         /\ o \in Nat /\ e[j] \in Nat
  <2>1. j \in 1..Len(c) /\ j - 1 \in 0..n /\ j \in 0..n
    BY <1>1
  <2>2. e[j] = e[j - 1] + Size(c[j])
    BY <2>1 DEF LaidOut
  <2> QED BY <1>2, <1>9, <2>1, <2>2, CommandIs
<1>11. m <= d + l + 5
  BY <1>8, <1>9, <1>10, SMTT(20) DEF InBulk
<1>12. e[k] <= e[j]
  <2>1. PICK x, y : x = e[k] /\ y = e[j]
    OBVIOUS
  <2>2. x \in Nat /\ o \in Nat /\ d \in Nat /\ l \in Nat /\ x - o <= d + l + 5
          /\ y = o + (d + l + 5)
    BY <1>7, <1>9, <1>10, <1>11, <2>1
  <2>3. x <= y
    BY <2>2
  <2> QED BY <2>1, <2>3
<1>13. j = k
  <2>1. ~(j < k)
    <3> SUFFICES ASSUME j < k PROVE FALSE
      OBVIOUS
    <3>1. j \in 0..k
      BY <1>10
    <3>2. e[j] < e[k]
      BY <1>3, <1>6, <3>1
    <3> QED BY <1>7, <1>10, <1>12, <3>2
  <2>2. ~(k < j)
    <3> SUFFICES ASSUME k < j PROVE FALSE
      OBVIOUS
    <3>1. k \in 0..j - 1 /\ j - 1 \in 0..n
      BY <1>1, <1>6, <1>10
    <3>2. k = j - 1 \/ e[k] < e[j - 1]
      BY <1>3, <3>1
    <3>3. CASE k = j - 1
      <4>1. e[k] = o
        BY <1>9, <3>3
      <4> QED BY <1>8, <1>9, <1>10, <4>1
    <3>4. CASE e[k] < e[j - 1]
      <4>1. e[k] < o /\ e[k] > o
        BY <1>8, <1>9, <3>4
      <4> QED BY <1>7, <1>10, <4>1
    <3> QED BY <3>2, <3>3, <3>4
  <2> QED BY <1>10, <2>1, <2>2
<1>14. m = d + l + 5
  BY <1>7, <1>9, <1>10, <1>13
<1>15. Behind(s, c, 1, j)
  <2>1. InBulk(s, c, 1, j, m, d, l)
    BY <1>8, <1>9
  <2>2. m \notin 1..d + 2 /\ m \notin d + 3..d + l + 3
    BY <1>10, <1>14
  <2> QED BY <2>1, <2>2 DEF InBulk
<1> QED BY <1>5, <1>13, <1>15

\* A packet up to the end of a bulk decodes to the words up to there.
LEMMA WholeBulks ==
  ASSUME NEW c, ACommand(c), NEW p, NEW e, LaidOut(p, c, e), NEW k \in 1..Len(c),
         NEW bytes, PartOf(bytes, p, 1, e[k])
  PROVE  DecodeResp(bytes) = SubSeq(c, 1, k)
<1>1. bytes \in Text /\ Len(bytes) > 0 /\ bytes[1] \in {"+", "-", ":", "*"}
  <2>1. bytes \in Text /\ e[k] \in 1..Len(p) /\ Len(bytes) = e[k] - 1 + 1 /\ bytes[1] = "*"
    BY DEF PartOf
  <2>2. Len(p) \in Nat
    BY DEF LaidOut, Text
  <2> QED BY <2>1, <2>2
<1>2. PICK g : Loops(g, bytes) /\ DecodeResp(bytes) = g[Len(bytes)].ret
  BY <1>1, DecodedBy
<1> QED BY <1>2, BulksRead DEF Behind

\* decodeResp is the inverse of encodeResp.
LEMMA DecodesEncoded ==
  ASSUME NEW c, ACommand(c)
  PROVE  DecodeResp(EncodeResp(c)) = c /\ EncodeResp(c) \in Text /\ Len(EncodeResp(c)) > 0
<1>1. PICK p : p = EncodeResp(c)
  OBVIOUS
<1>2. PICK e : LaidOut(p, c, e)
  BY <1>1, CommandIs, LaysOut
<1>3. PICK n : n = Len(c) /\ n \in Nat /\ n > 0 /\ c \in Seq(Text)
  BY CommandIs
<1>4. p \in Text /\ Len(p) = e[n] /\ p[1] = "*" /\ e[n] \in Nat
  BY <1>2, <1>3 DEF LaidOut
<1>5. e[n] > 1
  <2>1. 0 \in 0..n /\ n \in 0..n /\ 0 < n
    BY <1>3
  <2>2. e[0] < e[n]
    BY <1>2, <1>3, <2>1, EndsRise
  <2>3. e[0] \in Nat /\ e[0] >= 4
    BY <1>2, <1>3, <2>1 DEF LaidOut
  <2> QED BY <1>4, <2>2, <2>3
<1>6. PartOf(p, p, 1, e[n])
  <2>1. \A j \in 2..Len(p) : 1 + j - 1 = j
    BY <1>4
  <2> QED BY <1>4, <1>5, <2>1 DEF PartOf
<1>7. n \in 1..Len(c)
  BY <1>3
<1>8. DecodeResp(p) = SubSeq(c, 1, n)
  BY <1>2, <1>6, <1>7, WholeBulks
<1>9. SubSeq(c, 1, n) = c
  BY <1>3
<1> QED BY <1>1, <1>4, <1>5, <1>8, <1>9

-----------------------------------------------------------------------------
(* The pieces strtok leaves of a buffer.                                     *)

\* The bytes x to y are the m-th of the pieces u, of the first i bytes of q.
Piece(q, u, m, i, x, y) ==
  /\ x \in 1..i /\ y \in x..i /\ u[m] = SubSeq(q, x, y)
  /\ \A j \in x..y : q[j] # "*"
  /\ y < i => q[y + 1] = "*"
  /\ m = 1 => \A j \in 1..x - 1 : q[j] = "*"
  /\ m > 1 => x > 2 /\ q[x - 1] = "*"
  /\ m = Len(u) => \A j \in y + 1..i : q[j] = "*"
  /\ m < Len(u) => y < i

\* u are the pieces of the first i bytes of q.
CutUpTo(q, u, i) ==
  /\ u \in Seq(Text)
  /\ u = <<>> => \A j \in 1..i : q[j] = "*"
  /\ \A m \in 1..Len(u) : \E x, y : Piece(q, u, m, i, x, y)

\* The next byte keeps the pieces right.
LEMMA PiecesGoOn ==
  ASSUME NEW q \in Text, NEW i \in 1..Len(q), NEW u, CutUpTo(q, u, i - 1)
  PROVE  CutUpTo(q, NextPieces(u, q, i), i)
<1>1. PICK n, v : n = Len(u) /\ v = NextPieces(u, q, i)
  OBVIOUS
<1>2. /\ n \in Nat /\ u \in Seq(Text) /\ i \in Nat /\ i >= 1 /\ Len(q) \in Nat /\ i <= Len(q)
         /\ q[i] \in Byte
      /\ \A j \in 1..Len(q) : q[j] \in Byte
  BY <1>1 DEF CutUpTo, Text
<1>3. \A m \in 1..n : \E x, y : Piece(q, u, m, i - 1, x, y)
  BY <1>1 DEF CutUpTo
<1>4. CASE q[i] = "*"
  <2>1. v = u
    BY <1>1, <1>4 DEF NextPieces
  <2>2. ASSUME NEW m \in 1..n PROVE \E x, y : Piece(q, u, m, i, x, y)
    <3>1. PICK x, y : Piece(q, u, m, i - 1, x, y)
      BY <1>3
    <3>2. x \in 1..i /\ y \in x..i /\ y \in Nat /\ y <= i - 1
      BY <1>2, <3>1 DEF Piece
    <3>3. y < i => q[y + 1] = "*"
      <4>1. y < i - 1 \/ y + 1 = i
        BY <1>2, <3>2
      <4> QED BY <1>4, <3>1, <4>1 DEF Piece
    <3>4. m = Len(u) => \A j \in y + 1..i : q[j] = "*"
      <4>1. \A j \in y + 1..i : j \in y + 1..i - 1 \/ j = i
        BY <1>2, <3>2
      <4> QED BY <1>4, <3>1, <4>1 DEF Piece
    <3>6. y < i
      BY <1>2, <3>2
    <3>5. Piece(q, u, m, i, x, y)
      BY <3>1, <3>2, <3>3, <3>4, <3>6 DEF Piece
    <3> QED BY <3>5
  <2>3. u = <<>> => \A j \in 1..i : q[j] = "*"
    <3>1. \A j \in 1..i : j \in 1..i - 1 \/ j = i
      BY <1>2
    <3> QED BY <1>4, <3>1 DEF CutUpTo
  <2> QED BY <1>1, <1>2, <2>1, <2>2, <2>3 DEF CutUpTo
<1>5. CASE q[i] # "*" /\ (i = 1 \/ q[i - 1] = "*")
  <2>1. v = Append(u, <<q[i]>>)
    BY <1>1, <1>5 DEF NextPieces
  <2>2. <<q[i]>> \in Text
    BY <1>2 DEF Text
  <2>3. v \in Seq(Text) /\ Len(v) = n + 1 /\ v[n + 1] = <<q[i]>> /\ \A m \in 1..n : v[m] = u[m]
    BY <1>1, <1>2, <2>1, <2>2
  <2>4. ASSUME NEW m \in 1..n PROVE \E x, y : Piece(q, v, m, i, x, y)
    <3>1. PICK x, y : Piece(q, u, m, i - 1, x, y)
      BY <1>3
    <3>2. x \in 1..i /\ y \in x..i /\ y \in Nat /\ y <= i - 1 /\ x \in Nat /\ x >= 1 /\ x <= y
      BY <1>2, <3>1 DEF Piece
    <3>3. y < i => q[y + 1] = "*"
      <4>1. y < i - 1 \/ y = i - 1
        BY <1>2, <3>2
      <4>2. CASE y = i - 1
        <5>1. y \in x..y /\ i # 1
          BY <1>2, <3>2, <4>2
        <5>2. q[y] # "*"
          BY <3>1, <5>1 DEF Piece
        <5> QED BY <1>5, <4>2, <5>1, <5>2
      <4> QED BY <3>1, <4>1, <4>2 DEF Piece
    <3>4. m # Len(v)
      BY <1>2, <2>3
    <3>6. y < i
      BY <1>2, <3>2
    <3>5. Piece(q, v, m, i, x, y)
      BY <2>3, <3>1, <3>2, <3>3, <3>4, <3>6 DEF Piece
    <3> QED BY <3>5
  <2>5. Piece(q, v, n + 1, i, i, i)
    <3>1. v[n + 1] = SubSeq(q, i, i)
      BY <1>2, <2>3 DEF Text
    <3>2. i \in 1..i /\ i \in i..i /\ (\A j \in i..i : j = i) /\ i + 1..i = {} /\ ~(i < i)
      BY <1>2
    <3>3. n + 1 = 1 => \A j \in 1..i - 1 : q[j] = "*"
      <4>1. n + 1 = 1 => u = <<>>
        BY <1>1, <1>2
      <4> QED BY <4>1 DEF CutUpTo
    <3>4. n + 1 > 1 => i > 2 /\ q[i - 1] = "*"
      <4> SUFFICES ASSUME n + 1 > 1 PROVE i > 2 /\ q[i - 1] = "*"
        OBVIOUS
      <4>1. n \in 1..n
        BY <1>2
      <4>2. PICK x, y : Piece(q, u, n, i - 1, x, y)
        BY <1>3, <4>1
      <4>3. x \in 1..i - 1 /\ y \in x..i - 1 /\ \A j \in x..y : q[j] # "*"
        BY <4>2 DEF Piece
      <4>4. y \in x..y /\ i # 1 /\ y \in Nat /\ y >= 1 /\ y <= i - 1
        BY <1>2, <4>3
      <4>5. q[i - 1] = "*" /\ q[y] # "*"
        BY <1>5, <4>3, <4>4
      <4>6. y # i - 1
        BY <4>5
      <4> QED BY <1>2, <4>4, <4>5, <4>6
    <3>5. ~(n + 1 < Len(v))
      BY <1>2, <2>3
    <3> QED BY <1>5, <3>1, <3>2, <3>3, <3>4, <3>5 DEF Piece
  <2>6. \A m \in 1..Len(v) : \E x, y : Piece(q, v, m, i, x, y)
    <3>1. \A m \in 1..Len(v) : m \in 1..n \/ m = n + 1
      BY <1>2, <2>3
    <3> QED BY <2>4, <2>5, <3>1
  <2>7. v # <<>>
    BY <1>2, <2>3
  <2> QED BY <1>1, <2>3, <2>6, <2>7 DEF CutUpTo
<1>6. CASE q[i] # "*" /\ i # 1 /\ q[i - 1] # "*"
  <2>1. v = [u EXCEPT ![n] = Append(u[n], q[i])]
    BY <1>1, <1>6 DEF NextPieces
  <2>2. n >= 1
    <3> SUFFICES ASSUME n = 0 PROVE FALSE
      BY <1>2
    <3>1. u = <<>> /\ i - 1 \in 1..i - 1
      BY <1>1, <1>2, <1>6
    <3> QED BY <1>6, <3>1 DEF CutUpTo
  <2>3. PICK a, y : Piece(q, u, n, i - 1, a, y)
    <3>1. n \in 1..n
      BY <1>2, <2>2
    <3> QED BY <1>3, <3>1
  <2>4. a \in Nat /\ a >= 1 /\ y \in Nat /\ a <= y /\ y <= i - 1 /\ u[n] = SubSeq(q, a, y)
    BY <1>2, <2>3 DEF Piece
  <2>5. y = i - 1
    <3> SUFFICES ASSUME y # i - 1 PROVE FALSE
      OBVIOUS
    <3>1. i - 1 \in y + 1..i - 1
      BY <1>2, <2>4
    <3> QED BY <1>1, <1>6, <2>3, <3>1 DEF Piece
  <2>6. u[n] = SubSeq(q, a, i - 1) /\ Append(u[n], q[i]) = SubSeq(q, a, i)
          /\ SubSeq(q, a, i) \in Text
    <3>1. u[n] = SubSeq(q, a, i - 1) /\ a \in 1..Len(q) + 1 /\ i \in a..Len(q)
      BY <1>2, <2>4, <2>5
    <3>2. Append(SubSeq(q, a, i - 1), q[i]) = SubSeq(q, a, i)
      BY <3>1, MoreOf DEF Text
    <3>3. SubSeq(q, a, i) \in Text
      BY <1>2, <3>1 DEF Text
    <3> QED BY <3>1, <3>2, <3>3
  <2>7. v \in Seq(Text) /\ Len(v) = n /\ v[n] = SubSeq(q, a, i) /\ \A m \in 1..n - 1 : v[m] = u[m]
    <3>1. PICK w \in Text : w = SubSeq(q, a, i)
      BY <2>6
    <3>2. v = [u EXCEPT ![n] = w]
      BY <2>1, <2>6, <3>1
    <3>3. n \in 1..Len(u) /\ n \in 1..n
      BY <1>1, <1>2, <2>2
    <3>4. v \in Seq(Text) /\ Len(v) = n
      BY <1>1, <1>2, <3>2, <3>3
    <3>5. v[n] = w
      BY <1>1, <1>2, <3>2, <3>3
    <3>6. ASSUME NEW m \in 1..n - 1 PROVE v[m] = u[m]
      <4>1. m \in 1..Len(u) /\ m # n
        BY <1>1, <1>2
      <4> QED BY <1>2, <3>2, <4>1
    <3> QED BY <3>1, <3>4, <3>5, <3>6
  <2>8. ASSUME NEW m \in 1..n - 1 PROVE \E x, z : Piece(q, v, m, i, x, z)
    <3>1. m \in 1..n /\ m # n /\ m # Len(v)
      BY <1>2, <2>7
    <3>2. PICK x, z : Piece(q, u, m, i - 1, x, z)
      BY <1>3, <3>1
    <3>3. x \in 1..i /\ z \in x..i /\ z \in Nat /\ z <= i - 1 /\ x <= z
      BY <1>2, <3>2 DEF Piece
    <3>4. z < i => q[z + 1] = "*"
      <4>1. m < n
        BY <1>2
      <4>2. z < i - 1
        BY <1>1, <3>2, <4>1 DEF Piece
      <4> QED BY <3>2, <4>2 DEF Piece
    <3>6. z < i
      BY <1>2, <3>3
    <3>5. Piece(q, v, m, i, x, z)
      BY <2>7, <3>1, <3>2, <3>3, <3>4, <3>6 DEF Piece
    <3> QED BY <3>5
  <2>9. Piece(q, v, n, i, a, i)
    <3>1. a \in 1..i /\ i \in a..i /\ ~(i < i) /\ i + 1..i = {} /\ ~(n < Len(v))
      BY <1>2, <2>4, <2>7, SMTT(20)
    <3>2. \A j \in a..i : q[j] # "*"
      <4>1. \A j \in a..i : j \in a..y \/ j = i
        BY <1>2, <2>4, <2>5
      <4>2. \A j \in a..y : q[j] # "*"
        BY <2>3 DEF Piece
      <4> QED BY <1>6, <4>1, <4>2
    <3>3. /\ n = 1 => \A j \in 1..a - 1 : q[j] = "*"
          /\ n > 1 => a > 2 /\ q[a - 1] = "*"
      BY <2>3 DEF Piece
    <3> QED BY <2>7, <3>1, <3>2, <3>3 DEF Piece
  <2>10. \A m \in 1..Len(v) : \E x, z : Piece(q, v, m, i, x, z)
    <3>1. \A m \in 1..Len(v) : m \in 1..n - 1 \/ m = n
      BY <1>2, <2>7
    <3> QED BY <2>8, <2>9, <3>1
  <2>11. v # <<>>
    BY <1>2, <2>2, <2>7
  <2> QED BY <1>1, <2>7, <2>10, <2>11 DEF CutUpTo
<1> QED BY <1>4, <1>5, <1>6

\* The function of Strtok.
PiecesUpTo(q, k, u) ==
  u = [i \in 0..k |-> IF i = 0 THEN <<>> ELSE NextPieces(u[i - 1], q, i)]

\* Strtok is defined for every text.
LEMMA PiecesExist ==
  ASSUME NEW q, NEW n \in Nat
  PROVE  \E u : PiecesUpTo(q, n, u)
<1>2. PICK P : P = {k \in 0..n : \E u : PiecesUpTo(q, k, u)}
  OBVIOUS
<1>3. 0 \in P
  <2> DEFINE g == [i \in 0..0 |-> <<>>]
  <2>1. \A i \in 0..0 : i = 0
    OBVIOUS
  <2>2. \A i \in 0..0 : g[i] = IF i = 0 THEN <<>> ELSE NextPieces(g[i - 1], q, i)
    BY <2>1
  <2>3. g = [i \in 0..0 |-> g[i]]
    OBVIOUS
  <2> HIDE DEF g
  <2>4. PiecesUpTo(q, 0, g)
    BY <2>2, <2>3 DEF PiecesUpTo
  <2>5. 0 \in 0..n
    OBVIOUS
  <2> QED BY <1>2, <2>4, <2>5
<1>4. ASSUME NEW k \in 1..n, k - 1 \in P PROVE k \in P
  <2>1. PICK u : PiecesUpTo(q, k - 1, u)
    BY <1>2, <1>4
  <2> DEFINE step(x, i) == IF i = 0 THEN <<>> ELSE NextPieces(x, q, i)
             g == [i \in 0..k |-> IF i < k THEN u[i] ELSE NextPieces(u[k - 1], q, k)]
  <2>2. ASSUME NEW i \in 0..k PROVE g[i] = step(g[i - 1], i)
    <3>1. CASE i < k
      <4>1. i \in 0..k - 1 /\ (i # 0 => i - 1 \in 0..k - 1 /\ i - 1 < k /\ i - 1 \in 0..k)
        BY <3>1
      <4>2. u[i] = step(u[i - 1], i)
        BY <2>1, <4>1 DEF PiecesUpTo
      <4>3. g[i] = u[i] /\ (i # 0 => g[i - 1] = u[i - 1])
        BY <3>1, <4>1
      <4> QED BY <4>2, <4>3
    <3>2. CASE i = k
      <4>1. i # 0 /\ ~(i < k) /\ i - 1 < k /\ i - 1 \in 0..k /\ i - 1 = k - 1
        BY <3>2
      <4>2. g[i] = NextPieces(u[k - 1], q, k) /\ g[i - 1] = u[k - 1]
        BY <4>1
      <4>3. step(g[i - 1], i) = NextPieces(g[i - 1], q, i)
        BY <4>1
      <4> HIDE DEF g, step
      <4> QED BY <3>2, <4>2, <4>3
    <3>3. i < k \/ i = k
      OBVIOUS
    <3> QED BY <3>1, <3>2, <3>3
  <2>3. g = [i \in 0..k |-> g[i]]
    OBVIOUS
  <2> HIDE DEF g
  <2>4. g = [i \in 0..k |-> step(g[i - 1], i)]
    <3> HIDE DEF step
    <3> QED BY <2>2, <2>3
  <2>5. PiecesUpTo(q, k, g)
    BY <2>4 DEF PiecesUpTo
  <2>6. k \in 0..n
    OBVIOUS
  <2> QED BY <1>2, <2>5, <2>6
<1>5. \A k \in 0..n : k \in P
  BY <1>3, <1>4, CountUp
<1>6. n \in 0..n
  OBVIOUS
<1> QED BY <1>2, <1>5, <1>6

\* Strtok returns the pieces.
LEMMA StrtokIs ==
  ASSUME NEW q \in Text
  PROVE  CutUpTo(q, Strtok(q), Len(q))
<1> DEFINE d == CHOOSE u : PiecesUpTo(q, Len(q), u)
<1>1. Len(q) \in Nat
  BY DEF Text
<1>2. PiecesUpTo(q, Len(q), d)
  BY <1>1, PiecesExist
<1>3. Strtok(q) = d[Len(q)]
  BY DEF Strtok, PiecesUpTo
<1>4. PICK u, n : u = d /\ n = Len(q)
  OBVIOUS
<1> HIDE DEF d
<1>5. \A i \in 0..n : u[i] = IF i = 0 THEN <<>> ELSE NextPieces(u[i - 1], q, i)
  BY <1>2, <1>4 DEF PiecesUpTo
<1>6. n \in Nat
  BY <1>1, <1>4
<1>7. PICK P : P = {k \in 0..n : CutUpTo(q, u[k], k)}
  OBVIOUS
<1>8. 0 \in P
  <2>1. u[0] = <<>> /\ 0 \in 0..n
    BY <1>5, <1>6
  <2>2. <<>> \in Seq(Text) /\ Len(<<>>) = 0
    OBVIOUS
  <2>3. CutUpTo(q, <<>>, 0)
    BY <2>2 DEF CutUpTo
  <2> QED BY <1>7, <2>1, <2>3
<1>9. ASSUME NEW k \in 1..n, k - 1 \in P PROVE k \in P
  <2>1. k \in 0..n /\ k # 0 /\ k \in 1..Len(q)
    BY <1>4, <1>6
  <2>2. u[k] = NextPieces(u[k - 1], q, k) /\ CutUpTo(q, u[k - 1], k - 1)
    BY <1>5, <1>7, <1>9, <2>1
  <2>3. CutUpTo(q, u[k], k)
    BY <2>1, <2>2, PiecesGoOn
  <2> QED BY <1>7, <2>1, <2>3
<1>10. \A k \in 0..n : k \in P
  BY <1>6, <1>8, <1>9, CountUp
<1>11. n \in 0..n
  BY <1>6
<1> QED BY <1>3, <1>4, <1>7, <1>10, <1>11

\* A bulk has no star.
LEMMA NoStarInBulk ==
  ASSUME NEW w, AWord(w), NEW p, NEW o \in Nat, BulkAt(p, o, w, Width(w)), NEW m \in 1..Size(w)
  PROVE  p[o + m] # "*"
<1>1. PICK d, l : d = Width(w) /\ l = Len(w)
  OBVIOUS
<1>2. d \in Nat /\ l \in Nat /\ Size(w) = d + l + 5 /\ \A i \in 1..l : w[i] \notin Special
  BY <1>1, WidthIs DEF AWord, Size
<1>3. CR # "*" /\ LF # "*" /\ "$" # "*" /\ "*" \in Special /\ "*" \notin Decimals
  BY DEF CR, LF, Special, Decimals
<1>4. CASE m \in 2..d + 1
  <2>1. m - 1 \in 1..d /\ o + 1 + (m - 1) = o + m
    BY <1>2, <1>4
  <2>2. p[o + 1 + (m - 1)] \in Decimals
    BY <1>1, <2>1 DEF BulkAt
  <2> QED BY <1>3, <2>1, <2>2
<1>5. CASE m \in d + 4..d + l + 3
  <2>1. PICK j : j = m - d - 3
    OBVIOUS
  <2>2. j \in 1..l /\ o + d + 3 + j = o + m
    BY <1>2, <1>5, <2>1
  <2>3. p[o + d + 3 + j] = w[j]
    BY <1>1, <2>2 DEF BulkAt
  <2> QED BY <1>2, <1>3, <2>2, <2>3
<1>6. CASE m \in {1, d + 2, d + 3, d + l + 4, d + l + 5}
  <2>1. /\ p[o + 1] = "$" /\ p[o + d + 2] = CR /\ p[o + d + 3] = LF
        /\ p[o + d + l + 4] = CR /\ p[o + d + l + 5] = LF
    BY <1>1 DEF BulkAt
  <2>2. \/ o + m = o + 1 \/ o + m = o + d + 2 \/ o + m = o + d + 3
        \/ o + m = o + d + l + 4 \/ o + m = o + d + l + 5
    BY <1>2, <1>6
  <2> QED BY <1>3, <2>1, <2>2
<1>7. m \in 2..d + 1 \/ m \in d + 4..d + l + 3 \/ m \in {1, d + 2, d + 3, d + l + 4, d + l + 5}
  BY <1>2
<1> QED BY <1>4, <1>5, <1>6, <1>7

\* A packet has a star at its first byte only.
LEMMA OneStar ==
  ASSUME NEW c, ACommand(c), NEW p, NEW e, LaidOut(p, c, e)
  PROVE  /\ p \in Text /\ Len(p) \in Nat /\ Len(p) > 3 /\ p[1] = "*"
         /\ \A i \in 2..Len(p) : p[i] # "*"
<1>1. PICK n : n = Len(c) /\ n \in Nat /\ n > 0
  BY CommandIs
<1>2. p \in Text /\ Len(p) \in Nat /\ p[1] = "*" /\ Len(p) = e[n] /\ e[0] >= 4
        /\ \A k \in 0..n : e[k] \in Nat
  <2>1. p \in Text
    BY DEF LaidOut
  <2>2. Len(p) \in Nat
    BY <2>1 DEF Text
  <2> QED BY <1>1, <2>1, <2>2 DEF LaidOut
<1>3. Len(p) > 3
  <2>1. 0 \in 0..n /\ n \in 0..n /\ 0 < n
    BY <1>1
  <2>2. e[0] < e[n] /\ e[0] \in Nat /\ e[n] \in Nat
    BY <1>1, <1>2, <2>1, EndsRise
  <2> QED BY <1>2, <2>2
<1>4. ASSUME NEW i \in 2..Len(p) PROVE p[i] # "*"
  <2>1. i \in Nat /\ i >= 2 /\ i \in 0..Len(p)
    BY <1>2
  <2>2. PICK f : BulkBehind(c, e, f, i)
    BY <2>1, BulkIsBehind
  <2>3. CASE i <= e[0]
    <3>1. i \in 2..e[0]
      <4>1. 0 \in 0..n
        BY <1>1
      <4>2. e[0] \in Nat
        BY <1>2, <4>1
      <4> QED BY <2>1, <2>3, <4>2
    <3> QED BY <3>1 DEF LaidOut
  <2>4. CASE ~(i <= e[0])
    <3>1. f \in 1..n + 1 /\ i <= e[f - 1] /\ (f > 1 => e[f - 2] < i)
      BY <1>1, <2>2 DEF BulkBehind
    <3>2. f # 1
      BY <2>4, <3>1
    <3>3. PICK k : k = f - 1 /\ k \in 1..n /\ k - 1 = f - 2 /\ k - 1 \in 0..n /\ k \in 0..n
      BY <1>1, <3>1, <3>2
    <3>4. i <= e[k] /\ e[k - 1] < i
      BY <1>1, <3>1, <3>2, <3>3
    <3>5. e[k] = e[k - 1] + Size(c[k]) /\ BulkAt(p, e[k - 1], c[k], Width(c[k])) /\ AWord(c[k])
      BY <1>1, <3>3, CommandIs DEF LaidOut
    <3>6. PICK o, s : o = e[k - 1] /\ s = Size(c[k])
      OBVIOUS
    <3>7. s \in Nat
      BY <3>5, <3>6, WidthIs DEF AWord
    <3>8. o \in Nat /\ i <= o + s /\ o < i
      BY <1>2, <3>3, <3>4, <3>5, <3>6
    <3>9. i - o \in 1..s /\ o + (i - o) = i
      BY <2>1, <3>7, <3>8
    <3>10. p[o + (i - o)] # "*"
      BY <3>5, <3>6, <3>8, <3>9, NoStarInBulk
    <3> QED BY <3>9, <3>10
  <2> QED BY <2>3, <2>4
<1> QED BY <1>2, <1>3, <1>4

-----------------------------------------------------------------------------
(* What strtok leaves of one packet, and of a buffer with one piece.         *)

\* Behind a star at the first byte, the first piece ends before the next star.
LEMMA FirstPiece ==
  ASSUME NEW q \in Text, NEW n \in 2..Len(q), q[1] = "*",
         \A i \in 2..n : q[i] # "*", n < Len(q) => q[n + 1] = "*"
  PROVE  /\ Strtok(q) \in Seq(Text) /\ Len(Strtok(q)) > 0 /\ Strtok(q)[1] = SubSeq(q, 2, n)
         /\ n = Len(q) => Len(Strtok(q)) = 1
<1>1. PICK u : u = Strtok(q)
  OBVIOUS
<1>2. CutUpTo(q, u, Len(q))
  BY <1>1, StrtokIs
<1>3. u \in Seq(Text) /\ Len(u) \in Nat /\ Len(q) \in Nat /\ n \in Nat /\ n >= 2 /\ n <= Len(q)
  BY <1>2 DEF CutUpTo, Text
<1>4. Len(u) > 0
  <2> SUFFICES ASSUME Len(u) = 0 PROVE FALSE
    BY <1>3
  <2>1. u = <<>> /\ 2 \in 1..Len(q) /\ 2 \in 2..n
    BY <1>3
  <2> QED BY <1>2, <2>1 DEF CutUpTo
<1>5. PICK x, y : Piece(q, u, 1, Len(q), x, y)
  <2>1. 1 \in 1..Len(u)
    BY <1>3, <1>4
  <2> QED BY <1>2, <2>1 DEF CutUpTo
<1>6. /\ x \in Nat /\ x >= 1 /\ y \in Nat /\ x <= y /\ y <= Len(q) /\ u[1] = SubSeq(q, x, y)
      /\ \A j \in x..y : q[j] # "*"
      /\ y < Len(q) => q[y + 1] = "*"
      /\ \A j \in 1..x - 1 : q[j] = "*"
      /\ 1 < Len(u) => y < Len(q)
  BY <1>3, <1>5 DEF Piece
<1>7. x = 2
  <2>1. x # 1
    <3> SUFFICES ASSUME x = 1 PROVE FALSE
      OBVIOUS
    <3>1. 1 \in x..y
      BY <1>6
    <3> QED BY <1>6, <3>1
  <2>2. ~(x > 2)
    <3> SUFFICES ASSUME x > 2 PROVE FALSE
      OBVIOUS
    <3>1. 2 \in 1..x - 1 /\ 2 \in 2..n
      BY <1>3, <1>6
    <3> QED BY <1>6, <3>1
  <2> QED BY <1>6, <2>1, <2>2
<1>8. y = n
  <2>1. ~(y < n)
    <3> SUFFICES ASSUME y < n PROVE FALSE
      OBVIOUS
    <3>1. y + 1 \in 2..n /\ y < Len(q)
      BY <1>3, <1>6
    <3> QED BY <1>6, <3>1
  <2>2. ~(y > n)
    <3> SUFFICES ASSUME y > n PROVE FALSE
      OBVIOUS
    <3>1. n + 1 \in x..y /\ n < Len(q)
      BY <1>3, <1>6, <1>7
    <3> QED BY <1>6, <3>1
  <2> QED BY <1>3, <1>6, <2>1, <2>2
<1>9. n = Len(q) => Len(u) = 1
  <2> SUFFICES ASSUME n = Len(q) PROVE Len(u) = 1
    OBVIOUS
  <2>1. 1 < Len(u) => y < Len(q)
    BY <1>6
  <2>2. ~(1 < Len(u))
    BY <1>3, <1>8, <2>1
  <2>3. PICK l : l = Len(u)
    OBVIOUS
  <2>4. l \in Nat /\ l > 0 /\ ~(1 < l)
    BY <1>3, <1>4, <2>2, <2>3
  <2>5. l = 1
    BY <2>4
  <2> QED BY <2>3, <2>5
<1> QED BY <1>1, <1>3, <1>4, <1>6, <1>7, <1>8, <1>9

\* A stretch of a text, and the star decodeResp gets in front of it.
LEMMA StarBehind ==
  ASSUME NEW q \in Text, NEW x \in 1..Len(q), NEW y \in x..Len(q)
  PROVE  /\ SubSeq(q, x, y) \in Text /\ <<"*">> \o SubSeq(q, x, y) \in Text
         /\ Len(SubSeq(q, x, y)) = y - x + 1
         /\ \A i \in 1..y - x + 1 : SubSeq(q, x, y)[i] = q[x + i - 1]
         /\ Len(<<"*">> \o SubSeq(q, x, y)) = y - x + 2
         /\ (<<"*">> \o SubSeq(q, x, y))[1] = "*"
         /\ \A i \in 2..y - x + 2 : (<<"*">> \o SubSeq(q, x, y))[i] = q[x + i - 2]
<1>1. "*" \in Byte
  BY BytesAre DEF Special
<1>2. PICK s, t, r : s = <<"*">> /\ t = SubSeq(q, x, y) /\ r = s \o t
  OBVIOUS
<1>3. s \in Text /\ Len(s) = 1 /\ s[1] = "*"
  BY <1>1, <1>2 DEF Text
<1>4. x \in Nat /\ y \in Nat /\ x >= 1 /\ x <= y /\ y <= Len(q) /\ Len(q) \in Nat
  BY DEF Text
<1>5. t \in Text /\ Len(t) = y - x + 1 /\ \A i \in 1..y - x + 1 : t[i] = q[x + i - 1]
  BY <1>2, <1>4 DEF Text
<1>6. Joined(s, 1, t, y - x + 1, r)
  BY <1>2, <1>3, <1>5, JoinsTo
<1>7. r \in Text /\ Len(r) = y - x + 2 /\ r[1] = "*"
  <2>1. 1 \in 1..1
    OBVIOUS
  <2> QED BY <1>3, <1>4, <1>6, <2>1 DEF Joined
<1>8. ASSUME NEW i \in 2..y - x + 2 PROVE r[i] = q[x + i - 2]
  <2>1. PICK j : j = i - 1 /\ j \in 1..y - x + 1 /\ 1 + j = i /\ x + j - 1 = x + i - 2
    BY <1>4
  <2>2. r[1 + j] = t[j]
    BY <1>6, <2>1 DEF Joined
  <2> QED BY <1>5, <2>1, <2>2
<1> QED BY <1>2, <1>5, <1>7, <1>8

\* A packet read by itself is one piece, and decodes to its command.
LEMMA PacketIsPiece ==
  ASSUME NEW c, ACommand(c), NEW q, q = EncodeResp(c)
  PROVE  Strtok(q) \in Seq(Text) /\ Len(Strtok(q)) = 1 /\ DecodeResp(<<"*">> \o Strtok(q)[1]) = c
<1>1. PICK e : LaidOut(q, c, e)
  BY CommandIs, LaysOut
<1>2. q \in Text /\ Len(q) \in Nat /\ Len(q) > 3 /\ q[1] = "*" /\ \A i \in 2..Len(q) : q[i] # "*"
  BY <1>1, OneStar
<1>3. Len(q) \in 2..Len(q)
  BY <1>2
<1>4. Strtok(q) \in Seq(Text) /\ Len(Strtok(q)) = 1 /\ Strtok(q)[1] = SubSeq(q, 2, Len(q))
  BY <1>2, <1>3, FirstPiece
<1>5. PICK r : r = <<"*">> \o SubSeq(q, 2, Len(q))
  OBVIOUS
<1>6. r \in Text /\ Len(r) = Len(q) /\ r[1] = "*" /\ \A i \in 2..Len(q) : r[i] = q[i]
  <2>1. 2 \in 1..Len(q) /\ Len(q) \in 2..Len(q) /\ Len(q) - 2 + 2 = Len(q)
          /\ \A i \in 2..Len(q) : 2 + i - 2 = i
    BY <1>2
  <2>2. /\ r \in Text /\ Len(r) = Len(q) - 2 + 2 /\ r[1] = "*"
        /\ \A i \in 2..Len(q) - 2 + 2 : r[i] = q[2 + i - 2]
    BY <1>2, <1>5, <2>1, StarBehind
  <2> QED BY <2>1, <2>2
<1>7. r = q
  <2>1. \A i \in 1..Len(q) : i = 1 \/ i \in 2..Len(q)
    BY <1>2
  <2>2. \A i \in 1..Len(q) : r[i] = q[i]
    BY <1>2, <1>6, <2>1
  <2> QED BY <1>2, <1>6, <2>2 DEF Text
<1>8. DecodeResp(q) = c
  BY DecodesEncoded
<1> QED BY <1>4, <1>5, <1>7, <1>8

\* A buffer of one piece: stars, the piece, and stars again.
LEMMA OnePiece ==
  ASSUME NEW q \in Text, Len(Strtok(q)) = 1
  PROVE  \E x, y : /\ x \in 1..Len(q) /\ y \in x..Len(q) /\ Strtok(q)[1] = SubSeq(q, x, y)
                   /\ FirstText(q) = SubSeq(q, 1, y)
                   /\ \A j \in 1..x - 1 : q[j] = "*"
                   /\ \A j \in x..y : q[j] # "*"
<1>1. PICK u : u = Strtok(q)
  OBVIOUS
<1>2. CutUpTo(q, u, Len(q)) /\ Len(u) = 1 /\ 1 \in 1..Len(u)
  BY <1>1, StrtokIs
<1>3. PICK x, y : Piece(q, u, 1, Len(q), x, y)
  BY <1>2 DEF CutUpTo
<1>4. Len(q) \in Nat
  BY DEF Text
<1>5. /\ x \in 1..Len(q) /\ y \in x..Len(q) /\ u[1] = SubSeq(q, x, y)
      /\ \A j \in x..y : q[j] # "*"
      /\ y < Len(q) => q[y + 1] = "*"
      /\ \A j \in 1..x - 1 : q[j] = "*"
      /\ \A j \in y + 1..Len(q) : q[j] = "*"
  BY <1>2, <1>3 DEF Piece
<1>6. x \in Nat /\ y \in Nat /\ x >= 1 /\ x <= y /\ y <= Len(q)
  BY <1>4, <1>5
<1>7. PICK ends : ends = {i \in DOMAIN q : i > 1 /\ q[i] = "*" /\ q[i - 1] # "*"}
  OBVIOUS
<1>8. \A i \in ends : i = y + 1 /\ y < Len(q)
  <2> SUFFICES ASSUME NEW i \in ends PROVE i = y + 1 /\ y < Len(q)
    OBVIOUS
  <2>1. i \in 1..Len(q) /\ i > 1 /\ q[i] = "*" /\ q[i - 1] # "*"
    BY <1>7 DEF Text
  <2>2. i - 1 \notin 1..x - 1 /\ i - 1 \notin y + 1..Len(q) /\ i \notin x..y
    BY <1>5, <2>1
  <2> QED BY <1>4, <1>6, <2>1, <2>2
<1>9. CASE y < Len(q)
  <2>1. y + 1 \in ends
    <3>1. y + 1 \in DOMAIN q /\ y + 1 > 1 /\ (y + 1) - 1 = y /\ y \in x..y
      BY <1>4, <1>6, <1>9 DEF Text
    <3> QED BY <1>5, <1>7, <1>9, <3>1
  <2>2. ends = {y + 1}
    BY <1>8, <2>1
  <2>3. (CHOOSE i \in ends : \A j \in ends : i <= j) = y + 1
    BY <1>6, <2>2
  <2>4. (y + 1) - 1 = y
    BY <1>6
  <2>5. FirstText(q) = SubSeq(q, 1, (CHOOSE i \in ends : \A j \in ends : i <= j) - 1)
    BY <1>7, <2>1 DEF FirstText
  <2>6. FirstText(q) = SubSeq(q, 1, y)
    BY <2>3, <2>4, <2>5
  <2> QED BY <1>1, <1>5, <2>6
<1>10. CASE ~(y < Len(q))
  <2>1. ends = {} /\ y = Len(q)
    BY <1>4, <1>6, <1>8, <1>10
  <2>2. FirstText(q) = q
    BY <1>7, <2>1 DEF FirstText
  <2>3. SubSeq(q, 1, Len(q)) = q
    BY DEF Text
  <2> QED BY <1>1, <1>5, <2>1, <2>2, <2>3
<1> QED BY <1>9, <1>10

\* Every piece is a stretch of the buffer without a star.
LEMMA PiecesAre ==
  ASSUME NEW q \in Text
  PROVE  /\ Strtok(q) \in Seq(Text)
         /\ \A m \in 1..Len(Strtok(q)) : \E x, y : /\ x \in 1..Len(q) /\ y \in x..Len(q)
                                                    /\ Strtok(q)[m] = SubSeq(q, x, y)
                                                    /\ \A j \in x..y : q[j] # "*"
<1>1. PICK u, n : u = Strtok(q) /\ n = Len(q)
  OBVIOUS
<1>2. CutUpTo(q, u, n)
  BY <1>1, StrtokIs
<1>3. u \in Seq(Text) /\ \A m \in 1..Len(u) : \E x, y : Piece(q, u, m, n, x, y)
  BY <1>2 DEF CutUpTo
<1>4. ASSUME NEW m \in 1..Len(u)
      PROVE  \E x, y : x \in 1..n /\ y \in x..n /\ u[m] = SubSeq(q, x, y)
        /\ \A j \in x..y : q[j] # "*"
  <2>1. PICK x, y : Piece(q, u, m, n, x, y)
    BY <1>3
  <2>2. x \in 1..n /\ y \in x..n /\ u[m] = SubSeq(q, x, y) /\ \A j \in x..y : q[j] # "*"
    BY <2>1 DEF Piece
  <2> QED BY <2>2
<1> QED BY <1>1, <1>3, <1>4

-----------------------------------------------------------------------------
(* What the server may read: parts of the packets of what was typed.         *)

\* The bytes x to y of q are bytes of the packet of one of the lines, behind its star.
CopyOf(q, x, y, p, a) ==
  a \in 2..Len(p) /\ a + (y - x) <= Len(p) /\ \A i \in 0..y - x : q[x + i] = p[a + i]

\* They are from the packet of one of the lines.
FromPacket(q, x, y, lines) ==
  \E j \in 1..Len(lines) : \E a : CopyOf(q, x, y, EncodeResp(lines[j]), a)

\* Every stretch of q without a star is from one packet.
Genuine(q, lines) ==
  \A x \in 1..Len(q) : \A y \in x..Len(q) : (\A i \in x..y : q[i] # "*") => FromPacket(q, x, y, lines)

\* A packet has its star at its first byte.
LEMMA PacketIs ==
  ASSUME NEW c, ACommand(c), NEW p, p = EncodeResp(c)
  PROVE  p \in Text /\ Len(p) \in Nat /\ Len(p) > 3 /\ p[1] = "*"
BY CommandIs, LaysOut, OneStar

\* A packet more is genuine too.
LEMMA GenuineGrows ==
  ASSUME NEW q \in Text, NEW lines \in Seq(Line), NEW line \in Line, Genuine(q, lines)
  PROVE  q \o EncodeResp(line) \in Text /\ Genuine(q \o EncodeResp(line), Append(lines, line))
<1>1. PICK p, r, n, k, more : p = EncodeResp(line) /\ r = q \o p /\ n = Len(q) /\ k = Len(p)
        /\ more = Append(lines, line)
  OBVIOUS
<1>2. p \in Text /\ k \in Nat /\ k > 3 /\ p[1] = "*" /\ n \in Nat
  BY <1>1, LinesAre, PacketIs DEF Text
<1>3. Joined(q, n, p, k, r)
  BY <1>1, <1>2, JoinsTo
<1>4. PICK m : m = Len(lines) /\ m \in Nat
  OBVIOUS
<1>5. more \in Seq(Line) /\ Len(more) = m + 1 /\ more[m + 1] = line
        /\ \A j \in 1..m : more[j] = lines[j]
  BY <1>1, <1>4
<1>6. Len(r) = n + k /\ r \in Text /\ (\A i \in 1..n : r[i] = q[i])
        /\ \A i \in 1..k : r[n + i] = p[i]
  BY <1>3 DEF Joined
<1>7. ASSUME NEW x \in 1..n + k, NEW y \in x..n + k, \A i \in x..y : r[i] # "*"
      PROVE  FromPacket(r, x, y, more)
  <2>1. r[n + 1] = "*"
    <3>1. 1 \in 1..k
      BY <1>2
    <3> QED BY <1>2, <1>6, <3>1
  <2>2. n + 1 \notin x..y
    BY <1>7, <2>1
  <2>3. x \in Nat /\ y \in Nat /\ x >= 1 /\ x <= y /\ y <= n + k
    BY <1>2
  <2>4. y <= n \/ x >= n + 2
    BY <1>2, <2>2, <2>3
  <2>5. CASE y <= n
    <3>1. x \in 1..n /\ y \in x..n /\ \A i \in x..y : i \in 1..n
      BY <1>2, <2>3, <2>5
    <3>2. \A i \in x..y : q[i] # "*"
      BY <1>6, <1>7, <3>1
    <3>3. FromPacket(q, x, y, lines)
      BY <1>1, <3>1, <3>2 DEF Genuine
    <3>4. PICK j, a, w : j \in 1..m /\ w = EncodeResp(lines[j]) /\ CopyOf(q, x, y, w, a)
      BY <1>4, <3>3 DEF FromPacket
    <3>5. j \in 1..Len(more) /\ more[j] = lines[j]
      BY <1>4, <1>5, <3>4
    <3>6. ASSUME NEW i \in 0..y - x PROVE r[x + i] = w[a + i]
      <4>1. x + i \in 1..n
        BY <1>2, <2>3, <2>5
      <4> QED BY <1>6, <3>4, <4>1 DEF CopyOf
    <3>7. CopyOf(r, x, y, w, a)
      BY <3>4, <3>6 DEF CopyOf
    <3> QED BY <3>4, <3>5, <3>7 DEF FromPacket
  <2>6. CASE x >= n + 2
    <3>1. PICK a : a = x - n /\ a \in 2..k /\ a + (y - x) <= k
      BY <1>2, <2>3, <2>6
    <3>2. m + 1 \in 1..Len(more) /\ EncodeResp(more[m + 1]) = p /\ Len(EncodeResp(more[m + 1])) = k
      BY <1>1, <1>4, <1>5
    <3>3. ASSUME NEW i \in 0..y - x PROVE r[x + i] = EncodeResp(more[m + 1])[a + i]
      <4>1. a + i \in 1..k /\ n + (a + i) = x + i
        BY <1>2, <2>3, <3>1
      <4>2. r[n + (a + i)] = p[a + i]
        BY <1>6, <4>1
      <4> QED BY <3>2, <4>1, <4>2
    <3>4. CopyOf(r, x, y, EncodeResp(more[m + 1]), a)
      BY <3>1, <3>2, <3>3 DEF CopyOf
    <3> QED BY <3>2, <3>4 DEF FromPacket
  <2> QED BY <2>4, <2>5, <2>6
<1>8. Genuine(r, more)
  BY <1>6, <1>7 DEF Genuine
<1> QED BY <1>1, <1>6, <1>8

\* So is a part, wherever reads cut.
LEMMA GenuinePart ==
  ASSUME NEW q \in Text, NEW lines, Genuine(q, lines), NEW a \in 1..Len(q) + 1,
         NEW b \in a - 1..Len(q)
  PROVE  SubSeq(q, a, b) \in Text /\ Genuine(SubSeq(q, a, b), lines)
<1>1. PICK r, n : r = SubSeq(q, a, b) /\ n = Len(q)
  OBVIOUS
<1>2. n \in Nat /\ a \in Nat /\ a >= 1 /\ b \in Nat /\ b <= n /\ a <= b + 1 /\ a <= n + 1
  BY <1>1 DEF Text
<1>3. r \in Text /\ Len(r) = b - a + 1 /\ \A i \in 1..b - a + 1 : r[i] = q[a + i - 1]
  BY <1>1, <1>2 DEF Text
<1>4. ASSUME NEW x \in 1..b - a + 1, NEW y \in x..b - a + 1, \A i \in x..y : r[i] # "*"
      PROVE  FromPacket(r, x, y, lines)
  <2>1. x \in Nat /\ y \in Nat /\ x >= 1 /\ x <= y /\ y <= b - a + 1
    BY <1>2
  <2>2. PICK u, v : u = a + x - 1 /\ v = a + y - 1
    OBVIOUS
  <2>3. u \in 1..n /\ v \in u..n /\ v - u = y - x /\ u \in Nat /\ v \in Nat
    BY <1>2, <2>1, <2>2
  <2>4. ASSUME NEW i \in u..v PROVE q[i] # "*"
    <3>1. PICK j : j = i - a + 1
      OBVIOUS
    <3>2. j \in x..y /\ j \in 1..b - a + 1 /\ a + j - 1 = i
      BY <1>2, <2>1, <2>2, <2>3, <3>1
    <3>3. r[j] = q[a + j - 1] /\ r[j] # "*"
      BY <1>3, <1>4, <3>2
    <3> QED BY <3>2, <3>3
  <2>5. FromPacket(q, u, v, lines)
    BY <1>1, <2>3, <2>4 DEF Genuine
  <2>6. PICK j, h, w : j \in 1..Len(lines) /\ w = EncodeResp(lines[j]) /\ CopyOf(q, u, v, w, h)
    BY <2>5 DEF FromPacket
  <2>7. ASSUME NEW i \in 0..y - x PROVE r[x + i] = w[h + i]
    <3>1. x + i \in 1..b - a + 1 /\ a + (x + i) - 1 = u + i /\ i \in 0..v - u
      BY <1>2, <2>1, <2>2, <2>3
    <3>2. r[x + i] = q[a + (x + i) - 1]
      BY <1>3, <3>1
    <3> QED BY <2>6, <3>1, <3>2 DEF CopyOf
  <2>8. CopyOf(r, x, y, w, h)
    BY <2>3, <2>6, <2>7 DEF CopyOf
  <2> QED BY <2>6, <2>8 DEF FromPacket
<1>5. Genuine(r, lines)
  BY <1>3, <1>4 DEF Genuine
<1> QED BY <1>1, <1>3, <1>5

\* The words of v are words of lines, none is torn.
Clean(v) == ACommand(v) /\ \A i \in 1..Len(v) : v[i] \in Words

\* A segment of a line has words of lines.
LEMMA SegmentIsClean ==
  ASSUME NEW c \in Line, NEW v, IsSegment(v, c)
  PROVE  Clean(v)
<1>1. c \in Seq(Text) /\ Len(c) \in Nat /\ \A i \in 1..Len(c) : AWord(c[i])
  BY LinesAre, CommandIs
<1>2. PICK x, y : x \in 1..Len(c) /\ y \in x..Len(c) /\ v = SubSeq(c, x, y)
  <2>1. DOMAIN c = 1..Len(c)
    BY <1>1
  <2> QED BY <2>1 DEF IsSegment
<1>3. x \in Nat /\ y \in Nat /\ x >= 1 /\ x <= y /\ y <= Len(c)
  BY <1>1, <1>2
<1>4. v \in Seq(Text) /\ Len(v) = y - x + 1 /\ \A i \in 1..y - x + 1 : v[i] = c[x + i - 1]
  BY <1>1, <1>2, <1>3
<1>5. v # <<>>
  BY <1>3, <1>4
<1>6. ASSUME NEW i \in 1..Len(v) PROVE AWord(v[i]) /\ v[i] \in Words
  <2>1. x + i - 1 \in 1..Len(c) /\ v[i] = c[x + i - 1] /\ x + i - 1 \in DOMAIN c
    BY <1>1, <1>3, <1>4
  <2>2. v[i] \in Words
    BY <2>1 DEF Words
  <2> QED BY <1>1, <2>1, <2>2
<1> QED BY <1>4, <1>5, <1>6 DEF Clean, ACommand

\* So has the line.
LEMMA LineIsClean ==
  ASSUME NEW c \in Line
  PROVE  Clean(c)
<1>1. c \in Seq(Text) /\ Len(c) \in Nat /\ Len(c) > 0
  BY LinesAre, CommandIs
<1>2. 1 \in DOMAIN c /\ Len(c) \in 1..Len(c) /\ c = SubSeq(c, 1, Len(c))
  BY <1>1
<1>3. IsSegment(c, c)
  BY <1>2 DEF IsSegment
<1> QED BY <1>3, SegmentIsClean

\* A piece of what was read decodes to nothing or to a segment of a line.
LEMMA PieceIsSegment ==
  ASSUME NEW q \in Text, NEW lines \in Seq(Line), Genuine(q, lines), NEW x \in 1..Len(q),
         NEW y \in x..Len(q),
         \A i \in x..y : q[i] # "*", NEW v, v = DecodeResp(<<"*">> \o SubSeq(q, x, y))
  PROVE  v = <<>> \/ \E j \in 1..Len(lines) : IsSegment(v, lines[j])
<1>1. PICK j, a : j \in 1..Len(lines) /\ CopyOf(q, x, y, EncodeResp(lines[j]), a)
  BY DEF Genuine, FromPacket
<1>2. PICK c, p, r : c = lines[j] /\ p = EncodeResp(c) /\ r = <<"*">> \o SubSeq(q, x, y)
  OBVIOUS
<1>3. c \in Line /\ ACommand(c)
  BY <1>1, <1>2, LinesAre
<1>4. PICK e : LaidOut(p, c, e)
  BY <1>2, <1>3, CommandIs, LaysOut
<1>5. p \in Text /\ Len(p) \in Nat
  BY <1>4, <1>3, OneStar
<1>6. /\ r \in Text /\ Len(r) = y - x + 2 /\ r[1] = "*"
      /\ \A i \in 2..y - x + 2 : r[i] = q[x + i - 2]
  BY <1>2, StarBehind
<1>7. x \in Nat /\ y \in Nat /\ x <= y /\ a \in Nat /\ a >= 2 /\ a + (y - x) <= Len(p)
        /\ a <= Len(p)
  <2>1. Len(q) \in Nat
    BY DEF Text
  <2>2. a \in 2..Len(p) /\ a + (y - x) <= Len(p)
    BY <1>1, <1>2 DEF CopyOf
  <2> QED BY <1>5, <2>1, <2>2
<1>8. PartOf(r, p, a - 1, a + (y - x))
  <2>1. a - 1 \in Nat /\ a + (y - x) \in a - 1..Len(p) /\ Len(r) = (a + (y - x)) - (a - 1) + 1
    BY <1>5, <1>6, <1>7
  <2>2. ASSUME NEW i \in 2..Len(r) PROVE r[i] = p[(a - 1) + i - 1]
    <3>1. i - 2 \in 0..y - x /\ x + i - 2 = x + (i - 2) /\ (a - 1) + i - 1 = a + (i - 2)
            /\ i \in 2..y - x + 2
      BY <1>6, <1>7
    <3>2. q[x + (i - 2)] = p[a + (i - 2)]
      BY <1>1, <1>2, <3>1 DEF CopyOf
    <3> QED BY <1>6, <3>1, <3>2
  <2> QED BY <1>6, <2>1, <2>2 DEF PartOf
<1>9. DecodeResp(r) = <<>> \/ IsSegment(DecodeResp(r), c)
  BY <1>3, <1>4, <1>8, PartIsSegment
<1> QED BY <1>1, <1>2, <1>9

-----------------------------------------------------------------------------
(* Simple answers.                                                           *)

\* A simple answer decodes to its word.
LEMMA SimpleIs ==
  ASSUME NEW sign \in {"+", "-", ":"}, NEW w \in Text, \A i \in 1..Len(w) : w[i] # "$"
  PROVE  Simple(sign, w) \in Text /\ Simple(sign, w) # <<>> /\ DecodeResp(Simple(sign, w)) = <<w>>
<1>1. PICK s, t, r, l : s = <<sign>> /\ t = s \o w /\ r = t \o CRLF /\ l = Len(w)
  OBVIOUS
<1>2. r = Simple(sign, w)
  BY <1>1 DEF Simple
<1>3. sign \in Byte /\ l \in Nat
  <2>1. sign \in Letters
    BY DEF Letters
  <2> QED BY <1>1, <2>1, BytesAre DEF Text
<1>4. s \in Text /\ Len(s) = 1 /\ s[1] = sign
  BY <1>1, <1>3 DEF Text
<1>5. t \in Text /\ Len(t) = l + 1 /\ t[1] = sign /\ \A i \in 1..l : t[1 + i] = w[i]
  <2>1. Joined(s, 1, w, l, t)
    <3>1. Joined(s, Len(s), w, Len(w), s \o w)
      BY <1>4, JoinsTo
    <3> QED BY <1>1, <1>4, <3>1
  <2>2. 1 \in 1..1 /\ 1 + l = l + 1
    BY <1>3
  <2> QED BY <1>4, <2>1, <2>2 DEF Joined
<1>6. /\ r \in Text /\ Len(r) = l + 3 /\ r[1] = sign /\ r[l + 2] = CR /\ r[l + 3] = LF
      /\ \A i \in 1..l : r[1 + i] = w[i]
  <2>1. Joined(t, l + 1, CRLF, 2, r)
    BY <1>1, <1>5, CrLf, JoinsTo
  <2>2. /\ 1 \in 1..l + 1 /\ 1 \in 1..2 /\ 2 \in 1..2 /\ l + 1 + 1 = l + 2 /\ l + 1 + 2 = l + 3
        /\ \A i \in 1..l : 1 + i \in 1..l + 1
    BY <1>3
  <2>3. r \in Text /\ Len(r) = l + 1 + 2 /\ r[1] = t[1] /\ r[l + 1 + 1] = CRLF[1]
          /\ r[l + 1 + 2] = CRLF[2]
    BY <2>1, <2>2 DEF Joined
  <2>4. \A i \in 1..l : r[1 + i] = t[1 + i]
    BY <2>1, <2>2 DEF Joined
  <2> QED BY <1>5, <2>2, <2>3, <2>4, CrLf
<1>7. SubSeq(r, 2, l + 1) = w
  <2>1. PICK u : u = SubSeq(r, 2, l + 1)
    OBVIOUS
  <2>2. u \in Text /\ Len(u) = l /\ \A i \in 1..l : u[i] = r[i + 1]
    BY <1>3, <1>6, <2>1 DEF Text
  <2>3. \A i \in 1..l : u[i] = w[i]
    <3>1. \A i \in 1..l : i + 1 = 1 + i
      BY <1>3
    <3> QED BY <1>6, <2>2, <3>1
  <2> QED BY <1>1, <2>1, <2>2, <2>3 DEF Text
<1>8. \A i \in 2..l + 3 : r[i] # "$"
  <2>1. CR # "$" /\ LF # "$"
    BY DEF CR, LF
  <2> SUFFICES ASSUME NEW i \in 2..l + 3 PROVE r[i] # "$"
    OBVIOUS
  <2>2. i = l + 2 \/ i = l + 3 \/ (i - 1 \in 1..l /\ 1 + (i - 1) = i)
    BY <1>3
  <2>3. i - 1 \in 1..l /\ 1 + (i - 1) = i => r[i] = w[i - 1]
    BY <1>6
  <2> QED BY <1>1, <1>6, <2>1, <2>2, <2>3
<1>9. PICK g : Loops(g, r) /\ DecodeResp(r) = g[Len(r)].ret
  <2>1. Len(r) > 0 /\ r[1] \in {"+", "-", ":", "*"}
    BY <1>3, <1>6
  <2> QED BY <1>6, <2>1, DecodedBy
<1>10. PICK b : b = Begin(r) /\ ~b.dollar /\ ~b.str /\ b.ret = <<w>>
  <2>1. Len(r) - 2 = l + 1
    BY <1>3, <1>6
  <2>2. PICK x : x = SubSeq(r, 2, Len(r) - 2) /\ x = w
    BY <1>7, <2>1
  <2>3. Begin(r) = [dollar |-> FALSE, str |-> FALSE, text |-> <<>>, ret |-> <<w>>]
    BY <1>6, <2>2 DEF Begin
  <2> QED BY <2>3
<1>11. PICK P : P = {k \in 0..l + 2 : g[k + 1] = b}
  OBVIOUS
<1>12. 0 \in P
  <2>1. g[1] = b
    BY <1>9, <1>10 DEF Loops
  <2>2. 0 + 1 = 1 /\ 0 \in 0..l + 2
    BY <1>3
  <2> QED BY <1>11, <2>1, <2>2
<1>13. ASSUME NEW k \in 1..l + 2, k - 1 \in P PROVE k \in P
  <2>1. k + 1 \in 2..l + 3 /\ (k + 1) - 1 = k /\ (k - 1) + 1 = k /\ k \in 0..l + 2
    BY <1>3
  <2>2. g[k] = b
    BY <1>11, <1>13, <2>1
  <2>3. g[k + 1] = NextByte(b, r[k + 1])
    BY <1>6, <1>9, <2>1, <2>2 DEF Loops
  <2>4. r[k + 1] # "$"
    BY <1>8, <2>1
  <2>5. NextByte(b, r[k + 1]) = b
    BY <1>10, <2>4 DEF NextByte
  <2> QED BY <1>11, <2>1, <2>3, <2>5
<1>14. \A k \in 0..l + 2 : k \in P
  <2>1. l + 2 \in Nat
    BY <1>3
  <2> QED BY <1>12, <1>13, <2>1, CountUp
<1>15. g[l + 3] = b
  <2>1. l + 2 \in 0..l + 2 /\ (l + 2) + 1 = l + 3
    BY <1>3
  <2> QED BY <1>11, <1>14, <2>1
<1>16. r # <<>>
  BY <1>3, <1>6
<1> QED BY <1>2, <1>6, <1>9, <1>10, <1>15, <1>16

\* The answers of the commands.
LEMMA AnswersAre ==
  /\ Ok \in Text /\ Ok # <<>> /\ DecodeResp(Ok) = <<<<"OK">>>>
  /\ Error \in Text /\ Error # <<>> /\ DecodeResp(Error) = <<<<"ERROR">>>>
  /\ Missing \in Text /\ Missing # <<>> /\ DecodeResp(Missing) = <<<<"MISSING">>>>
<1>1. \A b \in Letters : <<b>> \in Text /\ \A i \in 1..Len(<<b>>) : <<b>>[i] # "$"
  <2>1. "$" \in Special
    BY DEF Special
  <2> QED BY <2>1, BytesAre DEF Text
<1>2. "OK" \in Letters /\ "ERROR" \in Letters /\ "MISSING" \in Letters
  BY DEF Letters
<1>3. "+" \in {"+", "-", ":"} /\ "-" \in {"+", "-", ":"}
  OBVIOUS
<1>4. Ok \in Text /\ Ok # <<>> /\ DecodeResp(Ok) = <<<<"OK">>>>
  BY <1>1, <1>2, <1>3, SimpleIs DEF Ok
<1>5. Error \in Text /\ Error # <<>> /\ DecodeResp(Error) = <<<<"ERROR">>>>
  BY <1>1, <1>2, <1>3, SimpleIs DEF Error
<1>6. Missing \in Text /\ Missing # <<>> /\ DecodeResp(Missing) = <<<<"MISSING">>>>
  BY <1>1, <1>2, <1>3, SimpleIs DEF Missing
<1> QED BY <1>4, <1>5, <1>6

\* The answer of del: a number.
LEMMA CountIs ==
  ASSUME NEW n \in Nat
  PROVE  Simple(":", ToDigits(n)) \in Text /\ Simple(":", ToDigits(n)) # <<>>
    /\ DecodeResp(Simple(":", ToDigits(n))) = <<ToDigits(n)>>
<1>1. PICK t : t = ToDigits(n) /\ Numeral(t)
  BY DigitsAre
<1>2. "$" \notin Decimals /\ ":" \in {"+", "-", ":"}
  BY DEF Decimals
<1>3. t \in Text /\ \A i \in 1..Len(t) : t[i] # "$"
  BY <1>1, <1>2 DEF Numeral
<1> QED BY <1>1, <1>2, <1>3, SimpleIs

-----------------------------------------------------------------------------
(* What a round of runCommand does.                                          *)

\* What is logged, and the state of a read between its pieces.
Entry == [argv : Seq(Text), alone : BOOLEAN]

RState == [store : [Words -> Seq(Text)], oldCmds : Seq(Text), bufferWrite : Text, ran : Seq(Seq(Text)),
           logged : Seq(Entry), crashed : BOOLEAN, alone : BOOLEAN]

\* What the store has of a key is a value: words, or none.
Kept(s) == s \in [Words -> Seq(Text)] /\ \A k \in Words : s[k] = <<>> \/ ACommand(s[k])

\* What c is answered when the store has s.
AnswerOf(s, c) ==
  CASE (c[1] = Set /\ IsWrite(c)) \/ c[1] = FlushDb \/ c[1] \in Shows -> <<<<"OK">>>>
    [] c[1] = Del /\ IsWrite(c) -> <<ToDigits(Cardinality({k \in Arguments(c) : s[k] # <<>>}))>>
    [] c[1] = Get /\ Len(c) = 2 -> IF s[c[2]] # <<>> THEN s[c[2]] ELSE <<<<"nil">>>>
    [] c[1] \notin {Set, Get, Del, FlushDb} \cup Shows -> <<<<"MISSING">>>>
    [] OTHER -> <<<<"ERROR">>>>

\* c writes k, and what: nothing when it is no set.
Writes(c, k) == IsWrite(c) /\ k \in KeysOf(c)

Written(c) == IF c[1] # Set THEN <<>> ELSE SubSeq(c, 3, Len(c))

\* The value of k behind c.
NewValue(s, c, k) == IF Writes(c, k) THEN Written(c) ELSE s[k]

\* t is what the round of c leaves of st.
Round(st, c, text, t) ==
  /\ t \in RState /\ ~t.crashed /\ t.alone = st.alone /\ t.ran = Append(st.ran, c)
  /\ Kept(t.store) /\ \A k \in Words : t.store[k] = NewValue(st.store, c, k)
  /\ t.bufferWrite # <<>> /\ DecodeResp(t.bufferWrite) = AnswerOf(st.store, c)
  /\ IsWrite(c) => /\ t.oldCmds = Append(st.oldCmds, text)
                   /\ t.logged = Append(st.logged, [argv |-> c, alone |-> st.alone])
  /\ ~IsWrite(c) => t.oldCmds = st.oldCmds /\ t.logged = st.logged

\* Each command has its own name.
LEMMA NamesDiffer ==
  /\ Set # Get /\ Set # Del /\ Get # Del
  /\ FlushDb # Set /\ FlushDb # Get /\ FlushDb # Del
  /\ Set \notin Shows /\ Get \notin Shows /\ Del \notin Shows /\ FlushDb \notin Shows
BY DEF Set, Get, Del, FlushDb, Shows

\* Facts about the words of a command that was typed.
LEMMA CleanIs ==
  ASSUME NEW c, Clean(c)
  PROVE  /\ c \in Seq(Text) /\ Len(c) \in Nat /\ Len(c) > 0 /\ c # <<>>
         /\ \A i \in 1..Len(c) : c[i] \in Words /\ AWord(c[i])
         /\ Arguments(c) \subseteq Words /\ IsFiniteSet(Arguments(c))
<1>1. /\ c \in Seq(Text) /\ Len(c) \in Nat /\ Len(c) > 0
      /\ \A i \in 1..Len(c) : c[i] \in Words /\ AWord(c[i])
  BY CommandIs DEF Clean
<1>2. Arguments(c) \subseteq Words
  BY <1>1 DEF Arguments
<1>3. IsFiniteSet(2..Len(c))
  BY <1>1, FS_Interval
<1>4. IsFiniteSet(Arguments(c))
  <2> DEFINE at == [i \in 2..Len(c) |-> c[i]]
  <2>1. IsFiniteSet({at[i] : i \in 2..Len(c)})
    <3>1. {at[i] : i \in DOMAIN at} = {at[i] : i \in 2..Len(c)}
      OBVIOUS
    <3>2. at \in Surjection(2..Len(c), {at[i] : i \in 2..Len(c)})
      BY DEF Surjection
    <3> QED BY <1>3, <3>2, FS_Surjection
  <2>2. {at[i] : i \in 2..Len(c)} = Arguments(c)
    BY DEF Arguments
  <2> QED BY <2>1, <2>2
<1> QED BY <1>1, <1>2, <1>4

\* The fields of a read's state.
Fields(t, s, o, w, r, l, a) ==
  /\ t \in RState /\ t.store = s /\ t.oldCmds = o /\ t.bufferWrite = w /\ t.ran = r /\ t.logged = l
  /\ ~t.crashed /\ t.alone = a

\* Adding to ran, an answer, an entry or a value leaves the other fields alone.
LEMMA SeenIs ==
  ASSUME NEW st \in RState, ~st.crashed, NEW c \in Seq(Text)
  PROVE  Fields([st EXCEPT !.ran = Append(@, c)], st.store, st.oldCmds, st.bufferWrite, Append(st.ran, c), st.logged, st.alone)
<1>1. PICK r, t : r = Append(st.ran, c) /\ t = [st EXCEPT !.ran = r]
  OBVIOUS
<1>2. r \in Seq(Seq(Text))
  BY <1>1 DEF RState
<1>3. t \in RState
  BY <1>1, <1>2 DEF RState
<1>4. t.store = st.store /\ t.oldCmds = st.oldCmds /\ t.bufferWrite = st.bufferWrite /\ t.ran = r
  BY <1>1 DEF RState
<1>5. t.logged = st.logged /\ t.crashed = st.crashed /\ t.alone = st.alone
  BY <1>1 DEF RState
<1> QED BY <1>1, <1>3, <1>4, <1>5 DEF Fields

LEMMA AnswerIs ==
  ASSUME NEW st, NEW s, NEW o, NEW w, NEW r, NEW l, NEW a, Fields(st, s, o, w, r, l, a),
         NEW v \in Text
  PROVE  Fields([st EXCEPT !.bufferWrite = v], s, o, v, r, l, a)
<1>1. PICK t : t = [st EXCEPT !.bufferWrite = v]
  OBVIOUS
<1>2. st \in RState
  BY DEF Fields
<1>3. t \in RState
  BY <1>1, <1>2 DEF RState
<1>4. t.store = st.store /\ t.oldCmds = st.oldCmds /\ t.bufferWrite = v /\ t.ran = st.ran
  BY <1>1, <1>2 DEF RState
<1>5. t.logged = st.logged /\ t.crashed = st.crashed /\ t.alone = st.alone
  BY <1>1, <1>2 DEF RState
<1> QED BY <1>1, <1>3, <1>4, <1>5 DEF Fields

LEMMA LogIs ==
  ASSUME NEW st, NEW s, NEW o, NEW w, NEW r, NEW l, NEW a, Fields(st, s, o, w, r, l, a),
         NEW c \in Seq(Text), NEW text \in Text
  PROVE  Fields(LogText(st, c, text), s, Append(o, text), w, r, Append(l, [argv |-> c, alone |-> a]), a)
<1>1. PICK e, t : e = [argv |-> c, alone |-> a] /\ t = LogText(st, c, text)
  OBVIOUS
<1>2. st \in RState /\ st.alone = a /\ st.oldCmds = o /\ st.logged = l
  BY DEF Fields
<1>3. e \in Entry /\ o \in Seq(Text) /\ l \in Seq(Entry)
  BY <1>1, <1>2 DEF RState, Entry
<1>4. PICK p, m : p = Append(o, text) /\ m = Append(l, e)
  OBVIOUS
<1>9. p \in Seq(Text) /\ m \in Seq(Entry)
  BY <1>3, <1>4
<1>5. t = [st EXCEPT !.oldCmds = p, !.logged = m]
  BY <1>1, <1>2, <1>4 DEF LogText
<1>6. t \in RState
  BY <1>2, <1>5, <1>9 DEF RState
<1>7. t.store = st.store /\ t.oldCmds = p /\ t.bufferWrite = st.bufferWrite /\ t.ran = st.ran
  BY <1>2, <1>5 DEF RState
<1>8. t.logged = m /\ t.crashed = st.crashed /\ t.alone = st.alone
  BY <1>2, <1>5 DEF RState
<1> QED BY <1>1, <1>4, <1>6, <1>7, <1>8 DEF Fields

LEMMA StoreIs ==
  ASSUME NEW st, NEW s, NEW o, NEW w, NEW r, NEW l, NEW a, Fields(st, s, o, w, r, l, a),
         NEW x \in [Words -> Seq(Text)], NEW v \in Text
  PROVE  Fields([st EXCEPT !.store = x, !.bufferWrite = v], x, o, v, r, l, a)
<1>1. PICK t : t = [st EXCEPT !.store = x, !.bufferWrite = v]
  OBVIOUS
<1>2. st \in RState
  BY DEF Fields
<1>3. t \in RState
  BY <1>1, <1>2 DEF RState
<1>4. t.store = x /\ t.oldCmds = st.oldCmds /\ t.bufferWrite = v /\ t.ran = st.ran
  BY <1>1, <1>2 DEF RState
<1>5. t.logged = st.logged /\ t.crashed = st.crashed /\ t.alone = st.alone
  BY <1>1, <1>2 DEF RState
<1> QED BY <1>1, <1>3, <1>4, <1>5 DEF Fields

\* The round of a command with too few words, of one that shows or of an unknown name,
LEMMA ErrorRuns ==
  ASSUME NEW st \in RState, ~st.crashed, Kept(st.store), NEW c, Clean(c), NEW text,
         NEW seen, seen = [st EXCEPT !.ran = Append(@, c)],
         ~IsWrite(c), ~(c[1] = Get /\ Len(c) = 2),
         NEW w, w = IF c[1] \in Shows THEN Ok ELSE IF c[1] \in {Set, Get, Del} THEN Error ELSE Missing
  PROVE  Round(st, c, text, [seen EXCEPT !.bufferWrite = w])
<1>1. PICK t : t = [seen EXCEPT !.bufferWrite = w]
  OBVIOUS
<1>2. c \in Seq(Text)
  BY CleanIs
<1>3. Fields(seen, st.store, st.oldCmds, st.bufferWrite, Append(st.ran, c), st.logged, st.alone)
  BY <1>2, SeenIs
<1>4. w \in Text /\ w # <<>>
  <2>1. w = Ok \/ w = Error \/ w = Missing
    OBVIOUS
  <2> QED BY <2>1, AnswersAre
<1>5. Fields(t, st.store, st.oldCmds, w, Append(st.ran, c), st.logged, st.alone)
  BY <1>1, <1>3, <1>4, AnswerIs
<1>6. DecodeResp(w) = AnswerOf(st.store, c)
  <2>1. CASE c[1] \in {Set, Get, Del}
    <3>1. w = Error
      BY <2>1, NamesDiffer
    <3>2. AnswerOf(st.store, c) = <<<<"ERROR">>>>
      BY <2>1, NamesDiffer DEF AnswerOf
    <3> QED BY <3>1, <3>2, AnswersAre
  <2>2. CASE c[1] \in Shows
    <3>1. w = Ok
      BY <2>2
    <3>2. AnswerOf(st.store, c) = <<<<"OK">>>>
      BY <2>2, NamesDiffer DEF AnswerOf
    <3> QED BY <3>1, <3>2, AnswersAre
  <2>3. CASE c[1] \notin {Set, Get, Del} \cup Shows
    <3>1. w = Missing
      BY <2>3
    <3>2. c[1] # FlushDb
      BY DEF IsWrite
    <3>3. AnswerOf(st.store, c) = <<<<"MISSING">>>>
      BY <2>3, <3>2 DEF AnswerOf
    <3> QED BY <3>1, <3>3, AnswersAre
  <2> QED BY <2>1, <2>2, <2>3
<1>7. \A k \in Words : t.store[k] = NewValue(st.store, c, k)
  BY <1>5 DEF NewValue, Writes, Fields
<1>8. Kept(t.store) /\ ~t.crashed
  BY <1>5 DEF Fields
<1>9. Round(st, c, text, t)
  BY <1>4, <1>5, <1>6, <1>7, <1>8 DEF Round, Fields
<1> QED BY <1>1, <1>9

\* of a set,
LEMMA SetRuns ==
  ASSUME NEW st \in RState, ~st.crashed, Kept(st.store), NEW c, Clean(c), NEW text \in Text,
         NEW seen, seen = [st EXCEPT !.ran = Append(@, c)], c[1] = Set, Len(c) >= 3
  PROVE  Round(st, c, text, SetCommand(seen, c, text))
<1>1. PICK t, l : t = SetCommand(seen, c, text) /\ l = LogText(seen, c, text)
  OBVIOUS
<1>2. c \in Seq(Text) /\ Len(c) \in Nat /\ \A i \in 1..Len(c) : c[i] \in Words /\ AWord(c[i])
  BY CleanIs
<1>3. Fields(seen, st.store, st.oldCmds, st.bufferWrite, Append(st.ran, c), st.logged, st.alone)
  BY <1>2, SeenIs
<1>4. Fields(l, st.store, Append(st.oldCmds, text), st.bufferWrite, Append(st.ran, c),
             Append(st.logged, [argv |-> c, alone |-> st.alone]), st.alone)
  BY <1>1, <1>2, <1>3, LogIs
<1>5. PICK k, v : k = c[2] /\ v = SubSeq(c, 3, Len(c))
  OBVIOUS
<1>6. k \in Words /\ ACommand(v) /\ v \in Seq(Text)
  <2>1. 2 \in 1..Len(c) /\ \A i \in 1..Len(c) - 2 : i + 2 \in 1..Len(c)
    BY <1>2
  <2>2. v \in Seq(Text) /\ Len(v) = Len(c) - 2 /\ \A i \in 1..Len(c) - 2 : v[i] = c[i + 2]
    BY <1>2, <1>5
  <2>3. v # <<>>
    BY <1>2, <2>2
  <2>4. \A i \in 1..Len(v) : AWord(v[i])
    BY <1>2, <2>1, <2>2
  <2> QED BY <1>2, <1>5, <2>1, <2>2, <2>3, <2>4 DEF ACommand
<1>7. PICK s : s = [st.store EXCEPT ![k] = v]
  OBVIOUS
<1>8. s \in [Words -> Seq(Text)] /\ s[k] = v /\ \A j \in Words : j # k => s[j] = st.store[j]
  BY <1>6, <1>7 DEF RState
<1>9. t = [l EXCEPT !.store = s, !.bufferWrite = Ok]
  <2>1. ~(Len(c) < 3)
    BY <1>2
  <2>2. t = [l EXCEPT !.store[k] = v, !.bufferWrite = Ok]
    BY <1>1, <1>5, <2>1 DEF SetCommand, Value
  <2> QED BY <1>4, <1>7, <2>2 DEF Fields
<1>10. Ok \in Text /\ Ok # <<>> /\ DecodeResp(Ok) = <<<<"OK">>>>
  BY AnswersAre
<1>11. Fields(t, s, Append(st.oldCmds, text), Ok, Append(st.ran, c),
              Append(st.logged, [argv |-> c, alone |-> st.alone]), st.alone)
  BY <1>4, <1>8, <1>9, <1>10, StoreIs
<1>12. IsWrite(c) /\ Set # Del
  BY NamesDiffer DEF IsWrite
<1>13. AnswerOf(st.store, c) = <<<<"OK">>>>
  BY <1>12, NamesDiffer DEF AnswerOf
<1>14. \A j \in Words : s[j] = NewValue(st.store, c, j)
  <2>1. Written(c) = v /\ \A j : Writes(c, j) <=> j = k
    BY <1>5, <1>12 DEF Written, Writes, KeysOf
  <2> QED BY <1>8, <2>1 DEF NewValue
<1>15. Kept(s)
  BY <1>6, <1>8 DEF Kept
<1>16. Round(st, c, text, t)
  BY <1>10, <1>11, <1>12, <1>13, <1>14, <1>15 DEF Round, Fields
<1> QED BY <1>1, <1>16

\* of a del,
LEMMA DelRuns ==
  ASSUME NEW st \in RState, ~st.crashed, Kept(st.store), NEW c, Clean(c), NEW text \in Text,
         NEW seen, seen = [st EXCEPT !.ran = Append(@, c)], c[1] = Del, Len(c) >= 2
  PROVE  Round(st, c, text, DelCommand(seen, c, text))
<1>1. PICK t, l : t = DelCommand(seen, c, text) /\ l = LogText(seen, c, text)
  OBVIOUS
<1>2. c \in Seq(Text) /\ Len(c) \in Nat /\ Arguments(c) \subseteq Words /\ IsFiniteSet(Arguments(c))
  BY CleanIs
<1>3. Fields(seen, st.store, st.oldCmds, st.bufferWrite, Append(st.ran, c), st.logged, st.alone)
  BY <1>2, SeenIs
<1>4. Fields(l, st.store, Append(st.oldCmds, text), st.bufferWrite, Append(st.ran, c),
             Append(st.logged, [argv |-> c, alone |-> st.alone]), st.alone)
  BY <1>1, <1>2, <1>3, LogIs
<1>5. PICK s, n : /\ s = [k \in Words |-> IF k \in Arguments(c) THEN <<>> ELSE st.store[k]]
                  /\ n = Cardinality({k \in Arguments(c) : st.store[k] # <<>>})
  OBVIOUS
<1>6. n \in Nat
  <2>1. {k \in Arguments(c) : st.store[k] # <<>>} \subseteq Arguments(c)
    OBVIOUS
  <2> QED BY <1>2, <1>5, <2>1, FS_Subset, FS_CardinalityType
<1>7. PICK w : w = Simple(":", ToDigits(n)) /\ w \in Text /\ w # <<>>
        /\ DecodeResp(w) = <<ToDigits(n)>>
  BY <1>6, CountIs
<1>8. s \in [Words -> Seq(Text)]
        /\ \A j \in Words : s[j] = IF j \in Arguments(c) THEN <<>> ELSE st.store[j]
  <2>1. \A j \in Words : st.store[j] \in Seq(Text)
    BY DEF RState
  <2> QED BY <1>5, <2>1
<1>9. t = [l EXCEPT !.store = s, !.bufferWrite = w]
  <2>1. ~(Len(c) <= 1)
    BY <1>2
  <2>2. Stored(seen, Arguments(c)) = {k \in Arguments(c) : st.store[k] # <<>>}
    BY <1>3 DEF Stored, Fields
  <2>3. t = [l EXCEPT !.store = [k \in Words |-> IF k \in Arguments(c) THEN <<>> ELSE l.store[k]],
                      !.bufferWrite = Simple(":", ToDigits(Cardinality(Stored(seen, Arguments(c)))))]
    BY <1>1, <2>1 DEF DelCommand
  <2>4. [k \in Words |-> IF k \in Arguments(c) THEN <<>> ELSE l.store[k]] = s
    BY <1>4, <1>5 DEF Fields
  <2> QED BY <1>5, <1>7, <2>2, <2>3, <2>4
<1>11. Fields(t, s, Append(st.oldCmds, text), w, Append(st.ran, c),
              Append(st.logged, [argv |-> c, alone |-> st.alone]), st.alone)
  BY <1>4, <1>7, <1>8, <1>9, StoreIs
<1>12. IsWrite(c) /\ Set # Del
  BY NamesDiffer DEF IsWrite
<1>13. AnswerOf(st.store, c) = <<ToDigits(n)>>
  BY <1>5, <1>12, NamesDiffer DEF AnswerOf
<1>14. \A j \in Words : s[j] = NewValue(st.store, c, j)
  <2>1. Written(c) = <<>> /\ \A j : Writes(c, j) <=> j \in Arguments(c)
    BY <1>12, NamesDiffer DEF Written, Writes, KeysOf
  <2> QED BY <1>8, <2>1 DEF NewValue
<1>15. Kept(s)
  BY <1>8 DEF Kept
<1>16. Round(st, c, text, t)
  BY <1>7, <1>11, <1>12, <1>13, <1>14, <1>15 DEF Round, Fields
<1> QED BY <1>1, <1>16

\* of a flushDb,
LEMMA FlushRuns ==
  ASSUME NEW st \in RState, ~st.crashed, Kept(st.store), NEW c, Clean(c), NEW text \in Text,
         NEW seen, seen = [st EXCEPT !.ran = Append(@, c)], c[1] = FlushDb
  PROVE  Round(st, c, text, FlushDbCommand(seen, c, text))
<1>1. PICK t, l : t = FlushDbCommand(seen, c, text) /\ l = LogText(seen, c, text)
  OBVIOUS
<1>2. c \in Seq(Text)
  BY CleanIs
<1>3. Fields(seen, st.store, st.oldCmds, st.bufferWrite, Append(st.ran, c), st.logged, st.alone)
  BY <1>2, SeenIs
<1>4. Fields(l, st.store, Append(st.oldCmds, text), st.bufferWrite, Append(st.ran, c),
             Append(st.logged, [argv |-> c, alone |-> st.alone]), st.alone)
  BY <1>1, <1>2, <1>3, LogIs
<1>5. PICK s : s = [k \in Words |-> <<>>]
  OBVIOUS
<1>6. s \in [Words -> Seq(Text)] /\ \A j \in Words : s[j] = <<>>
  BY <1>5
<1>7. Ok \in Text /\ Ok # <<>> /\ DecodeResp(Ok) = <<<<"OK">>>>
  BY AnswersAre
<1>8. t = [l EXCEPT !.store = s, !.bufferWrite = Ok]
  BY <1>1, <1>5 DEF FlushDbCommand
<1>9. Fields(t, s, Append(st.oldCmds, text), Ok, Append(st.ran, c),
             Append(st.logged, [argv |-> c, alone |-> st.alone]), st.alone)
  BY <1>4, <1>6, <1>7, <1>8, StoreIs
<1>10. IsWrite(c)
  BY DEF IsWrite
<1>11. AnswerOf(st.store, c) = <<<<"OK">>>>
  BY NamesDiffer DEF AnswerOf
<1>12. \A j \in Words : s[j] = NewValue(st.store, c, j)
  <2>1. Written(c) = <<>> /\ \A j : Writes(c, j) <=> j \in Words
    BY <1>10, NamesDiffer DEF Written, Writes, KeysOf
  <2> QED BY <1>6, <2>1 DEF NewValue
<1>13. Kept(s)
  BY <1>6 DEF Kept
<1>14. Round(st, c, text, t)
  BY <1>7, <1>9, <1>10, <1>11, <1>12, <1>13 DEF Round, Fields
<1> QED BY <1>1, <1>14

\* and of a get.
LEMMA GetRuns ==
  ASSUME NEW st \in RState, ~st.crashed, Kept(st.store), NEW c, Clean(c), NEW text,
         NEW seen, seen = [st EXCEPT !.ran = Append(@, c)], c[1] = Get, Len(c) = 2
  PROVE  Round(st, c, text, GetCommand(seen, c))
<1>1. PICK t : t = GetCommand(seen, c)
  OBVIOUS
<1>2. c \in Seq(Text) /\ Len(c) \in Nat /\ c[2] \in Words
  <2>1. 2 \in 1..Len(c)
    OBVIOUS
  <2> QED BY <2>1, CleanIs
<1>3. Fields(seen, st.store, st.oldCmds, st.bufferWrite, Append(st.ran, c), st.logged, st.alone)
  BY <1>2, SeenIs
<1>4. PICK v : v = IF st.store[c[2]] # <<>> THEN st.store[c[2]] ELSE <<<<"nil">>>>
  OBVIOUS
<1>5. ACommand(v)
  <2>1. "nil" \in Letters
    BY DEF Letters
  <2>2. "nil" \in Byte /\ "nil" \notin Special
    BY <2>1, BytesAre
  <2>3. AWord(<<"nil">>)
    BY <2>2 DEF AWord, Text
  <2>4. ACommand(<<<<"nil">>>>)
    <3>1. PICK w : w = <<"nil">> /\ AWord(w) /\ w \in Text
      BY <2>3 DEF AWord
    <3>2. ACommand(<<w>>)
      BY <3>1 DEF ACommand
    <3> QED BY <3>1, <3>2
  <2>5. st.store[c[2]] = <<>> \/ ACommand(st.store[c[2]])
    BY <1>2 DEF Kept
  <2> QED BY <1>4, <2>4, <2>5
<1>6. PICK w : w = EncodeResp(v) /\ w \in Text /\ w # <<>> /\ DecodeResp(w) = v
  <2>1. Len(EncodeResp(v)) > 0 => EncodeResp(v) # <<>>
    OBVIOUS
  <2> QED BY <1>5, <2>1, DecodesEncoded
<1>7. t = [seen EXCEPT !.bufferWrite = w]
  BY <1>1, <1>3, <1>4, <1>6 DEF GetCommand, Fields
<1>8. Fields(t, st.store, st.oldCmds, w, Append(st.ran, c), st.logged, st.alone)
  BY <1>3, <1>6, <1>7, AnswerIs
<1>9. ~IsWrite(c)
  BY NamesDiffer DEF IsWrite
<1>10. AnswerOf(st.store, c) = v
  BY <1>4, <1>9, NamesDiffer DEF AnswerOf
<1>11. \A k \in Words : t.store[k] = NewValue(st.store, c, k)
  BY <1>8, <1>9 DEF NewValue, Writes, Fields
<1>12. Round(st, c, text, t)
  BY <1>6, <1>8, <1>9, <1>10, <1>11 DEF Round, Fields
<1> QED BY <1>1, <1>12

\* A piece with words is run, logged if it is a write, and answered.
LEMMA PieceRuns ==
  ASSUME NEW st \in RState, ~st.crashed, Kept(st.store), NEW text \in Text,
         NEW piece, NEW c, c = DecodeResp(<<"*">> \o piece), Clean(c)
  PROVE  Round(st, c, text, RunPiece(st, piece, text))
<1>1. PICK seen, t : seen = [st EXCEPT !.ran = Append(@, c)] /\ t = RunPiece(st, piece, text)
  OBVIOUS
<1>2. c # <<>> /\ Len(c) \in Nat /\ Len(c) > 0
  BY CleanIs
<1>3. t = CASE c[1] = Set      -> SetCommand(seen, c, text)
            [] c[1] = Get      -> GetCommand(seen, c)
            [] c[1] = Del      -> DelCommand(seen, c, text)
            [] c[1] = FlushDb  -> FlushDbCommand(seen, c, text)
            [] c[1] \in Shows -> [seen EXCEPT !.bufferWrite = Ok]
            [] OTHER           -> [seen EXCEPT !.bufferWrite = Missing]
  BY <1>1, <1>2 DEF RunPiece
<1>4. CASE c[1] = Set
  <2>1. t = SetCommand(seen, c, text)
    BY <1>3, <1>4, NamesDiffer
  <2>2. CASE Len(c) >= 3
    BY <1>1, <1>4, <2>1, <2>2, SetRuns
  <2>3. CASE ~(Len(c) >= 3)
    <3>1. t = [seen EXCEPT !.bufferWrite = Error]
      BY <1>2, <2>1, <2>3 DEF SetCommand, AnswerError
    <3>2. ~IsWrite(c) /\ ~(c[1] = Get /\ Len(c) = 2)
      BY <1>4, <2>3, NamesDiffer DEF IsWrite
    <3>3. Error = IF c[1] \in Shows THEN Ok ELSE IF c[1] \in {Set, Get, Del} THEN Error ELSE Missing
      BY <1>4, NamesDiffer
    <3>4. Round(st, c, text, [seen EXCEPT !.bufferWrite = Error])
      BY <1>1, <3>2, <3>3, ErrorRuns
    <3> QED BY <1>1, <3>1, <3>4
  <2> QED BY <2>2, <2>3
<1>5. CASE c[1] = Get
  <2>1. t = GetCommand(seen, c)
    BY <1>3, <1>5, NamesDiffer
  <2>2. CASE Len(c) = 2
    BY <1>1, <1>5, <2>1, <2>2, GetRuns
  <2>3. CASE Len(c) # 2
    <3>1. t = [seen EXCEPT !.bufferWrite = Error]
      BY <2>1, <2>3 DEF GetCommand, AnswerError
    <3>2. ~IsWrite(c) /\ ~(c[1] = Get /\ Len(c) = 2)
      BY <1>5, <2>3, NamesDiffer DEF IsWrite
    <3>3. Error = IF c[1] \in Shows THEN Ok ELSE IF c[1] \in {Set, Get, Del} THEN Error ELSE Missing
      BY <1>5, NamesDiffer
    <3>4. Round(st, c, text, [seen EXCEPT !.bufferWrite = Error])
      BY <1>1, <3>2, <3>3, ErrorRuns
    <3> QED BY <1>1, <3>1, <3>4
  <2> QED BY <2>2, <2>3
<1>6. CASE c[1] = Del
  <2>1. t = DelCommand(seen, c, text)
    BY <1>3, <1>6, NamesDiffer
  <2>2. CASE Len(c) >= 2
    BY <1>1, <1>6, <2>1, <2>2, DelRuns
  <2>3. CASE ~(Len(c) >= 2)
    <3>1. t = [seen EXCEPT !.bufferWrite = Error]
      BY <1>2, <2>1, <2>3 DEF DelCommand, AnswerError
    <3>2. ~IsWrite(c) /\ ~(c[1] = Get /\ Len(c) = 2)
      BY <1>6, <2>3, NamesDiffer DEF IsWrite
    <3>3. Error = IF c[1] \in Shows THEN Ok ELSE IF c[1] \in {Set, Get, Del} THEN Error ELSE Missing
      BY <1>6, NamesDiffer
    <3>4. Round(st, c, text, [seen EXCEPT !.bufferWrite = Error])
      BY <1>1, <3>2, <3>3, ErrorRuns
    <3> QED BY <1>1, <3>1, <3>4
  <2> QED BY <2>2, <2>3
<1>7. CASE c[1] = FlushDb
  <2>1. t = FlushDbCommand(seen, c, text)
    BY <1>3, <1>7, NamesDiffer
  <2>2. Round(st, c, text, FlushDbCommand(seen, c, text))
    BY <1>1, <1>7, FlushRuns
  <2> QED BY <1>1, <2>1, <2>2
<1>8. CASE c[1] \in Shows
  <2>1. t = [seen EXCEPT !.bufferWrite = Ok]
    BY <1>3, <1>8, NamesDiffer
  <2>2. ~IsWrite(c) /\ ~(c[1] = Get /\ Len(c) = 2)
    BY <1>8, NamesDiffer DEF IsWrite
  <2>3. Ok = IF c[1] \in Shows THEN Ok ELSE IF c[1] \in {Set, Get, Del} THEN Error ELSE Missing
    BY <1>8
  <2>4. Round(st, c, text, [seen EXCEPT !.bufferWrite = Ok])
    BY <1>1, <2>2, <2>3, ErrorRuns
  <2> QED BY <1>1, <2>1, <2>4
<1>9. CASE c[1] \notin {Set, Get, Del, FlushDb} \cup Shows
  <2>1. t = [seen EXCEPT !.bufferWrite = Missing]
    BY <1>3, <1>9
  <2>2. ~IsWrite(c) /\ ~(c[1] = Get /\ Len(c) = 2)
    BY <1>9 DEF IsWrite
  <2>3. Missing = IF c[1] \in Shows THEN Ok ELSE IF c[1] \in {Set, Get, Del} THEN Error ELSE Missing
    BY <1>9
  <2>4. Round(st, c, text, [seen EXCEPT !.bufferWrite = Missing])
    BY <1>1, <2>2, <2>3, ErrorRuns
  <2> QED BY <1>1, <2>1, <2>4
<1> QED BY <1>4, <1>5, <1>6, <1>7, <1>8, <1>9

-----------------------------------------------------------------------------
(* The rounds of a read.                                                     *)

\* The function of ClientRead.
RoundsOf(pieces, before, text, k, f) ==
  f = [i \in 0..k |-> IF i = 0 THEN before ELSE RunPiece(f[i - 1], pieces[i], text)]

\* ClientRead is defined for every number of pieces.
LEMMA RoundsExist ==
  ASSUME NEW pieces, NEW before, NEW text, NEW n \in Nat
  PROVE  \E f : RoundsOf(pieces, before, text, n, f)
<1>2. PICK P : P = {k \in 0..n : \E f : RoundsOf(pieces, before, text, k, f)}
  OBVIOUS
<1>3. 0 \in P
  <2> DEFINE g == [i \in 0..0 |-> before]
  <2>1. \A i \in 0..0 : i = 0
    OBVIOUS
  <2>2. \A i \in 0..0 : g[i] = IF i = 0 THEN before ELSE RunPiece(g[i - 1], pieces[i], text)
    BY <2>1
  <2>3. g = [i \in 0..0 |-> g[i]]
    OBVIOUS
  <2> HIDE DEF g
  <2>4. RoundsOf(pieces, before, text, 0, g)
    BY <2>2, <2>3 DEF RoundsOf
  <2>5. 0 \in 0..n
    OBVIOUS
  <2> QED BY <1>2, <2>4, <2>5
<1>4. ASSUME NEW k \in 1..n, k - 1 \in P PROVE k \in P
  <2>1. PICK f : RoundsOf(pieces, before, text, k - 1, f)
    BY <1>2, <1>4
  <2> DEFINE step(x, i) == IF i = 0 THEN before ELSE RunPiece(x, pieces[i], text)
             g == [i \in 0..k |-> IF i < k THEN f[i] ELSE RunPiece(f[k - 1], pieces[k], text)]
  <2>2. ASSUME NEW i \in 0..k PROVE g[i] = step(g[i - 1], i)
    <3>1. CASE i < k
      <4>1. i \in 0..k - 1 /\ (i # 0 => i - 1 \in 0..k - 1 /\ i - 1 < k /\ i - 1 \in 0..k)
        BY <3>1
      <4>2. f[i] = step(f[i - 1], i)
        BY <2>1, <4>1 DEF RoundsOf
      <4>3. g[i] = f[i] /\ (i # 0 => g[i - 1] = f[i - 1])
        BY <3>1, <4>1
      <4> QED BY <4>2, <4>3
    <3>2. CASE i = k
      <4>1. i # 0 /\ ~(i < k) /\ i - 1 < k /\ i - 1 \in 0..k /\ i - 1 = k - 1
        BY <3>2
      <4>2. g[i] = RunPiece(f[k - 1], pieces[k], text) /\ g[i - 1] = f[k - 1]
        BY <4>1
      <4>3. step(g[i - 1], i) = RunPiece(g[i - 1], pieces[i], text)
        BY <4>1
      <4> HIDE DEF g, step
      <4> QED BY <3>2, <4>2, <4>3
    <3>3. i < k \/ i = k
      OBVIOUS
    <3> QED BY <3>1, <3>2, <3>3
  <2>3. g = [i \in 0..k |-> g[i]]
    OBVIOUS
  <2> HIDE DEF g
  <2>4. g = [i \in 0..k |-> step(g[i - 1], i)]
    <3> HIDE DEF step
    <3> QED BY <2>2, <2>3
  <2>5. RoundsOf(pieces, before, text, k, g)
    BY <2>4 DEF RoundsOf
  <2>6. k \in 0..n
    OBVIOUS
  <2> QED BY <1>2, <2>5, <2>6
<1>5. \A k \in 0..n : k \in P
  BY <1>3, <1>4, CountUp
<1>6. n \in 0..n
  OBVIOUS
<1> QED BY <1>2, <1>5, <1>6

\* The state a read begins with, and its rounds f of the pieces of q.
Before(q) ==
  [store |-> store, oldCmds |-> oldCmds, bufferWrite |-> bufferWrite, ran |-> ran, logged |-> logged,
   crashed |-> FALSE, alone |-> Len(Strtok(q)) = 1]

Rounds(q, f) ==
  f[0] = Before(q)
    /\ \A i \in 1..Len(Strtok(q)) : f[i] = RunPiece(f[i - 1], Strtok(q)[i], FirstText(q))

\* ClientRead leaves the state of the last round.
LEMMA ReadDoes ==
  ASSUME NEW n, ClientRead(n), NEW q, q = SubSeq(toServer, 1, n), q \in Text
  PROVE  \E f : /\ Rounds(q, f)
                /\ store' = f[Len(Strtok(q))].store /\ oldCmds' = f[Len(Strtok(q))].oldCmds
                /\ bufferWrite' = f[Len(Strtok(q))].bufferWrite
                /\ armed' = Arms(f[Len(Strtok(q))].ran)
                /\ ran' = f[Len(Strtok(q))].ran /\ logged' = f[Len(Strtok(q))].logged
                /\ crashed' = f[Len(Strtok(q))].crashed
<1> DEFINE d == CHOOSE f : RoundsOf(Strtok(q), Before(q), FirstText(q), Len(Strtok(q)), f)
<1>1. Len(Strtok(q)) \in Nat
  BY PiecesAre
<1>2. RoundsOf(Strtok(q), Before(q), FirstText(q), Len(Strtok(q)), d)
  BY <1>1, RoundsExist
<1>3. /\ store' = d[Len(Strtok(q))].store /\ oldCmds' = d[Len(Strtok(q))].oldCmds
      /\ bufferWrite' = d[Len(Strtok(q))].bufferWrite
      /\ armed' = Arms(d[Len(Strtok(q))].ran)
      /\ ran' = d[Len(Strtok(q))].ran /\ logged' = d[Len(Strtok(q))].logged
      /\ crashed' = d[Len(Strtok(q))].crashed
  BY DEF ClientRead, RoundsOf, Before
<1>4. PICK f : f = d
  OBVIOUS
<1> HIDE DEF d
<1>5. Rounds(q, f)
  <2>1. PICK k : k = Len(Strtok(q)) /\ k \in Nat
    BY <1>1
  <2>2. 0 \in 0..k /\ \A i \in 1..k : i \in 0..k /\ i # 0
    BY <2>1
  <2>3. \A i \in 0..k : f[i] = IF i = 0 THEN Before(q) ELSE RunPiece(f[i - 1], Strtok(q)[i], FirstText(q))
    BY <1>2, <1>4, <2>1 DEF RoundsOf
  <2>4. f[0] = Before(q) /\ \A i \in 1..k : f[i] = RunPiece(f[i - 1], Strtok(q)[i], FirstText(q))
    BY <2>2, <2>3
  <2> QED BY <2>1, <2>4 DEF Rounds
<1> QED BY <1>3, <1>4, <1>5

-----------------------------------------------------------------------------
(* The inductive invariant.                                                  *)

\* What was run are segments of what was typed.
SegmentsOf(commands, lines) ==
  \A i \in 1..Len(commands) : \E j \in 1..Len(lines) : IsSegment(commands[i], lines[j])

\* The text of v: stars, and from x on a piece that decodes to v.
TextAt(text, x, v) ==
  /\ x \in 1..Len(text) /\ v # <<>> /\ v = DecodeResp(<<"*">> \o SubSeq(text, x, Len(text)))
  /\ \A j \in 1..x - 1 : text[j] = "*"
  /\ \A j \in x..Len(text) : text[j] # "*"

TextOf(text, v) == \E x : TextAt(text, x, v)

\* Entries of reads of one piece have the text of their command.
LogFits(texts, entries) ==
  /\ Len(texts) = Len(entries)
  /\ \A i \in 1..Len(entries) : entries[i].alone => TextOf(texts[i], entries[i].argv)

\* The type invariant.
TypesAre ==
  /\ entered \in Seq(Line) /\ toServer \in Text /\ oldCmds \in Seq(Text) /\ bufferWrite \in Text
  /\ toRouter \in Text /\ ran \in Seq(Seq(Text)) /\ logged \in Seq(Entry)
     /\ printed \in Seq(Seq(Text))
  /\ armed \in {"in", "out", "none"} /\ tidy \in BOOLEAN /\ crashed \in BOOLEAN

\* The inductive invariant of SegmentsOnly and EntriesReplay.
StreamFits ==
  /\ TypesAre /\ Kept(store) /\ Genuine(toServer, entered)
  /\ SegmentsOf(ran, entered) /\ LogFits(oldCmds, logged)

\* What a read's rounds keep.
RoundFits(st, lines) ==
  st \in RState /\ Kept(st.store) /\ SegmentsOf(st.ran, lines) /\ LogFits(st.oldCmds, st.logged)

\* What the buffer holds behind strtok is a text.
LEMMA FirstTextIs ==
  ASSUME NEW q \in Text
  PROVE  FirstText(q) \in Text
<1>1. PICK ends : ends = {i \in DOMAIN q : i > 1 /\ q[i] = "*" /\ q[i - 1] # "*"}
  OBVIOUS
<1>2. CASE ends = {}
  BY <1>1, <1>2 DEF FirstText
<1>3. CASE ends # {}
  <2>1. ends \in SUBSET Nat
    BY <1>1 DEF Text
  <2>2. PICK m : m = CHOOSE i \in ends : \A j \in ends : i <= j
    OBVIOUS
  <2>3. \E i \in ends : \A j \in ends : i <= j
    BY <1>3, <2>1, LeastOf
  <2>4. m \in ends
    BY <2>2, <2>3
  <2>5. m - 1 \in 0..Len(q)
    <3>1. m \in 1..Len(q)
      BY <1>1, <2>4 DEF Text
    <3>2. Len(q) \in Nat
      BY DEF Text
    <3> QED BY <3>1, <3>2
  <2>6. FirstText(q) = SubSeq(q, 1, m - 1)
    BY <1>1, <1>3, <2>2 DEF FirstText
  <2> QED BY <2>5, <2>6 DEF Text
<1> QED BY <1>2, <1>3

\* A round keeps it.
LEMMA RoundKeeps ==
  ASSUME NEW lines \in Seq(Line), NEW q \in Text, Genuine(q, lines),
         NEW m \in 1..Len(Strtok(q)), NEW st, RoundFits(st, lines), st.alone <=> Len(Strtok(q)) = 1,
         NEW t, t = RunPiece(st, Strtok(q)[m], FirstText(q))
  PROVE  RoundFits(t, lines) /\ t.alone = st.alone
<1>1. PICK x, y, piece, c :
        /\ x \in 1..Len(q) /\ y \in x..Len(q) /\ piece = Strtok(q)[m] /\ piece = SubSeq(q, x, y)
        /\ \A j \in x..y : q[j] # "*"
        /\ c = DecodeResp(<<"*">> \o piece)
  BY PiecesAre, ZenonT(40)
<1>2. c = <<>> \/ \E j \in 1..Len(lines) : IsSegment(c, lines[j])
  BY <1>1, PieceIsSegment
<1>3. st \in RState /\ Kept(st.store) /\ SegmentsOf(st.ran, lines) /\ LogFits(st.oldCmds, st.logged)
  BY DEF RoundFits
<1>4. CASE st.crashed
  <2>1. t = st
    BY <1>4 DEF RunPiece
  <2> QED BY <2>1
<1>5. CASE ~st.crashed /\ c = <<>>
  <2>1. t = [st EXCEPT !.crashed = TRUE]
    BY <1>1, <1>5 DEF RunPiece
  <2>2. t \in RState
    BY <1>3, <2>1 DEF RState
  <2>3. t.store = st.store /\ t.ran = st.ran /\ t.oldCmds = st.oldCmds /\ t.logged = st.logged
          /\ t.alone = st.alone
    BY <1>3, <2>1 DEF RState
  <2> QED BY <1>3, <2>2, <2>3 DEF RoundFits
<1>6. CASE ~st.crashed /\ c # <<>>
  <2>1. PICK j \in 1..Len(lines) : IsSegment(c, lines[j])
    BY <1>2, <1>6
  <2>2. Clean(c)
    <3>1. lines[j] \in Line
      OBVIOUS
    <3> QED BY <2>1, <3>1, SegmentIsClean
  <2>3. PICK text : text = FirstText(q) /\ text \in Text
    <3>1. FirstText(q) \in Text
      BY FirstTextIs
    <3> QED BY <3>1
  <2>4. Round(st, c, text, t)
    BY <1>1, <1>3, <1>6, <2>2, <2>3, PieceRuns
  <2>5. SegmentsOf(t.ran, lines)
    <3>1. t.ran = Append(st.ran, c) /\ st.ran \in Seq(Seq(Text))
      BY <1>3, <2>4 DEF Round, RState
    <3>2. PICK r, k : r = st.ran /\ k = Len(r)
      OBVIOUS
    <3>5. r \in Seq(Seq(Text)) /\ k \in Nat
      BY <3>1, <3>2
    <3>3. Len(t.ran) = k + 1 /\ t.ran[k + 1] = c /\ \A i \in 1..k : t.ran[i] = r[i]
      <4>1. c \in Seq(Text)
        BY <2>2, CleanIs
      <4> QED BY <3>1, <3>2, <3>5, <4>1
    <3>4. \A i \in 1..k + 1 : i \in 1..k \/ i = k + 1
      BY <3>5
    <3> QED BY <1>3, <2>1, <3>2, <3>3, <3>4 DEF SegmentsOf
  <2>6. LogFits(t.oldCmds, t.logged)
    <3>1. CASE ~IsWrite(c)
      BY <1>3, <2>4, <3>1 DEF Round
    <3>2. CASE IsWrite(c)
      <4>1. PICK e, k, o, l : e = [argv |-> c, alone |-> st.alone] /\ k = Len(st.logged)
              /\ o = st.oldCmds /\ l = st.logged
        OBVIOUS
      <4>2. o \in Seq(Text) /\ l \in Seq(Entry) /\ k \in Nat /\ Len(o) = k /\ Len(l) = k
        BY <1>3, <4>1 DEF RState, LogFits
      <4>3. t.oldCmds = Append(o, text) /\ t.logged = Append(l, e)
        BY <2>4, <3>2, <4>1 DEF Round
      <4>4. /\ Len(t.oldCmds) = k + 1 /\ t.oldCmds[k + 1] = text
               /\ \A i \in 1..k : t.oldCmds[i] = o[i]
            /\ Len(t.logged) = k + 1 /\ t.logged[k + 1] = e /\ \A i \in 1..k : t.logged[i] = l[i]
        BY <4>2, <4>3
      <4>5. e.alone => TextOf(text, e.argv)
        <5> SUFFICES ASSUME st.alone PROVE TextOf(text, c)
          BY <4>1
        <5>1. Len(Strtok(q)) = 1 /\ m = 1
          OBVIOUS
        <5>2. PICK u, v : /\ u \in 1..Len(q) /\ v \in u..Len(q) /\ piece = SubSeq(q, u, v)
                             /\ text = SubSeq(q, 1, v)
                          /\ \A i \in 1..u - 1 : q[i] = "*"
                          /\ \A i \in u..v : q[i] # "*"
          <6>1. PICK u, v : /\ u \in 1..Len(q) /\ v \in u..Len(q) /\ Strtok(q)[1] = SubSeq(q, u, v)
                            /\ FirstText(q) = SubSeq(q, 1, v)
                            /\ \A i \in 1..u - 1 : q[i] = "*"
                            /\ \A i \in u..v : q[i] # "*"
            BY <5>1, OnePiece
          <6>2. piece = SubSeq(q, u, v) /\ text = SubSeq(q, 1, v)
            BY <1>1, <2>3, <5>1, <6>1
          <6> QED BY <6>1, <6>2
        <5>3. Len(q) \in Nat
          BY DEF Text
        <5>4. u \in Nat /\ v \in Nat /\ u >= 1 /\ u <= v /\ v <= Len(q)
          BY <5>2, <5>3
        <5>5. Len(text) = v /\ \A i \in 1..v : text[i] = q[i]
          BY <5>2, <5>4 DEF Text
        <5>6. SubSeq(text, u, v) = SubSeq(q, u, v)
          <6>1. PICK g, h : g = SubSeq(text, u, v) /\ h = SubSeq(q, u, v)
            OBVIOUS
          <6>2. g \in Seq(Byte) /\ Len(g) = v - u + 1
                  /\ \A i \in 1..v - u + 1 : g[i] = text[u + i - 1]
            BY <2>3, <5>4, <5>5, <6>1, SMTT(20) DEF Text
          <6>3. h \in Seq(Byte) /\ Len(h) = v - u + 1 /\ \A i \in 1..v - u + 1 : h[i] = q[u + i - 1]
            BY <5>4, <6>1 DEF Text
          <6>4. \A i \in 1..v - u + 1 : u + i - 1 \in 1..v
            BY <5>4
          <6>5. ASSUME NEW i \in 1..v - u + 1 PROVE g[i] = h[i]
            <7>1. g[i] = text[u + i - 1] /\ h[i] = q[u + i - 1] /\ u + i - 1 \in 1..v
              BY <6>2, <6>3, <6>4
            <7> QED BY <5>5, <7>1
          <6> QED BY <6>1, <6>2, <6>3, <6>5, SMTT(20)
        <5>7. u \in 1..Len(text) /\ (\A i \in 1..u - 1 : i \in 1..v) /\ (\A i \in u..v : i \in 1..v)
          BY <5>4, <5>5
        <5>8. c = DecodeResp(<<"*">> \o SubSeq(text, u, Len(text)))
          BY <1>1, <5>2, <5>5, <5>6
        <5>9. \A i \in 1..u - 1 : text[i] = "*"
          BY <5>2, <5>5, <5>7
        <5>10. \A i \in u..Len(text) : text[i] # "*"
          BY <5>2, <5>5, <5>7
        <5>11. TextAt(text, u, c)
          BY <1>6, <5>7, <5>8, <5>9, <5>10 DEF TextAt
        <5> QED BY <5>11 DEF TextOf
      <4>6. \A i \in 1..k + 1 : i \in 1..k \/ i = k + 1
        BY <4>2
      <4>7. \A i \in 1..k : l[i].alone => TextOf(o[i], l[i].argv)
        BY <1>3, <4>1 DEF LogFits
      <4> QED BY <4>4, <4>5, <4>6, <4>7 DEF LogFits
    <3> QED BY <3>1, <3>2
  <2> QED BY <2>4, <2>5, <2>6 DEF Round, RoundFits
<1> QED BY <1>4, <1>5, <1>6

-----------------------------------------------------------------------------
(* Every step keeps the invariant.                                         *)

\* What is decoded are words.
LEMMA DecodesTyped ==
  ASSUME NEW q \in Text, q # <<>>
  PROVE  DecodeResp(q) \in Seq(Text)
<1>1. Len(q) \in Nat /\ Len(q) > 0
  BY DEF Text
<1>2. CASE q[1] \in {"+", "-", ":", "*"}
  <2>1. PICK g : Loops(g, q) /\ DecodeResp(q) = g[Len(q)].ret
    BY <1>1, <1>2, DecodedBy
  <2>2. Len(q) \in 1..Len(q)
    BY <1>1
  <2>3. g[Len(q)] \in DState
    BY <2>1, <2>2 DEF Loops
  <2> QED BY <2>1, <2>3 DEF DState
<1>3. CASE q[1] \notin {"+", "-", ":", "*"}
  <2>1. Decoded(q) = [dollar |-> FALSE, str |-> FALSE, text |-> <<>>, ret |-> <<>>]
    BY <1>3 DEF Decoded
  <2> QED BY <2>1 DEF DecodeResp
<1> QED BY <1>2, <1>3

\* The invariant is kept by what is typed,
LEMMA FitsTyped ==
  ASSUME StreamFits, NEW line \in Line, STDINRunCommand(line)
  PROVE  StreamFits'
<1>1. /\ entered' = Append(entered, line) /\ toServer' = toServer \o EncodeResp(line)
      /\ UNCHANGED <<store, oldCmds, ran, logged, bufferWrite, armed, toRouter, printed, tidy, crashed>>
  BY DEF STDINRunCommand, serverVars
<1>2. TypesAre /\ Kept(store) /\ Genuine(toServer, entered) /\ SegmentsOf(ran, entered)
        /\ LogFits(oldCmds, logged)
  BY DEF StreamFits
<1>3. entered \in Seq(Line) /\ toServer \in Text
  BY <1>2 DEF TypesAre
<1>4. toServer' \in Text /\ Genuine(toServer', entered')
  <2>1. PICK q, ls : q = toServer /\ ls = entered
    OBVIOUS
  <2>2. q \in Text /\ ls \in Seq(Line) /\ Genuine(q, ls)
    BY <1>2, <1>3, <2>1
  <2>3. q \o EncodeResp(line) \in Text /\ Genuine(q \o EncodeResp(line), Append(ls, line))
    BY <2>2, GenuineGrows
  <2> QED BY <1>1, <2>1, <2>3
<1>5. entered' \in Seq(Line) /\ Len(entered') = Len(entered) + 1
        /\ \A j \in 1..Len(entered) : j \in 1..Len(entered') /\ entered'[j] = entered[j]
  <2>1. PICK ls, m : ls = entered /\ m = Append(ls, line)
    OBVIOUS
  <2>2. ls \in Seq(Line)
    BY <1>3, <2>1
  <2>3. m \in Seq(Line) /\ Len(m) = Len(ls) + 1 /\ \A j \in 1..Len(ls) : j \in 1..Len(m)
          /\ m[j] = ls[j]
    BY <2>1, <2>2
  <2> QED BY <1>1, <2>1, <2>3
<1>6. SegmentsOf(ran, entered)'
  <2> SUFFICES ASSUME NEW i \in 1..Len(ran) PROVE \E j \in 1..Len(entered') : IsSegment(ran[i], entered'[j])
    BY <1>1 DEF SegmentsOf
  <2>1. PICK j \in 1..Len(entered) : IsSegment(ran[i], entered[j])
    BY <1>2 DEF SegmentsOf
  <2> QED BY <1>5, <2>1
<1>7. TypesAre'
  BY <1>1, <1>2, <1>4, <1>5 DEF TypesAre
<1>8. Kept(store)' /\ LogFits(oldCmds, logged)'
  BY <1>1, <1>2 DEF Kept, LogFits
<1> QED BY <1>4, <1>6, <1>7, <1>8 DEF StreamFits

\* by a read that cuts the stream anywhere,
LEMMA FitsRead ==
  ASSUME StreamFits, NEW n \in 1..BufferSize, ClientRead(n)
  PROVE  StreamFits'
<1>1. n \in Nat /\ n >= 1 /\ n <= Len(toServer)
  BY RespConstants DEF ClientRead
<1>2. TypesAre /\ Kept(store) /\ Genuine(toServer, entered) /\ SegmentsOf(ran, entered)
        /\ LogFits(oldCmds, logged)
  BY DEF StreamFits
<1>3. entered \in Seq(Line) /\ toServer \in Text
  BY <1>2 DEF TypesAre
<1>4. PICK q, r, ls : q = SubSeq(toServer, 1, n) /\ r = SubSeq(toServer, n + 1, Len(toServer))
        /\ ls = entered
  OBVIOUS
<1>5. Len(toServer) \in Nat
  BY <1>3 DEF Text
<1>6. q \in Text /\ Genuine(q, ls)
  <2>1. 1 \in 1..Len(toServer) + 1 /\ n \in 1 - 1..Len(toServer)
    BY <1>1, <1>5
  <2> QED BY <1>2, <1>3, <1>4, <2>1, GenuinePart
<1>7. r \in Text /\ Genuine(r, ls)
  <2>1. PICK a, b : a = n + 1 /\ b = Len(toServer)
    OBVIOUS
  <2>2. a \in 1..Len(toServer) + 1 /\ b \in a - 1..Len(toServer)
    BY <1>1, <1>5, <2>1
  <2>3. SubSeq(toServer, a, b) \in Text /\ Genuine(SubSeq(toServer, a, b), entered)
    BY <1>2, <1>3, <2>2, GenuinePart
  <2> QED BY <1>4, <2>1, <2>3
<1>8. /\ toServer' = r /\ UNCHANGED <<entered, toRouter, printed>> /\ tidy' \in BOOLEAN
  <2>1. toServer' = r /\ UNCHANGED <<entered, toRouter, printed>>
    BY <1>4 DEF ClientRead
  <2>2. tidy' = (tidy /\ IsNextPacket(q))
    BY <1>4 DEF ClientRead
  <2> QED BY <2>1, <2>2
<1>9. PICK f : /\ Rounds(q, f)
               /\ store' = f[Len(Strtok(q))].store /\ oldCmds' = f[Len(Strtok(q))].oldCmds
               /\ bufferWrite' = f[Len(Strtok(q))].bufferWrite
               /\ armed' = Arms(f[Len(Strtok(q))].ran)
               /\ ran' = f[Len(Strtok(q))].ran /\ logged' = f[Len(Strtok(q))].logged
               /\ crashed' = f[Len(Strtok(q))].crashed
  BY <1>4, <1>6, ReadDoes
<1>10. PICK k : k = Len(Strtok(q)) /\ k \in Nat
  <2>1. Strtok(q) \in Seq(Text)
    BY <1>6, PiecesAre
  <2> QED BY <2>1
<1>11. PICK P : P = {i \in 0..k : RoundFits(f[i], ls) /\ (f[i].alone <=> k = 1)}
  OBVIOUS
<1>12. 0 \in P
  <2>1. f[0] = Before(q)
    BY <1>9 DEF Rounds
  <2>2. Before(q) \in RState
    <3>1. <<>> \in Text
      BY DEF Text
    <3> QED BY <1>2, <3>1 DEF Before, RState, TypesAre, Kept
  <2>3. RoundFits(Before(q), ls)
    BY <1>2, <1>4, <2>2 DEF Before, RoundFits
  <2>4. Before(q).alone <=> k = 1
    BY <1>10 DEF Before
  <2>5. 0 \in 0..k
    BY <1>10
  <2> QED BY <1>11, <2>1, <2>3, <2>4, <2>5
<1>13. ASSUME NEW i \in 1..k, i - 1 \in P PROVE i \in P
  <2>1. f[i] = RunPiece(f[i - 1], Strtok(q)[i], FirstText(q))
    BY <1>9, <1>10 DEF Rounds
  <2>2. RoundFits(f[i - 1], ls) /\ (f[i - 1].alone <=> Len(Strtok(q)) = 1)
    BY <1>10, <1>11, <1>13
  <2>3. ls \in Seq(Line) /\ i \in 1..Len(Strtok(q)) /\ i \in 0..k
    BY <1>3, <1>4, <1>10
  <2>4. RoundFits(f[i], ls) /\ f[i].alone = f[i - 1].alone
    BY <1>6, <2>1, <2>2, <2>3, RoundKeeps
  <2> QED BY <1>10, <1>11, <2>2, <2>3, <2>4
<1>14. RoundFits(f[k], ls)
  <2>1. \A i \in 0..k : i \in P
    BY <1>10, <1>12, <1>13, CountUp
  <2>2. k \in 0..k
    BY <1>10
  <2> QED BY <1>11, <2>1, <2>2
<1>15. PICK t : /\ t = f[k] /\ store' = t.store /\ oldCmds' = t.oldCmds
                   /\ bufferWrite' = t.bufferWrite /\ armed' = Arms(t.ran)
                /\ ran' = t.ran /\ logged' = t.logged /\ crashed' = t.crashed
  BY <1>9, <1>10
<1>16. t \in RState /\ Kept(t.store) /\ SegmentsOf(t.ran, ls) /\ LogFits(t.oldCmds, t.logged)
  BY <1>14, <1>15 DEF RoundFits
<1>17. /\ store' \in [Words -> Seq(Text)] /\ oldCmds' \in Seq(Text) /\ bufferWrite' \in Text
       /\ ran' \in Seq(Seq(Text)) /\ logged' \in Seq(Entry) /\ crashed' \in BOOLEAN
       /\ armed' \in {"in", "out", "none"}
  BY <1>15, <1>16 DEF RState, Arms
<1>18. TypesAre'
  BY <1>2, <1>7, <1>8, <1>17 DEF TypesAre
<1>19. entered' = ls
  BY <1>4, <1>8
<1>20. Kept(store') /\ SegmentsOf(ran', ls) /\ LogFits(oldCmds', logged') /\ Genuine(toServer', ls)
  BY <1>7, <1>8, <1>15, <1>16
<1>21. Kept(store)' /\ SegmentsOf(ran, entered)' /\ LogFits(oldCmds, logged)'
  BY <1>19, <1>20 DEF Kept, SegmentsOf, LogFits
<1>22. Genuine(toServer, entered)'
  <2>1. Genuine(toServer', entered')
    BY <1>19, <1>20
  <2> QED BY <2>1 DEF Genuine, FromPacket, CopyOf
<1> QED BY <1>18, <1>21, <1>22 DEF StreamFits

\* by the answers and by steps that change nothing,
LEMMA FitsAnswered ==
  ASSUME StreamFits, ClientWrite \/ RunAnswer \/ UNCHANGED streamVars
  PROVE  StreamFits'
<1>1. TypesAre /\ Kept(store) /\ Genuine(toServer, entered) /\ SegmentsOf(ran, entered)
        /\ LogFits(oldCmds, logged)
  BY DEF StreamFits
<1>2. UNCHANGED <<entered, toServer, store, oldCmds, ran, logged>>
  BY DEF ClientWrite, RunAnswer, streamVars, serverVars
<1>3. Kept(store)' /\ Genuine(toServer, entered)' /\ SegmentsOf(ran, entered)'
        /\ LogFits(oldCmds, logged)'
  <2>1. Kept(store)'
    BY <1>1, <1>2 DEF Kept
  <2>2. Genuine(toServer, entered)'
    BY <1>1, <1>2 DEF Genuine, FromPacket
  <2>3. SegmentsOf(ran, entered)'
    BY <1>1, <1>2 DEF SegmentsOf
  <2>4. LogFits(oldCmds, logged)'
    BY <1>1, <1>2 DEF LogFits
  <2> QED BY <2>1, <2>2, <2>3, <2>4
<1>4. CASE ClientWrite
  <2>1. toRouter' = toRouter \o bufferWrite /\ UNCHANGED <<bufferWrite, printed, crashed>>
        /\ tidy' = (tidy /\ toRouter = <<>>) /\ armed' \in {"in", "out", "none"}
    BY <1>4 DEF ClientWrite
  <2>2. toRouter' \in Text /\ bufferWrite' \in Text /\ tidy' \in BOOLEAN
    BY <1>1, <2>1 DEF TypesAre, Text
  <2>3. TypesAre'
    BY <1>1, <1>2, <2>1, <2>2 DEF TypesAre
  <2> QED BY <1>3, <2>3 DEF StreamFits
<1>5. CASE RunAnswer
  <2>1. toRouter # <<>> /\ printed' = Append(printed, DecodeResp(toRouter)) /\ toRouter' = <<>>
          /\ UNCHANGED <<bufferWrite, armed, tidy, crashed>>
    BY <1>5 DEF RunAnswer
  <2>2. toRouter \in Text /\ printed \in Seq(Seq(Text))
    BY <1>1 DEF TypesAre
  <2>3. DecodeResp(toRouter) \in Seq(Text)
    BY <2>1, <2>2, DecodesTyped
  <2>4. printed' \in Seq(Seq(Text)) /\ toRouter' \in Text
    BY <2>1, <2>2, <2>3 DEF Text
  <2>5. TypesAre'
    BY <1>1, <1>2, <2>1, <2>4 DEF TypesAre
  <2> QED BY <1>3, <2>5 DEF StreamFits
<1>6. CASE UNCHANGED streamVars
  <2>1. TypesAre'
    BY <1>1, <1>6 DEF TypesAre, streamVars, serverVars
  <2> QED BY <1>3, <2>1 DEF StreamFits
<1> QED BY <1>4, <1>5, <1>6

\* and holds at the start.
LEMMA FitsFirst ==
  StreamInit => StreamFits
<1> SUFFICES ASSUME StreamInit PROVE StreamFits
  OBVIOUS
<1>1. Len(<<>>) = 0 /\ (\A i : i \notin 1..0) /\ <<>> \in Text /\ <<>> \in Seq(Text)
        /\ <<>> \in Seq(Line)
      /\ <<>> \in Seq(Seq(Text)) /\ <<>> \in Seq(Entry)
  BY DEF Text
<1>2. TypesAre
  BY <1>1 DEF TypesAre, StreamInit
<1>3. Kept(store)
  BY <1>1 DEF Kept, StreamInit
<1>4. Genuine(toServer, entered)
  BY <1>1 DEF Genuine, StreamInit
<1>5. SegmentsOf(ran, entered) /\ LogFits(oldCmds, logged)
  BY <1>1 DEF SegmentsOf, LogFits, StreamInit
<1> QED BY <1>2, <1>3, <1>4, <1>5 DEF StreamFits

\* The types, and with them: bytes under way are of packets of lines, values of the
\* store are words, what ran are segments, and log entries have texts of packets.
THEOREM StreamHolds == StreamSpec => []StreamFits
<1>1. ASSUME StreamFits, [StreamNext]_streamVars PROVE StreamFits'
  <2>1. CASE \E line \in Line : STDINRunCommand(line)
    BY <1>1, <2>1, FitsTyped
  <2>2. CASE \E n \in 1..BufferSize : ClientRead(n)
    BY <1>1, <2>2, FitsRead
  <2>3. CASE ClientWrite \/ RunAnswer \/ UNCHANGED streamVars
    BY <1>1, <2>3, FitsAnswered
  <2> QED BY <1>1, <2>1, <2>2, <2>3 DEF StreamNext
<1> QED BY <1>1, FitsFirst, PTL DEF StreamSpec

\* Wherever reads cut the stream, no word is torn or joined with another: what is
\* run is a contiguous part of one command typed.
THEOREM SegmentsOnly == StreamSpec => []RunsSegments
<1>1. StreamFits => RunsSegments
  <2> SUFFICES ASSUME StreamFits PROVE RunsSegments
    OBVIOUS
  <2>1. SegmentsOf(ran, entered) /\ ran \in Seq(Seq(Text)) /\ entered \in Seq(Line)
    BY DEF StreamFits, TypesAre
  <2>2. DOMAIN ran = 1..Len(ran) /\ DOMAIN entered = 1..Len(entered)
    BY <2>1
  <2> QED BY <2>1, <2>2 DEF SegmentsOf, RunsSegments
<1> QED BY <1>1, StreamHolds, PTL

-----------------------------------------------------------------------------
(* What a follower reads of an entry.                                        *)

\* Two runs of decodeResp's loop that differ in the words they began with.
Alike(s, t, first) ==
  /\ s \in DState /\ t \in DState /\ s.dollar = t.dollar /\ s.str = t.str
  /\ s.str => s.dollar /\ s.text = t.text
  /\ t.ret = first \o s.ret

\* They stay alike.
LEMMA AlikeGoOn ==
  ASSUME NEW first \in Seq(Text), NEW s, NEW t, Alike(s, t, first), NEW b \in Byte
  PROVE  Alike(NextByte(s, b), NextByte(t, b), first)
<1>1. PICK u, v : u = NextByte(s, b) /\ v = NextByte(t, b)
  OBVIOUS
<1>2. /\ s \in DState /\ t \in DState /\ s.dollar = t.dollar /\ s.str = t.str
      /\ s.str => s.dollar /\ s.text = t.text
      /\ t.ret = first \o s.ret
  BY DEF Alike
<1>3. s.dollar \in BOOLEAN /\ s.str \in BOOLEAN /\ s.text \in Text /\ s.ret \in Seq(Text)
  BY <1>2 DEF DState
<1>4. u \in DState /\ v \in DState
  BY <1>1, <1>2, NextByteIs
<1>5. CASE b = "$"
  <2>1. u.dollar /\ u.str = s.str /\ u.text = s.text /\ u.ret = s.ret
    BY <1>1, <1>2, <1>5, NextByteIs
  <2>2. v.dollar /\ v.str = t.str /\ v.text = t.text /\ v.ret = t.ret
    BY <1>1, <1>2, <1>5, NextByteIs
  <2>3. u.dollar = v.dollar
    BY <1>4, <2>1, <2>2 DEF DState
  <2> QED BY <1>1, <1>2, <1>4, <2>1, <2>2, <2>3 DEF Alike
<1>6. CASE b = LF /\ s.dollar
  <2>1. u.dollar /\ u.str /\ u.text = <<>> /\ u.ret = s.ret
    BY <1>1, <1>2, <1>6, NextByteIs
  <2>2. v.dollar /\ v.str /\ v.text = <<>> /\ v.ret = t.ret
    <3>1. t.dollar /\ t \in DState
      BY <1>2, <1>6
    <3> QED BY <1>1, <1>6, <3>1, NextByteIs
  <2>3. u.dollar = v.dollar /\ u.str = v.str
    BY <1>4, <2>1, <2>2 DEF DState
  <2> QED BY <1>1, <1>2, <1>4, <2>1, <2>2, <2>3 DEF Alike
<1>7. CASE b = CR /\ s.str
  <2>1. ~u.dollar /\ ~u.str /\ u.ret = Append(s.ret, s.text)
    BY <1>1, <1>2, <1>7, NextByteIs
  <2>2. ~v.dollar /\ ~v.str /\ v.ret = Append(t.ret, t.text)
    <3>1. t.str /\ t \in DState
      BY <1>2, <1>7
    <3> QED BY <1>1, <1>7, <3>1, NextByteIs
  <2>3. u.dollar = v.dollar /\ u.str = v.str
    BY <1>4, <2>1, <2>2 DEF DState
  <2>4. PICK x, y : x = s.ret /\ y = s.text
    OBVIOUS
  <2>5. Append(first \o x, y) = first \o Append(x, y)
    BY <1>3, <2>4
  <2>6. v.ret = first \o u.ret
    BY <1>2, <1>7, <2>1, <2>2, <2>4, <2>5
  <2> QED BY <1>1, <1>4, <2>1, <2>3, <2>6 DEF Alike
<1>8. CASE b \notin {CR, LF, "$"} /\ s.str
  <2>1. u.dollar = s.dollar /\ u.str = s.str /\ u.text = Append(s.text, b) /\ u.ret = s.ret
    BY <1>1, <1>2, <1>8, NextByteIs
  <2>2. v.dollar = t.dollar /\ v.str = t.str /\ v.text = Append(t.text, b) /\ v.ret = t.ret
    BY <1>1, <1>2, <1>8, NextByteIs
  <2> QED BY <1>1, <1>2, <1>4, <1>8, <2>1, <2>2 DEF Alike
<1>9. CASE b # "$" /\ ~s.str /\ (b # LF \/ ~s.dollar)
  <2>1. u = s /\ v = t
    BY <1>1, <1>2, <1>9, NextByteIs
  <2> QED BY <1>1, <2>1
<1>10. ~(b = LF /\ ~s.dollar /\ s.str)
  BY <1>2
<1> QED BY <1>5, <1>6, <1>7, <1>8, <1>9, <1>10

\* Up to the first "$" nothing is read.
LEMMA SilentBefore ==
  ASSUME NEW q \in Text, NEW g, Loops(g, q), NEW n \in 1..Len(q), q[1] = "*",
         \A i \in 2..n : q[i] # "$"
  PROVE  ~g[n].dollar /\ ~g[n].str /\ g[n].ret = <<>> /\ g[n] \in DState
<1>1. Len(q) \in Nat
  BY DEF Text
<1>2. PICK b : b = Begin(q) /\ ~b.dollar /\ ~b.str /\ b.ret = <<>>
  <2>1. q[1] \notin {"+", "-", ":"}
    OBVIOUS
  <2>2. Begin(q) = [dollar |-> FALSE, str |-> FALSE, text |-> <<>>, ret |-> <<>>]
    BY <2>1 DEF Begin
  <2> QED BY <2>2
<1>3. PICK P : P = {k \in 0..n - 1 : g[k + 1] = b}
  OBVIOUS
<1>4. 0 \in P
  <2>1. 0 + 1 = 1 /\ 0 \in 0..n - 1
    BY <1>1
  <2>2. g[1] = b
    BY <1>2 DEF Loops
  <2> QED BY <1>3, <2>1, <2>2
<1>5. ASSUME NEW k \in 1..n - 1, k - 1 \in P PROVE k \in P
  <2>1. k + 1 \in 2..Len(q) /\ k + 1 \in 2..n /\ (k + 1) - 1 = k /\ (k - 1) + 1 = k
          /\ k \in 0..n - 1
    BY <1>1
  <2>2. g[k] = b
    BY <1>3, <1>5, <2>1
  <2>3. g[k + 1] = NextByte(g[(k + 1) - 1], q[k + 1])
    BY <2>1 DEF Loops
  <2>4. g[k + 1] = NextByte(b, q[k + 1])
    BY <2>1, <2>2, <2>3
  <2>5. q[k + 1] # "$"
    BY <2>1
  <2>6. NextByte(b, q[k + 1]) = b
    BY <1>2, <2>5 DEF NextByte
  <2> QED BY <1>3, <2>1, <2>4, <2>6
<1>6. \A k \in 0..n - 1 : k \in P
  <2>1. n - 1 \in Nat
    BY <1>1
  <2> QED BY <1>4, <1>5, <2>1, CountUp
<1>7. n - 1 \in 0..n - 1 /\ (n - 1) + 1 = n
  BY <1>1
<1>8. g[n] = b
  BY <1>3, <1>6, <1>7
<1> QED BY <1>2, <1>8, BeginTyped

\* The loop over the first bytes is the loop's beginning.
LEMMA LoopBegins ==
  ASSUME NEW q \in Text, NEW g, Loops(g, q), NEW n \in 1..Len(q), q[1] = "*"
  PROVE  SubSeq(q, 1, n) \in Text /\ Len(SubSeq(q, 1, n)) = n
    /\ Loops([i \in 1..n |-> g[i]], SubSeq(q, 1, n))
<1>1. Len(q) \in Nat
  BY DEF Text
<1>2. PICK r, h : r = SubSeq(q, 1, n) /\ h = [i \in 1..n |-> g[i]]
  OBVIOUS
<1>3. r \in Text /\ Len(r) = n /\ \A i \in 1..n : r[i] = q[i]
  BY <1>1, <1>2 DEF Text
<1>4. ASSUME NEW i \in 1..n PROVE h[i] = g[i] /\ g[i] \in DState
  <2>1. i \in 1..Len(q)
    BY <1>1
  <2>2. g[i] \in DState
    BY <2>1 DEF Loops
  <2> QED BY <1>2, <2>2
<1>5. h \in [1..n -> DState]
  BY <1>2, <1>4
<1>6. h[1] = Begin(r)
  <2>1. 1 \in 1..n
    BY <1>1
  <2>2. r[1] = "*" /\ h[1] = Begin(q)
    BY <1>3, <1>4, <2>1 DEF Loops
  <2> QED BY <2>2 DEF Begin
<1>7. ASSUME NEW i \in 2..n PROVE h[i] = NextByte(h[i - 1], r[i])
  <2>1. i \in 1..n /\ i - 1 \in 1..n /\ i \in 2..Len(q)
    BY <1>1
  <2>2. g[i] = NextByte(g[i - 1], q[i])
    BY <2>1 DEF Loops
  <2>3. h[i] = g[i] /\ h[i - 1] = g[i - 1] /\ r[i] = q[i]
    BY <1>3, <1>4, <2>1
  <2> QED BY <2>2, <2>3
<1>8. Loops(h, r)
  BY <1>3, <1>5, <1>6, <1>7 DEF Loops
<1> QED BY <1>2, <1>3, <1>8

\* The loop over a text has one result.
LEMMA OneLoop ==
  ASSUME NEW q \in Text, Len(q) > 0, NEW g, Loops(g, q), NEW h, Loops(h, q)
  PROVE  g[Len(q)] = h[Len(q)]
<1>1. PICK n : n = Len(q) - 1 /\ n \in Nat /\ Len(q) = n + 1
  BY DEF Text
<1>2. PICK P : P = {k \in 0..n : g[k + 1] = h[k + 1]}
  OBVIOUS
<1>3. 0 \in P
  <2>1. 0 + 1 = 1 /\ 0 \in 0..n
    BY <1>1
  <2>2. g[1] = h[1]
    BY DEF Loops
  <2> QED BY <1>2, <2>1, <2>2
<1>4. ASSUME NEW k \in 1..n, k - 1 \in P PROVE k \in P
  <2>1. k + 1 \in 2..Len(q) /\ (k + 1) - 1 = k /\ (k - 1) + 1 = k /\ k \in 0..n
    BY <1>1
  <2>2. g[k] = h[k]
    BY <1>2, <1>4, <2>1
  <2>3. g[k + 1] = NextByte(g[(k + 1) - 1], q[k + 1])
          /\ h[k + 1] = NextByte(h[(k + 1) - 1], q[k + 1])
    BY <2>1 DEF Loops
  <2> QED BY <1>2, <2>1, <2>2, <2>3
<1>5. \A k \in 0..n : k \in P
  BY <1>1, <1>3, <1>4, CountUp
<1>6. n \in 0..n
  BY <1>1
<1> QED BY <1>1, <1>2, <1>5, <1>6

\* A text behind a head is decoded to the head's words and its own: text from its
\* first "$", at f, on, behind the first m bytes of q, the head's.
DollarAt(text, x, f) ==
  x \in 1..Len(text) /\ f \in x..Len(text) /\ text[f] = "$" /\ \A i \in 1..f - 1 : text[i] # "$"

TailAt(text, f, q, m) ==
  Len(q) = m + Len(text) - f + 1 /\ \A i \in 0..Len(text) - f : q[m + 1 + i] = text[f + i]

\* No word is begun; those read are first.
Idle(s, first) == ~s.dollar /\ ~s.str /\ s.ret = first

\* It is decoded to the words of both.
LEMMA TailDecodes ==
  ASSUME NEW text \in Text, NEW x, NEW f, DollarAt(text, x, f),
         NEW q \in Text, NEW m \in 1..Len(q), q[1] = "*", TailAt(text, f, q, m),
         NEW first \in Seq(Text), NEW g, Loops(g, q), Idle(g[m], first)
  PROVE  DecodeResp(q) = first \o DecodeResp(<<"*">> \o SubSeq(text, x, Len(text)))
<1>16. /\ x \in 1..Len(text) /\ f \in x..Len(text) /\ text[f] = "$"
       /\ Len(q) = m + Len(text) - f + 1
       /\ \A i \in 0..Len(text) - f : q[m + 1 + i] = text[f + i]
       /\ ~g[m].dollar /\ ~g[m].str /\ g[m].ret = first
       /\ \A i \in 1..f - 1 : text[i] # "$"
  BY DEF DollarAt, TailAt, Idle
<1>17. PICK v : v = DecodeResp(<<"*">> \o SubSeq(text, x, Len(text)))
  OBVIOUS
<1>1. PICK l, n : l = Len(text) /\ n = l - x + 2
  OBVIOUS
<1>2. l \in Nat /\ x \in Nat /\ x >= 1 /\ f \in Nat /\ x <= f /\ f <= l /\ m \in Nat /\ m >= 1
        /\ n \in Nat /\ n >= 2 /\ Len(q) \in Nat
  <2>1. l \in Nat /\ Len(q) \in Nat
    BY <1>1 DEF Text
  <2>2. x \in 1..l /\ f \in x..l /\ m \in 1..Len(q)
    BY <1>1, <1>16
  <2> QED BY <1>1, <2>1, <2>2
<1>3. PICK r : r = <<"*">> \o SubSeq(text, x, l)
  OBVIOUS
<1>4. r \in Text /\ Len(r) = n /\ r[1] = "*" /\ \A i \in 2..n : r[i] = text[x + i - 2]
  <2>1. l \in x..Len(text) /\ x \in 1..Len(text)
    BY <1>1, <1>2
  <2>2. /\ <<"*">> \o SubSeq(text, x, l) \in Text
        /\ Len(<<"*">> \o SubSeq(text, x, l)) = l - x + 2
        /\ (<<"*">> \o SubSeq(text, x, l))[1] = "*"
        /\ \A i \in 2..l - x + 2 : (<<"*">> \o SubSeq(text, x, l))[i] = text[x + i - 2]
    BY <2>1, StarBehind
  <2> QED BY <1>1, <1>3, <2>2
<1>5. PICK h : Loops(h, r) /\ v = h[n].ret
  <2>1. Len(r) > 0 /\ r[1] \in {"+", "-", ":", "*"}
    BY <1>2, <1>4
  <2>2. PICK h : Loops(h, r) /\ DecodeResp(r) = h[Len(r)].ret
    BY <1>4, <2>1, DecodedBy
  <2> QED BY <1>1, <1>3, <1>4, <1>17, <2>2
<1>6. PICK d, k : d = f - x + 1 /\ k = l - f + 1
  OBVIOUS
<1>7. d \in 1..n /\ k \in Nat /\ k >= 1 /\ d \in Nat /\ d + k = n /\ m + k = Len(q)
  BY <1>1, <1>2, <1>6, <1>16
<1>8. ~h[d].dollar /\ ~h[d].str /\ h[d].ret = <<>> /\ h[d] \in DState
  <2>1. ASSUME NEW i \in 2..d PROVE r[i] # "$"
    <3>1. i \in 2..n /\ x + i - 2 \in 1..f - 1
      BY <1>2, <1>6, <1>7
    <3> QED BY <1>4, <1>16, <3>1
  <2>2. d \in 1..Len(r)
    BY <1>4, <1>7
  <2> QED BY <1>4, <1>5, <2>1, <2>2, SilentBefore
<1>9. PICK P : P = {j \in 0..k : Alike(h[d + j], g[m + j], first)}
  OBVIOUS
<1>10. 0 \in P
  <2>1. d + 0 = d /\ m + 0 = m /\ 0 \in 0..k
    BY <1>2, <1>7
  <2>2. g[m] \in DState
    BY DEF Loops
  <2>3. first \o <<>> = first
    OBVIOUS
  <2>4. g[m].ret = first \o h[d].ret
    BY <1>8, <1>16, <2>3
  <2>5. h[d].dollar = g[m].dollar /\ h[d].str = g[m].str
    BY <1>8, <1>16, <2>2 DEF DState
  <2>6. Alike(h[d], g[m], first)
    BY <1>8, <2>2, <2>4, <2>5 DEF Alike
  <2> QED BY <1>9, <2>1, <2>6
<1>11. ASSUME NEW j \in 1..k, j - 1 \in P PROVE j \in P
  <2>1. /\ d + j \in 2..n /\ (d + j) - 1 = d + (j - 1) /\ m + j \in 2..Len(q)
           /\ (m + j) - 1 = m + (j - 1)
        /\ j \in 0..k /\ j - 1 \in 0..l - f /\ x + (d + j) - 2 = f + (j - 1)
           /\ m + 1 + (j - 1) = m + j
    BY <1>2, <1>6, <1>7
  <2>2. Alike(h[d + (j - 1)], g[m + (j - 1)], first)
    BY <1>9, <1>11
  <2>3. h[d + j] = NextByte(h[d + (j - 1)], r[d + j])
    <3>1. h[d + j] = NextByte(h[(d + j) - 1], r[d + j])
      BY <1>4, <1>5, <2>1 DEF Loops
    <3> QED BY <2>1, <3>1
  <2>4. g[m + j] = NextByte(g[m + (j - 1)], q[m + j])
    <3>1. g[m + j] = NextByte(g[(m + j) - 1], q[m + j])
      BY <2>1 DEF Loops
    <3> QED BY <2>1, <3>1
  <2>5. r[d + j] = text[f + (j - 1)]
    <3>1. r[d + j] = text[x + (d + j) - 2]
      BY <1>4, <2>1
    <3> QED BY <2>1, <3>1
  <2>6. q[m + j] = text[f + (j - 1)]
    <3>1. q[m + 1 + (j - 1)] = text[f + (j - 1)]
      BY <1>1, <1>16, <2>1
    <3> QED BY <2>1, <3>1
  <2>7. PICK b : b = r[d + j] /\ b = q[m + j] /\ b \in Byte
    <3>1. d + j \in 1..Len(r)
      BY <1>4, <2>1
    <3>2. r[d + j] \in Byte
      BY <1>4, <3>1 DEF Text
    <3> QED BY <2>5, <2>6, <3>2
  <2>8. Alike(NextByte(h[d + (j - 1)], b), NextByte(g[m + (j - 1)], b), first)
    BY <2>2, <2>7, AlikeGoOn
  <2>9. Alike(h[d + j], g[m + j], first)
    BY <2>3, <2>4, <2>7, <2>8
  <2> QED BY <1>9, <2>1, <2>9
<1>12. \A j \in 0..k : j \in P
  BY <1>7, <1>10, <1>11, CountUp
<1>13. Alike(h[n], g[Len(q)], first)
  <2>1. k \in 0..k
    BY <1>7
  <2> QED BY <1>7, <1>9, <1>12, <2>1
<1>14. g[Len(q)].ret = first \o v
  BY <1>5, <1>13 DEF Alike
<1>15. DecodeResp(q) = g[Len(q)].ret
  <2>1. Len(q) > 0 /\ q[1] \in {"+", "-", ":", "*"}
    BY <1>2, <1>7
  <2>2. PICK w : Loops(w, q) /\ DecodeResp(q) = w[Len(q)].ret
    BY <2>1, DecodedBy
  <2>3. w[Len(q)] = g[Len(q)]
    BY <2>1, <2>2, OneLoop
  <2> QED BY <2>2, <2>3
<1> QED BY <1>14, <1>15, <1>17

-----------------------------------------------------------------------------
(* What HeartBeatSend sends.                                               *)

\* A stretch of a text.
LEMMA SubIs ==
  ASSUME NEW q \in Text, NEW a \in Nat, NEW b \in Nat, a >= 1, a <= b + 1, b <= Len(q)
  PROVE  /\ SubSeq(q, a, b) \in Text /\ Len(SubSeq(q, a, b)) = b - a + 1
         /\ \A i \in 1..b - a + 1 : SubSeq(q, a, b)[i] = q[a + i - 1]
BY DEF Text

\* Two commands, one behind the other.
LEMMA TwoSeqs ==
  ASSUME NEW a \in Seq(Text), NEW b \in Seq(Text)
  PROVE  /\ a \o b \in Seq(Text) /\ Len(a \o b) = Len(a) + Len(b)
         /\ \A i \in 1..Len(a) : (a \o b)[i] = a[i]
         /\ \A i \in 1..Len(b) : (a \o b)[Len(a) + i] = b[i]
OBVIOUS

\* The words of SYN, and its marks.
SynWords(offset) == <<<<"SYN">>, <<"times">>, ToDigits(offset)>>

Marks(d) == [i \in 1..d |-> <<"?">>]

\* A word of the program is a word.
LEMMA LetterIsWord ==
  ASSUME NEW b \in Letters
  PROVE  AWord(<<b>>) /\ <<b>> \in Text
BY BytesAre DEF AWord, Text

\* A mark takes seven bytes, those Cut takes away.
LEMMA MarkIs ==
  AWord(<<"?">>) /\ <<"?">> \in Text /\ Size(<<"?">>) = 7
<1>1. "?" \in Letters
  BY DEF Letters
<1>2. Len(<<"?">>) = 1
  OBVIOUS
<1>3. ToDigits(1) = <<Digit[1 + 1]>>
  BY DigitsAre
<1>4. Width(<<"?">>) = 1
  BY <1>2, <1>3 DEF Width
<1> QED BY <1>1, <1>2, <1>4, LetterIsWord DEF Size

\* The head of SYN and its marks.
LEMMA HeadIs ==
  ASSUME NEW offset \in Nat, NEW d \in Nat, NEW c, c = SynWords(offset) \o Marks(d)
  PROVE  /\ ACommand(c) /\ Len(c) = 3 + d /\ SubSeq(c, 1, 3) = SynWords(offset)
         /\ \A i \in 4..3 + d : c[i] = <<"?">>
         /\ SynWords(offset) \in Seq(Text)
<1>1. PICK n, s, m : n = ToDigits(offset) /\ s = SynWords(offset) /\ m = Marks(d)
  OBVIOUS
<1>2. AWord(n) /\ n \in Text
  <2>1. Numeral(n)
    BY <1>1, DigitsAre
  <2>2. \A i \in 1..Len(n) : n[i] \in Decimals
    BY <2>1 DEF Numeral
  <2>3. \A i \in 1..Len(n) : n[i] \notin Special
    BY <2>2, BytesAre
  <2> QED BY <2>1, <2>3 DEF Numeral, AWord
<1>3. AWord(<<"SYN">>) /\ <<"SYN">> \in Text /\ AWord(<<"times">>) /\ <<"times">> \in Text
  <2>1. "SYN" \in Letters /\ "times" \in Letters
    BY DEF Letters
  <2> QED BY <2>1, LetterIsWord
<1>4. PICK a, b : a = <<"SYN">> /\ b = <<"times">> /\ s = <<a, b, n>>
  BY <1>1 DEF SynWords
<1>5. s \in Seq(Text) /\ Len(s) = 3 /\ \A i \in 1..3 : AWord(s[i])
  <2>1. \A i \in 1..3 : i = 1 \/ i = 2 \/ i = 3
    OBVIOUS
  <2> QED BY <1>2, <1>3, <1>4, <2>1
<1>6. PICK w : w = <<"?">> /\ AWord(w) /\ w \in Text
  BY MarkIs
<1>7. m = [i \in 1..d |-> w]
  BY <1>1, <1>6 DEF Marks
<1>8. m \in Seq(Text) /\ Len(m) = d /\ \A i \in 1..d : m[i] = w
  BY <1>6, <1>7
<1>9. c = s \o m
  BY <1>1
<1>10. /\ c \in Seq(Text) /\ Len(c) = 3 + d
       /\ (\A i \in 1..3 : c[i] = s[i]) /\ \A i \in 1..d : c[3 + i] = m[i]
  <2>1. s \in Seq(Text) /\ m \in Seq(Text) /\ Len(s) = 3 /\ Len(m) = d
    BY <1>5, <1>8
  <2>2. /\ s \o m \in Seq(Text) /\ Len(s \o m) = Len(s) + Len(m)
        /\ \A i \in 1..Len(s) : (s \o m)[i] = s[i]
        /\ \A i \in 1..Len(m) : (s \o m)[Len(s) + i] = m[i]
    BY <2>1, TwoSeqs
  <2> QED BY <1>9, <2>1, <2>2
<1>11. ASSUME NEW i \in 1..3 + d PROVE c[i] = IF i <= 3 THEN s[i] ELSE w
  <2>1. CASE i <= 3
    <3>1. i \in 1..3
      BY <2>1
    <3> QED BY <1>10, <2>1, <3>1
  <2>2. CASE ~(i <= 3)
    <3>2. i - 3 \in 1..d /\ 3 + (i - 3) = i
      BY <2>2
    <3>1. c[i] = m[i - 3] /\ i - 3 \in 1..d
      BY <1>10, <3>2
    <3> QED BY <1>8, <2>2, <3>1
  <2> QED BY <2>1, <2>2
<1>12. \A i \in 1..Len(c) : AWord(c[i])
  <2> SUFFICES ASSUME NEW i \in 1..Len(c) PROVE AWord(c[i])
    OBVIOUS
  <2>1. i \in 1..3 + d /\ (i <= 3 => i \in 1..3)
    BY <1>10
  <2>2. c[i] = IF i <= 3 THEN s[i] ELSE w
    BY <1>11, <2>1
  <2> QED BY <1>5, <1>6, <2>1, <2>2
<1>13. ACommand(c)
  <2>1. c # <<>>
    BY <1>10
  <2> QED BY <1>10, <1>12, <2>1 DEF ACommand
<1>14. SubSeq(c, 1, 3) = s
  <2>1. PICK g : g = SubSeq(c, 1, 3)
    OBVIOUS
  <2>2. g \in Seq(Text) /\ Len(g) = 3 /\ \A i \in 1..3 : g[i] = c[i]
    BY <1>10, <2>1
  <2>3. \A i \in 1..3 : c[i] = s[i]
    <3>1. \A i \in 1..3 : i \in 1..3 + d /\ i <= 3
      OBVIOUS
    <3> QED BY <1>11, <3>1
  <2>4. \A i \in 1..3 : g[i] = s[i]
    BY <2>2, <2>3
  <2>5. s \in Seq(Text) /\ Len(s) = 3
    BY <1>5
  <2>6. g = s
    BY <2>2, <2>4, <2>5, SMTT(20)
  <2> QED BY <2>1, <2>6
<1>15. \A i \in 4..3 + d : c[i] = <<"?">>
  <2>1. \A i \in 4..3 + d : i \in 1..3 + d /\ ~(i <= 3)
    OBVIOUS
  <2> QED BY <1>6, <1>11, <2>1
<1> QED BY <1>1, <1>5, <1>10, <1>13, <1>14, <1>15

\* The marks' bulks are the last 7 d bytes of the head.
LEMMA MarksEnd ==
  ASSUME NEW offset \in Nat, NEW d \in Nat, NEW c, c = SynWords(offset) \o Marks(d),
         NEW p, NEW e, LaidOut(p, c, e)
  PROVE  Len(p) = e[3] + 7 * d /\ e[3] \in Nat /\ Len(p) \in Nat
<1>1. ACommand(c) /\ Len(c) = 3 + d /\ \A i \in 4..3 + d : c[i] = <<"?">>
  BY HeadIs
<1>2. \A k \in 0..3 + d : e[k] \in Nat
  BY <1>1 DEF LaidOut
<1>3. PICK o : o = e[3] /\ o \in Nat
  <2>1. 3 \in 0..3 + d
    OBVIOUS
  <2> QED BY <1>2, <2>1
<1>4. PICK P : P = {k \in 0..d : e[3 + k] = o + 7 * k}
  OBVIOUS
<1>5. 0 \in P
  <2>1. 3 + 0 = 3 /\ o + 7 * 0 = o /\ 0 \in 0..d
    BY <1>3
  <2> QED BY <1>3, <1>4, <2>1
<1>6. ASSUME NEW k \in 1..d, k - 1 \in P PROVE k \in P
  <2>1. /\ 3 + k \in 1..Len(c) /\ 3 + k \in 4..3 + d /\ (3 + k) - 1 = 3 + (k - 1) /\ k \in 0..d
    BY <1>1
  <2>2. e[3 + k] = e[(3 + k) - 1] + Size(c[3 + k])
    BY <2>1 DEF LaidOut
  <2>3. Size(c[3 + k]) = 7
    BY <1>1, <2>1, MarkIs
  <2>4. e[3 + (k - 1)] = o + 7 * (k - 1)
    BY <1>4, <1>6
  <2>5. e[3 + k] = o + 7 * (k - 1) + 7
    BY <2>1, <2>2, <2>3, <2>4
  <2>6. o + 7 * (k - 1) + 7 = o + 7 * k
    BY <1>3
  <2> QED BY <1>4, <2>1, <2>5, <2>6
<1>7. \A k \in 0..d : k \in P
  BY <1>5, <1>6, CountUp
<1>8. e[3 + d] = o + 7 * d
  <2>1. d \in 0..d
    OBVIOUS
  <2> QED BY <1>4, <1>7, <2>1
<1>9. Len(p) = e[3 + d]
  BY <1>1 DEF LaidOut
<1>10. o + 7 * d \in Nat
  BY <1>3
<1> QED BY <1>3, <1>8, <1>9, <1>10

\* Where HeartBeatSend cuts the text of an entry.
Dollars(text) == {i \in DOMAIN text : text[i] = "$"}

FirstOf(S) == CHOOSE i \in S : \A j \in S : i <= j

\* The text of a command has a first dollar.
LEMMA FirstDollar ==
  ASSUME NEW text \in Text, NEW x, NEW v, TextAt(text, x, v)
  PROVE  DollarAt(text, x, FirstOf(Dollars(text))) /\ Cardinality(Dollars(text)) \in Nat
<1>11. /\ x \in 1..Len(text) /\ (\A j \in 1..x - 1 : text[j] = "*")
       /\ v # <<>> /\ v = DecodeResp(<<"*">> \o SubSeq(text, x, Len(text)))
  BY DEF TextAt
<1>12. PICK dollars, f : dollars = Dollars(text) /\ f = FirstOf(dollars)
  OBVIOUS
<1>13. PICK l : l = Len(text)
  OBVIOUS
<1>1. l = Len(text) /\ l \in Nat /\ x \in Nat /\ x >= 1 /\ x <= l
  <2>1. l \in Nat
    BY <1>13 DEF Text
  <2> QED BY <1>11, <1>13, <2>1
<1>2. dollars = {i \in 1..l : text[i] = "$"}
  BY <1>1, <1>12 DEF Text, Dollars
<1>3. dollars # {}
  <2> SUFFICES ASSUME dollars = {} PROVE FALSE
    OBVIOUS
  <2>1. \A i \in 1..l : text[i] # "$"
    BY <1>2
  <2>2. PICK r, n : r = <<"*">> \o SubSeq(text, x, l) /\ n = l - x + 2
    OBVIOUS
  <2>3. l \in x..Len(text) /\ x \in 1..Len(text)
    BY <1>1
  <2>4. r \in Text /\ Len(r) = n /\ r[1] = "*" /\ \A i \in 2..n : r[i] = text[x + i - 2]
    <3>1. /\ <<"*">> \o SubSeq(text, x, l) \in Text
          /\ Len(<<"*">> \o SubSeq(text, x, l)) = l - x + 2
          /\ (<<"*">> \o SubSeq(text, x, l))[1] = "*"
          /\ \A i \in 2..l - x + 2 : (<<"*">> \o SubSeq(text, x, l))[i] = text[x + i - 2]
      BY <2>3, StarBehind
    <3> QED BY <2>2, <3>1
  <2>5. n \in Nat /\ n >= 2 /\ n \in 1..Len(r)
    BY <1>1, <2>2, <2>4
  <2>6. ASSUME NEW i \in 2..n PROVE r[i] # "$"
    <3>1. x + i - 2 \in 1..l
      BY <1>1, <2>2, <2>5
    <3> QED BY <2>1, <2>4, <3>1
  <2>7. PICK g : Loops(g, r) /\ DecodeResp(r) = g[Len(r)].ret
    <3>1. Len(r) > 0 /\ r[1] \in {"+", "-", ":", "*"}
      BY <2>4, <2>5
    <3> QED BY <2>4, <3>1, DecodedBy
  <2>8. g[n].ret = <<>>
    BY <2>4, <2>5, <2>6, <2>7, SilentBefore
  <2> QED BY <1>1, <1>11, <2>2, <2>4, <2>7, <2>8
<1>4. dollars \in SUBSET Nat
  BY <1>1, <1>2
<1>5. f \in dollars /\ \A j \in dollars : f <= j
  <2>1. \E i \in dollars : \A j \in dollars : i <= j
    BY <1>3, <1>4, LeastOf
  <2> QED BY <1>12, <2>1 DEF FirstOf
<1>6. f \in 1..l /\ text[f] = "$" /\ f \in Nat
  BY <1>1, <1>2, <1>5
<1>7. ~(f < x)
  <2> SUFFICES ASSUME f < x PROVE FALSE
    OBVIOUS
  <2>1. f \in 1..x - 1
    BY <1>1, <1>6
  <2> QED BY <1>6, <1>11, <2>1
<1>8. ASSUME NEW i \in 1..f - 1 PROVE text[i] # "$"
  <2>1. i \in 1..l /\ ~(f <= i)
    BY <1>1, <1>6
  <2> QED BY <1>2, <1>5, <2>1
<1>9. Cardinality(dollars) \in Nat
  <2>1. IsFiniteSet(1..l)
    BY <1>1, FS_Interval
  <2>2. dollars \subseteq 1..l
    BY <1>2
  <2> QED BY <2>1, <2>2, FS_Subset, FS_CardinalityType
<1>10. f \in x..Len(text)
  BY <1>1, <1>6, <1>7
<1> QED BY <1>6, <1>8, <1>9, <1>10, <1>11, <1>12 DEF DollarAt

\* What is sent of an entry decodes to SYN and the words of the entry.
LEMMA Replays ==
  ASSUME NEW i \in Nat, NEW text, text = oldCmds[i], text \in Text, NEW v, TextOf(text, v),
         NEW wire, wire = HeartBeatSend(i) \o EncodeResp(<<<<"SYN">>>>)
  PROVE  DecodeResp(<<"*">> \o Strtok(wire)[1]) = SynWords(i) \o v
<1>27. PICK x : TextAt(text, x, v)
  BY DEF TextOf
<1>1. /\ x \in 1..Len(text) /\ (\A j \in 1..x - 1 : text[j] = "*")
      /\ \A j \in x..Len(text) : text[j] # "*"
      /\ v = DecodeResp(<<"*">> \o SubSeq(text, x, Len(text)))
  BY <1>27 DEF TextAt
<1>25. PICK l : l = Len(text)
  OBVIOUS
<1>2. l = Len(text) /\ l \in Nat /\ x \in Nat /\ x >= 1 /\ x <= l
  <2>1. l \in Nat
    BY <1>25 DEF Text
  <2>2. x \in 1..l
    BY <1>1, <1>25
  <2> QED BY <1>25, <2>1, <2>2
<1>3. PICK f, d : f = FirstOf(Dollars(text)) /\ d = Cardinality(Dollars(text))
  OBVIOUS
<1>28. DollarAt(text, x, f) /\ d \in Nat
  BY <1>3, <1>27, FirstDollar
<1>4. f \in x..l /\ text[f] = "$" /\ (\A j \in 1..f - 1 : text[j] # "$") /\ d \in Nat
  BY <1>2, <1>28 DEF DollarAt
<1>5. PICK c, p : c = SynWords(i) \o Marks(d) /\ p = EncodeResp(c)
  OBVIOUS
<1>6. ACommand(c) /\ Len(c) = 3 + d /\ SubSeq(c, 1, 3) = SynWords(i) /\ SynWords(i) \in Seq(Text)
  BY <1>4, <1>5, HeadIs
<1>7. PICK e : LaidOut(p, c, e)
  BY <1>5, <1>6, CommandIs, LaysOut
<1>8. p \in Text /\ Len(p) \in Nat /\ p[1] = "*" /\ \A j \in 2..Len(p) : p[j] # "*"
  BY <1>6, <1>7, OneStar
<1>9. PICK m : m = e[3] /\ m \in Nat /\ Len(p) = m + 7 * d
  <2>1. d \in Nat
    BY <1>4
  <2>2. Len(p) = e[3] + 7 * d /\ e[3] \in Nat
    BY <1>5, <1>7, <2>1, MarksEnd
  <2> QED BY <2>2
<1>10. m >= 4 /\ m <= Len(p)
  <2>1. 0 \in 0..3 /\ 3 \in 0..3 + d /\ 0 < 3 /\ 0 \in 0..3 + d
    BY <1>4
  <2>2. e[0] < e[3]
    BY <1>6, <1>7, <2>1, EndsRise
  <2>3. e[0] \in Nat /\ e[0] >= 4
    BY <1>6, <1>7, <2>1 DEF LaidOut
  <2> QED BY <1>4, <1>9, <2>2, <2>3
<1>11. PICK head, tail, hb : head = SubSeq(p, 1, m) /\ tail = SubSeq(text, f, l)
         /\ hb = head \o tail
  OBVIOUS
<1>12. HeartBeatSend(i) = hb
  <2>1. Cut(p, d) = head
    <3>1. Len(p) - 7 * d = m
      BY <1>4, <1>9
    <3> QED BY <1>11, <3>1 DEF Cut
  <2>2. HeartBeatSend(i) = Cut(EncodeResp(SynWords(i) \o Marks(d)), d) \o SubSeq(text, f, Len(text))
    BY <1>3 DEF HeartBeatSend, SynWords, Marks, Dollars, FirstOf
  <2> QED BY <1>2, <1>5, <1>11, <2>1, <2>2
<1>13. head \in Text /\ Len(head) = m /\ \A j \in 1..m : head[j] = p[j]
  BY <1>8, <1>9, <1>10, <1>11 DEF Text
<1>24. f \in Nat /\ f >= 1 /\ f <= l /\ x <= f
  <2>1. f \in x..l
    BY <1>4
  <2> QED BY <1>2, <2>1
<1>26. PICK k : k = l - f + 1
  OBVIOUS
<1>14. k = l - f + 1 /\ k \in Nat /\ f \in Nat /\ f >= 1 /\ f <= l
  BY <1>2, <1>24, <1>26
<1>15. tail \in Text /\ Len(tail) = k /\ \A j \in 1..k : tail[j] = text[f + j - 1]
  <2>1. f <= l + 1 /\ l <= Len(text)
    BY <1>2, <1>14
  <2>2. /\ SubSeq(text, f, l) \in Text /\ Len(SubSeq(text, f, l)) = l - f + 1
        /\ \A j \in 1..l - f + 1 : SubSeq(text, f, l)[j] = text[f + j - 1]
    BY <1>2, <1>14, <2>1, SubIs
  <2> QED BY <1>11, <1>14, <2>2
<1>16. Joined(head, m, tail, k, hb)
  BY <1>11, <1>13, <1>15, JoinsTo
<1>17. /\ hb \in Text /\ Len(hb) = m + k /\ (\A j \in 1..m : hb[j] = p[j])
       /\ \A j \in 1..k : hb[m + j] = text[f + j - 1]
  BY <1>13, <1>15, <1>16 DEF Joined
<1>18. hb[1] = "*" /\ \A j \in 2..m + k : hb[j] # "*"
  <2>1. 1 \in 1..m
    BY <1>9, <1>10
  <2>2. ASSUME NEW j \in 2..m + k PROVE hb[j] # "*"
    <3>1. CASE j <= m
      <4>1. j \in 1..m /\ j \in 2..Len(p)
        BY <1>8, <1>9, <1>10, <3>1
      <4> QED BY <1>8, <1>17, <4>1
    <3>2. CASE ~(j <= m)
      <4>1. j - m \in 1..k /\ m + (j - m) = j /\ f + (j - m) - 1 \in x..l
        <5>1. j \in Nat /\ j > m /\ j <= m + k
          BY <1>9, <1>14, <3>2
        <5>2. m \in Nat /\ l \in Nat /\ x \in Nat /\ f \in Nat /\ x <= f /\ k = l - f + 1
          BY <1>2, <1>9, <1>14, <1>24
        <5>3. PICK h : h = j - m
          OBVIOUS
        <5>4. h \in 1..k /\ m + h = j
          BY <1>14, <5>1, <5>2, <5>3
        <5>5. f + h - 1 \in x..l
          BY <5>2, <5>4
        <5> QED BY <5>3, <5>4, <5>5
      <4>2. hb[m + (j - m)] = text[f + (j - m) - 1]
        BY <1>17, <4>1
      <4> QED BY <1>1, <1>2, <4>1, <4>2
    <3> QED BY <3>1, <3>2
  <2> QED BY <1>8, <1>17, <2>1, <2>2
<1>19. <<"*">> \o Strtok(wire)[1] = hb
  <2>1. PICK y, n : y = EncodeResp(<<<<"SYN">>>>) /\ n = m + k
    OBVIOUS
  <2>2. y \in Text /\ Len(y) \in Nat /\ Len(y) > 3 /\ y[1] = "*"
    <3>1. ACommand(<<<<"SYN">>>>)
      <4>1. "SYN" \in Letters
        BY DEF Letters
      <4>2. PICK w : w = <<"SYN">> /\ AWord(w) /\ w \in Text
        BY <4>1, LetterIsWord
      <4>3. ACommand(<<w>>)
        BY <4>2 DEF ACommand
      <4> QED BY <4>2, <4>3
    <3> QED BY <2>1, <3>1, PacketIs
  <2>3. n \in Nat /\ n >= 4 /\ Len(hb) = n
    BY <1>9, <1>10, <1>14, <1>17, <2>1
  <2>4. Joined(hb, n, y, Len(y), wire)
    BY <1>12, <1>17, <2>1, <2>2, <2>3, JoinsTo
  <2>5. /\ wire \in Text /\ Len(wire) = n + Len(y) /\ (\A j \in 1..n : wire[j] = hb[j])
        /\ \A j \in 1..Len(y) : wire[n + j] = y[j]
    BY <2>4 DEF Joined
  <2>6. wire[n + 1] = "*"
    <3>1. 1 \in 1..Len(y)
      BY <2>2
    <3> QED BY <2>2, <2>5, <3>1
  <2>7. wire[1] = "*" /\ \A j \in 2..n : wire[j] # "*"
    <3>1. 1 \in 1..n /\ \A j \in 2..n : j \in 1..n
      BY <2>3
    <3> QED BY <1>18, <2>1, <2>5, <3>1
  <2>8. n \in 2..Len(wire)
    BY <2>2, <2>3, <2>5
  <2>9. Strtok(wire)[1] = SubSeq(wire, 2, n)
    BY <2>5, <2>6, <2>7, <2>8, FirstPiece
  <2>10. PICK r : r = <<"*">> \o SubSeq(wire, 2, n)
    OBVIOUS
  <2>11. r \in Text /\ Len(r) = n /\ r[1] = "*" /\ \A j \in 2..n : r[j] = wire[j]
    <3>1. 2 \in 1..Len(wire) /\ n \in 2..Len(wire) /\ n - 2 + 2 = n /\ \A j \in 2..n : 2 + j - 2 = j
      BY <2>3, <2>8
    <3>3. wire \in Text
      BY <2>5
    <3>2. /\ r \in Text /\ Len(r) = n - 2 + 2 /\ r[1] = "*"
          /\ \A j \in 2..n - 2 + 2 : r[j] = wire[2 + j - 2]
      BY <2>10, <3>1, <3>3, StarBehind, ZenonT(40)
    <3> QED BY <3>1, <3>2
  <2>12. \A j \in 1..n : r[j] = hb[j]
    <3> SUFFICES ASSUME NEW j \in 1..n PROVE r[j] = hb[j]
      OBVIOUS
    <3>1. j = 1 \/ j \in 2..n
      BY <2>3
    <3> QED BY <1>18, <2>5, <2>11, <3>1
  <2>13. r = hb
    BY <1>17, <2>3, <2>11, <2>12, SMTT(20) DEF Text
  <2> QED BY <2>9, <2>10, <2>13
<1>20. PICK g : Loops(g, hb)
  <2>1. Len(hb) > 0 /\ hb[1] \in {"+", "-", ":", "*"}
    BY <1>9, <1>10, <1>14, <1>17, <1>18
  <2> QED BY <1>17, <2>1, DecodedBy
<1>21. m \in 1..Len(hb)
  BY <1>9, <1>10, <1>14, <1>17
<1>22. ~g[m].dollar /\ ~g[m].str /\ g[m].ret = SynWords(i)
  <2>1. PICK b, h : b = SubSeq(hb, 1, m) /\ h = [j \in 1..m |-> g[j]]
    OBVIOUS
  <2>2. b \in Text /\ Len(b) = m /\ Loops(h, b)
    BY <1>17, <1>18, <1>20, <1>21, <2>1, LoopBegins
  <2>3. \A j \in 1..m : b[j] = p[j]
    <3>1. \A j \in 1..m : b[j] = hb[j]
      BY <1>9, <1>17, <1>21, <2>1 DEF Text
    <3> QED BY <1>17, <3>1
  <2>4. PartOf(b, p, 1, m)
    <3>1. 1 \in Nat /\ m \in 1..Len(p) /\ Len(b) = m - 1 + 1 /\ 1 \in 1..m
            /\ \A j \in 2..m : j \in 1..m /\ 1 + j - 1 = j
      BY <1>8, <1>9, <1>10, <2>2
    <3> QED BY <1>8, <2>2, <2>3, <3>1 DEF PartOf
  <2>5. 3 \in 1..Len(c)
    BY <1>4, <1>6
  <2>6. Behind(h[Len(b)], c, 1, 3)
    BY <1>6, <1>7, <1>9, <2>2, <2>4, <2>5, BulksRead
  <2>7. h[m] = g[m]
    <3>1. m \in 1..m
      BY <1>9, <1>10
    <3> QED BY <2>1, <3>1
  <2> QED BY <1>6, <2>2, <2>6, <2>7 DEF Behind
<1>23. DecodeResp(hb) = SynWords(i) \o v
  <2>3. Len(hb) = m + Len(text) - f + 1
    <3>1. PICK n : n = Len(hb)
      OBVIOUS
    <3>2. n = m + k /\ m \in Nat /\ f \in Nat /\ l \in Nat /\ k = l - f + 1
      BY <1>2, <1>9, <1>14, <1>17, <3>1
    <3>3. n = m + l - f + 1
      BY <3>2
    <3> QED BY <1>2, <3>1, <3>3
  <2>4. ASSUME NEW j \in 0..Len(text) - f PROVE hb[m + 1 + j] = text[f + j]
    <3>1. j + 1 \in 1..k /\ m + (j + 1) = m + 1 + j /\ f + (j + 1) - 1 = f + j
      <4>1. m \in Nat /\ f \in Nat /\ l \in Nat /\ k = l - f + 1 /\ j \in 0..l - f
        BY <1>2, <1>9, <1>14
      <4> QED BY <4>1
    <3>2. hb[m + (j + 1)] = text[f + (j + 1) - 1]
      BY <1>17, <3>1
    <3> QED BY <3>1, <3>2
  <2>5. TailAt(text, f, hb, m)
    BY <2>3, <2>4 DEF TailAt
  <2>6. Idle(g[m], SynWords(i))
    BY <1>22 DEF Idle
  <2>7. DecodeResp(hb) = SynWords(i) \o DecodeResp(<<"*">> \o SubSeq(text, x, Len(text)))
    BY <1>6, <1>17, <1>18, <1>20, <1>21, <1>28, <2>5, <2>6, TailDecodes, ZenonT(40)
  <2> QED BY <1>1, <2>7
<1> QED BY <1>19, <1>23

\* What a follower is sent of an entry decodes to the command the leader ran for it,
\* also when a read had cut its text.
THEOREM EntriesReplay == StreamSpec => []EntryReplays
<1>1. StreamFits => EntryReplays
  <2> SUFFICES ASSUME StreamFits, NEW i \in DOMAIN logged, logged[i].alone,
                      NEW wire, wire = HeartBeatSend(i) \o EncodeResp(<<<<"SYN">>>>)
               PROVE  DecodeResp(<<"*">> \o Strtok(wire)[1])
                        = <<<<"SYN">>, <<"times">>, ToDigits(i)>> \o logged[i].argv
    BY DEF EntryReplays
  <2>1. LogFits(oldCmds, logged) /\ logged \in Seq(Entry) /\ oldCmds \in Seq(Text)
    BY DEF StreamFits, TypesAre
  <2>2. i \in Nat /\ i \in 1..Len(logged) /\ i \in 1..Len(oldCmds)
    BY <2>1 DEF LogFits
  <2>3. PICK text, v : text = oldCmds[i] /\ v = logged[i].argv
    OBVIOUS
  <2>4. text \in Text /\ TextOf(text, v)
    BY <2>1, <2>2, <2>3 DEF LogFits
  <2>5. DecodeResp(<<"*">> \o Strtok(wire)[1]) = SynWords(i) \o v
    BY <2>2, <2>3, <2>4, Replays
  <2> QED BY <2>3, <2>5 DEF SynWords
<1> QED BY <1>1, StreamHolds, PTL

-----------------------------------------------------------------------------
(* The values before a command, and its answer.                              *)

\* The last of a set of numbers.
LastOf(S) == CHOOSE j \in S : \A h \in S : h <= j

\* It exists.
LEMMA LastIs ==
  ASSUME NEW n \in Nat, NEW S \in SUBSET (1..n), S # {}
  PROVE  LastOf(S) \in S /\ \A h \in S : h <= LastOf(S)
<1>1. PICK T : T = {n - j : j \in S}
  OBVIOUS
<1>2. T \in SUBSET Nat /\ T # {}
  <2>1. ASSUME NEW i \in T PROVE i \in Nat
    <3>1. PICK j \in S : i = n - j
      BY <1>1
    <3>2. j \in 1..n
      OBVIOUS
    <3> QED BY <3>1, <3>2
  <2>2. PICK j : j \in S
    OBVIOUS
  <2>3. n - j \in T
    BY <1>1, <2>2
  <2> QED BY <2>1, <2>3
<1>3. PICK m \in T : \A i \in T : m <= i
  BY <1>2, LeastOf
<1>4. PICK j \in S : m = n - j
  BY <1>1
<1>5. ASSUME NEW h \in S PROVE h <= j
  <2>1. n - h \in T /\ h \in Nat /\ j \in Nat
    BY <1>1
  <2>2. n - j <= n - h
    BY <1>3, <1>4, <2>1
  <2> QED BY <2>1, <2>2
<1> QED BY <1>5 DEF LastOf

\* The writes to k before the i-th line, the value they leave, and the answer due.
WritesTo(lines, i, k) == {j \in 1..i - 1 : Writes(lines[j], k)}

ValueIn(lines, i, k) ==
  IF WritesTo(lines, i, k) = {} THEN <<>> ELSE Written(lines[LastOf(WritesTo(lines, i, k))])

ExpectedIn(lines, i) == AnswerOf([k \in Words |-> ValueIn(lines, i, k)], lines[i])

\* A line more changes no value before it,
LEMMA SameValue ==
  ASSUME NEW lines \in Seq(Line), NEW line \in Line, NEW i \in 1..Len(lines) + 1, NEW k
  PROVE  ValueIn(Append(lines, line), i, k) = ValueIn(lines, i, k)
<1>1. PICK more, n : more = Append(lines, line) /\ n = Len(lines)
  OBVIOUS
<1>2. n \in Nat /\ i \in Nat /\ i - 1 \in Nat /\ i - 1 <= n
        /\ \A j \in 1..i - 1 : more[j] = lines[j]
  BY <1>1
<1>3. WritesTo(more, i, k) = WritesTo(lines, i, k)
  BY <1>2 DEF WritesTo
<1>4. PICK S : S = WritesTo(lines, i, k)
  OBVIOUS
<1>5. S \in SUBSET (1..i - 1)
  BY <1>4 DEF WritesTo
<1>6. CASE S = {}
  BY <1>1, <1>3, <1>4, <1>6 DEF ValueIn
<1>7. CASE S # {}
  <2>1. LastOf(S) \in 1..i - 1
    BY <1>2, <1>5, <1>7, LastIs
  <2>2. more[LastOf(S)] = lines[LastOf(S)]
    BY <1>2, <2>1
  <2> QED BY <1>1, <1>3, <1>4, <1>7, <2>2 DEF ValueIn
<1> QED BY <1>6, <1>7

\* and no answer.
LEMMA SameExpected ==
  ASSUME NEW lines \in Seq(Line), NEW line \in Line, NEW i \in 1..Len(lines)
  PROVE  ExpectedIn(Append(lines, line), i) = ExpectedIn(lines, i)
<1>1. i \in 1..Len(lines) + 1 /\ Append(lines, line)[i] = lines[i]
  OBVIOUS
<1>2. \A k \in Words : ValueIn(Append(lines, line), i, k) = ValueIn(lines, i, k)
  BY <1>1, SameValue
<1>3. [k \in Words |-> ValueIn(Append(lines, line), i, k)] = [k \in Words |-> ValueIn(lines, i, k)]
  BY <1>2
<1> QED BY <1>1, <1>3 DEF ExpectedIn

\* A command changes the values it writes.
LEMMA NextValue ==
  ASSUME NEW lines \in Seq(Line), NEW i \in 1..Len(lines), NEW k
  PROVE  ValueIn(lines, i + 1, k) = IF Writes(lines[i], k) THEN Written(lines[i]) ELSE ValueIn(lines, i, k)
<1>1. PICK S, T : S = WritesTo(lines, i, k) /\ T = WritesTo(lines, i + 1, k)
  OBVIOUS
<1>2. i \in Nat /\ i >= 1 /\ (i + 1) - 1 = i
  OBVIOUS
<1>3. \A j : j \in T <=> j \in 1..i /\ Writes(lines[j], k)
  BY <1>1, <1>2 DEF WritesTo
<1>4. \A j : j \in S <=> j \in 1..i - 1 /\ Writes(lines[j], k)
  BY <1>1 DEF WritesTo
<1>5. CASE Writes(lines[i], k)
  <2>1. i \in T
    BY <1>2, <1>3, <1>5
  <2>2. T \in SUBSET (1..i)
    BY <1>3
  <2>3. LastOf(T) \in T /\ \A h \in T : h <= LastOf(T)
    BY <1>2, <2>1, <2>2, LastIs
  <2>4. LastOf(T) \in 1..i /\ i <= LastOf(T)
    BY <2>1, <2>2, <2>3
  <2>5. LastOf(T) = i
    BY <1>2, <2>4
  <2>6. T # {}
    BY <2>1
  <2>7. ValueIn(lines, i + 1, k) = Written(lines[LastOf(T)])
    BY <1>1, <2>6 DEF ValueIn
  <2> QED BY <1>5, <2>5, <2>7
<1>6. CASE ~Writes(lines[i], k)
  <2>1. S = T
    <3>1. \A j \in 1..i : j \in 1..i - 1 \/ j = i
      BY <1>2
    <3>2. \A j \in 1..i - 1 : j \in 1..i
      BY <1>2
    <3>3. \A j : j \in T <=> j \in S
      BY <1>3, <1>4, <1>6, <3>1, <3>2
    <3> QED BY <3>3
  <2> QED BY <1>1, <1>6, <2>1 DEF ValueIn
<1> QED BY <1>5, <1>6

\* The property's words for it.
LEMMA ValueBeforeIs ==
  ASSUME NEW i, NEW k
  PROVE  ValueBefore(i, k) = ValueIn(entered, i, k)
BY DEF ValueBefore, ValueIn, WritesTo, Writes, Written, LastOf

\* The property states the answer due.
LEMMA ExpectedIs ==
  ASSUME NEW i, entered[i] \in Line
  PROVE  Expected(i) = ExpectedIn(entered, i)
<1>1. PICK c, s : c = entered[i] /\ s = [k \in Words |-> ValueIn(entered, i, k)]
  OBVIOUS
<1>2. /\ Arguments(c) \subseteq Words /\ Len(c) \in Nat /\ \A j \in 1..Len(c) : c[j] \in Words
  BY <1>1, LineIsClean, CleanIs
<1>3. \A k \in Words : s[k] = ValueBefore(i, k)
  BY <1>1, ValueBeforeIs
<1>4. ExpectedIn(entered, i) = AnswerOf(s, c)
  BY <1>1 DEF ExpectedIn
<1>5. CASE (c[1] = Set /\ IsWrite(c)) \/ c[1] = FlushDb \/ c[1] \in Shows
  <2>1. Expected(i) = <<<<"OK">>>>
    BY <1>1, <1>5, NamesDiffer DEF Expected
  <2>2. AnswerOf(s, c) = <<<<"OK">>>>
    BY <1>5, NamesDiffer DEF AnswerOf
  <2> QED BY <1>4, <2>1, <2>2
<1>6. CASE c[1] = Del /\ IsWrite(c)
  <2>1. {k \in Arguments(c) : ValueBefore(i, k) # <<>>} = {k \in Arguments(c) : s[k] # <<>>}
    BY <1>2, <1>3
  <2>2. Expected(i) = <<ToDigits(Cardinality({k \in Arguments(c) : ValueBefore(i, k) # <<>>}))>>
    BY <1>1, <1>6, NamesDiffer DEF Expected
  <2>3. AnswerOf(s, c) = <<ToDigits(Cardinality({k \in Arguments(c) : s[k] # <<>>}))>>
    BY <1>6, NamesDiffer DEF AnswerOf
  <2> QED BY <1>4, <2>1, <2>2, <2>3
<1>7. CASE c[1] = Get /\ Len(c) = 2
  <2>1. s[c[2]] = ValueBefore(i, c[2])
    <3>1. 2 \in 1..Len(c)
      BY <1>7
    <3> QED BY <1>2, <1>3, <3>1
  <2>2. Expected(i) = IF ValueBefore(i, c[2]) # <<>> THEN ValueBefore(i, c[2]) ELSE <<<<"nil">>>>
    BY <1>1, <1>7, NamesDiffer DEF Expected
  <2>3. AnswerOf(s, c) = IF s[c[2]] # <<>> THEN s[c[2]] ELSE <<<<"nil">>>>
    BY <1>7, NamesDiffer DEF AnswerOf
  <2> QED BY <1>4, <2>1, <2>2, <2>3
<1>8. CASE c[1] \notin {Set, Get, Del, FlushDb} \cup Shows
  <2>1. Expected(i) = <<<<"MISSING">>>>
    BY <1>1, <1>8 DEF Expected
  <2>2. AnswerOf(s, c) = <<<<"MISSING">>>>
    BY <1>8 DEF AnswerOf
  <2> QED BY <1>4, <2>1, <2>2
<1>9. CASE c[1] \in {Set, Get, Del} /\ ~IsWrite(c) /\ ~(c[1] = Get /\ Len(c) = 2)
  <2>1. Expected(i) = <<<<"ERROR">>>>
    BY <1>1, <1>9, NamesDiffer DEF Expected
  <2>2. AnswerOf(s, c) = <<<<"ERROR">>>>
    BY <1>9, NamesDiffer DEF AnswerOf
  <2> QED BY <1>4, <2>1, <2>2
<1>10. c[1] = Get => ~IsWrite(c)
  BY NamesDiffer DEF IsWrite
<1> QED BY <1>5, <1>6, <1>7, <1>8, <1>9, <1>10

-----------------------------------------------------------------------------
(* How many answers are due.                                                 *)

DueIn(lines, i) == Cardinality({j \in 1..i : Answered(lines[j])})

\* One more for every command that asks for one,
LEMMA DueIs ==
  ASSUME NEW lines, NEW i \in Nat
  PROVE  /\ DueIn(lines, i) \in Nat /\ DueIn(lines, 0) = 0
         /\ DueIn(lines, i + 1) = DueIn(lines, i) + IF Answered(lines[i + 1]) THEN 1 ELSE 0
<1>1. PICK S, T : S = {j \in 1..i : Answered(lines[j])} /\ T = {j \in 1..i + 1 : Answered(lines[j])}
  OBVIOUS
<1>2. S \subseteq 1..i /\ IsFiniteSet(1..i)
  BY <1>1, FS_Interval
<1>3. IsFiniteSet(S) /\ Cardinality(S) \in Nat
  BY <1>2, FS_Subset, FS_CardinalityType
<1>4. i + 1 \notin S
  BY <1>2
<1>5. \A j : j \in 1..i + 1 <=> j \in 1..i \/ j = i + 1
  OBVIOUS
<1>6. Answered(lines[i + 1]) => Cardinality(T) = Cardinality(S) + 1
  <2> SUFFICES ASSUME Answered(lines[i + 1]) PROVE Cardinality(T) = Cardinality(S) + 1
    OBVIOUS
  <2>1. T = S \cup {i + 1}
    BY <1>1, <1>5
  <2> QED BY <1>3, <1>4, <2>1, FS_AddElement
<1>7. ~Answered(lines[i + 1]) => T = S
  BY <1>1, <1>5
<1>8. DueIn(lines, i) \in Nat
  BY <1>1, <1>3 DEF DueIn
<1>9. DueIn(lines, 0) = 0
  <2>1. {j \in 1..0 : Answered(lines[j])} = {}
    OBVIOUS
  <2> QED BY <2>1, FS_EmptySet DEF DueIn
<1>10. DueIn(lines, i) = Cardinality(S) /\ DueIn(lines, i + 1) = Cardinality(T)
  BY <1>1 DEF DueIn
<1>11. DueIn(lines, i + 1) = DueIn(lines, i) + IF Answered(lines[i + 1]) THEN 1 ELSE 0
  <2>1. CASE Answered(lines[i + 1])
    BY <1>6, <1>10, <2>1
  <2>2. CASE ~Answered(lines[i + 1])
    BY <1>3, <1>7, <1>10, <2>2
  <2> QED BY <2>1, <2>2
<1> QED BY <1>8, <1>9, <1>11

\* never fewer,
LEMMA DueGrows ==
  ASSUME NEW lines, NEW n \in Nat, NEW i \in 1..n
  PROVE  DueIn(lines, i) <= DueIn(lines, n)
<1>1. PICK S, T : S = {j \in 1..i : Answered(lines[j])} /\ T = {j \in 1..n : Answered(lines[j])}
  OBVIOUS
<1>2. S \subseteq T /\ T \subseteq 1..n /\ IsFiniteSet(1..n)
  BY <1>1, FS_Interval
<1>3. IsFiniteSet(T)
  BY <1>2, FS_Subset
<1>4. Cardinality(S) <= Cardinality(T)
  BY <1>2, <1>3, FS_Subset
<1> QED BY <1>1, <1>4 DEF DueIn

\* the command itself counts,
LEMMA DueCounts ==
  ASSUME NEW lines, NEW i \in Nat, i >= 1, Answered(lines[i])
  PROVE  DueIn(lines, i) \in Nat /\ DueIn(lines, i) >= 1
<1>1. PICK h : h = i - 1 /\ h \in Nat /\ h + 1 = i
  OBVIOUS
<1>2. DueIn(lines, h) \in Nat /\ DueIn(lines, h + 1) = DueIn(lines, h) + 1
  BY <1>1, DueIs
<1> QED BY <1>1, <1>2

\* and a line more changes nothing before it.
LEMMA SameDue ==
  ASSUME NEW lines \in Seq(Line), NEW line \in Line, NEW i \in 0..Len(lines)
  PROVE  DueIn(Append(lines, line), i) = DueIn(lines, i)
<1>1. \A j \in 1..i : Append(lines, line)[j] = lines[j]
  OBVIOUS
<1>2. {j \in 1..i : Answered(Append(lines, line)[j])} = {j \in 1..i : Answered(lines[j])}
  BY <1>1
<1> QED BY <1>2 DEF DueIn

-----------------------------------------------------------------------------
(* The answers of tidy reads.                                                *)

\* Answers on the way, and still to be written.
Pending(bytes) == IF bytes = <<>> THEN 0 ELSE 1

Writing(ar) == IF ar = "out" THEN 1 ELSE 0

\* The answer to the i-th line, when it is printed, on the way or the one to be
\* written, which is the d-th.
Replied(lines, i, d, pr, tr, ar, bw) ==
  /\ DueIn(lines, i) <= Len(pr) => pr[DueIn(lines, i)] = ExpectedIn(lines, i)
  /\ tr # <<>> /\ DueIn(lines, i) = Len(pr) + 1 => DecodeResp(tr) = ExpectedIn(lines, i)
  /\ ar = "out" /\ DueIn(lines, i) = d => DecodeResp(bw) = ExpectedIn(lines, i)

\* n commands of the lines were run; the answers due are printed (pr), on the way
\* (tr) or still to be written (bw, when ar says so).
Fit(lines, n, s, pr, tr, ar, bw) ==
  /\ n \in Nat /\ n <= Len(lines)
  /\ \A k \in Words : s[k] = ValueIn(lines, n + 1, k)
  /\ ar \in {"in", "out"} /\ (ar = "out" => bw # <<>>)
  /\ DueIn(lines, n) = Len(pr) + Pending(tr) + Writing(ar)
  /\ \A i \in 1..n : Answered(lines[i]) => Replied(lines, i, DueIn(lines, n), pr, tr, ar, bw)

\* The inductive invariant of AnswersAreRight.
AnswersDue == tidy => Fit(entered, Len(ran), store, printed, toRouter, armed, bufferWrite)

\* It is kept by a line more,
LEMMA FitTyped ==
  ASSUME NEW lines \in Seq(Line), NEW line \in Line, NEW n, NEW s, NEW pr \in Seq(Seq(Text)),
         NEW tr, NEW ar, NEW bw,
         Fit(lines, n, s, pr, tr, ar, bw)
  PROVE  Fit(Append(lines, line), n, s, pr, tr, ar, bw)
<1>1. PICK more, m : more = Append(lines, line) /\ m = Len(lines)
  OBVIOUS
<1>2. m \in Nat /\ n \in Nat /\ n <= m /\ Len(more) = m + 1
  BY <1>1 DEF Fit
<1>3. \A i \in 1..m : ExpectedIn(more, i) = ExpectedIn(lines, i) /\ more[i] = lines[i]
  BY <1>1, SameExpected
<1>4. \A i \in 0..m : DueIn(more, i) = DueIn(lines, i)
  BY <1>1, SameDue
<1>5. ASSUME NEW k \in Words PROVE s[k] = ValueIn(more, n + 1, k)
  <2>1. n + 1 \in 1..m + 1
    BY <1>2
  <2>2. ValueIn(more, n + 1, k) = ValueIn(lines, n + 1, k)
    BY <1>1, <2>1, SameValue
  <2> QED BY <2>2 DEF Fit
<1>6. DueIn(more, n) = DueIn(lines, n)
  BY <1>2, <1>4
<1>7. ASSUME NEW i \in 1..n, Answered(more[i])
      PROVE  Replied(more, i, DueIn(more, n), pr, tr, ar, bw)
  <2>1. i \in 1..m /\ i \in 0..m
    BY <1>2
  <2>2. more[i] = lines[i] /\ ExpectedIn(more, i) = ExpectedIn(lines, i)
          /\ DueIn(more, i) = DueIn(lines, i)
    BY <1>3, <1>4, <2>1
  <2>3. Replied(lines, i, DueIn(lines, n), pr, tr, ar, bw)
    BY <1>7, <2>2 DEF Fit
  <2> QED BY <1>6, <2>2, <2>3 DEF Replied
<1>8. /\ DueIn(more, n) = Len(pr) + Pending(tr) + Writing(ar)
      /\ ar \in {"in", "out"} /\ (ar = "out" => bw # <<>>)
  BY <1>6 DEF Fit
<1>9. n <= Len(more)
  BY <1>2
<1> QED BY <1>1, <1>2, <1>5, <1>7, <1>8, <1>9 DEF Fit

\* by the round of a command,
LEMMA FitRead ==
  ASSUME NEW lines \in Seq(Line), NEW n, NEW st, NEW pr \in Seq(Seq(Text)), NEW tr, NEW bw,
         Fit(lines, n, st.store, pr, tr, "in", bw), n < Len(lines),
         NEW c, c = lines[n + 1], NEW text, NEW t, Round(st, c, text, t),
         NEW ar, ar = IF Answered(c) THEN "out" ELSE "in"
  PROVE  Fit(lines, n + 1, t.store, pr, tr, ar, t.bufferWrite)
<1>1. PICK m, h, d, e : /\ m = Len(lines) /\ h = Len(pr)
                        /\ d = DueIn(lines, n) /\ e = DueIn(lines, n + 1)
  OBVIOUS
<1>2. m \in Nat /\ h \in Nat /\ n \in Nat /\ n < m /\ d = h + Pending(tr) + Writing("in")
  BY <1>1 DEF Fit
<1>3. n + 1 \in 1..Len(lines) /\ n + 1 \in Nat /\ n + 1 <= m
  BY <1>1, <1>2
<1>4. \A k \in Words : st.store[k] = ValueIn(lines, n + 1, k)
  BY DEF Fit
<1>5. ASSUME NEW k \in Words PROVE t.store[k] = ValueIn(lines, (n + 1) + 1, k)
  <2>1. t.store[k] = NewValue(st.store, c, k)
    BY DEF Round
  <2>2. ValueIn(lines, (n + 1) + 1, k)
          = IF Writes(lines[n + 1], k) THEN Written(lines[n + 1]) ELSE ValueIn(lines, n + 1, k)
    BY <1>3, NextValue
  <2> QED BY <1>4, <2>1, <2>2 DEF NewValue
<1>6. t.bufferWrite # <<>> /\ DecodeResp(t.bufferWrite) = AnswerOf(st.store, c)
  BY DEF Round
<1>7. AnswerOf(st.store, c) = ExpectedIn(lines, n + 1)
  <2>1. PICK s : s = [k \in Words |-> ValueIn(lines, n + 1, k)]
    OBVIOUS
  <2>2. \A k \in Words : st.store[k] = s[k]
    BY <1>4, <2>1
  <2>3. lines[n + 1] \in Line
    BY <1>3
  <2>4. Arguments(c) \subseteq Words /\ Len(c) \in Nat /\ \A j \in 1..Len(c) : c[j] \in Words
    BY <2>3, LineIsClean, CleanIs
  <2>5. {k \in Arguments(c) : st.store[k] # <<>>} = {k \in Arguments(c) : s[k] # <<>>}
    BY <2>2, <2>4
  <2>6. Len(c) = 2 => st.store[c[2]] = s[c[2]]
    <3>1. Len(c) = 2 => 2 \in 1..Len(c)
      OBVIOUS
    <3> QED BY <2>2, <2>4, <3>1
  <2>7. AnswerOf(st.store, c) = AnswerOf(s, c)
    BY <2>5, <2>6 DEF AnswerOf
  <2> QED BY <2>1, <2>7 DEF ExpectedIn
<1>8. d \in Nat /\ Pending(tr) \in {0, 1} /\ (tr # <<>> => Pending(tr) = 1) /\ d = h + Pending(tr)
  <2>1. Writing("in") = 0
    BY DEF Writing
  <2>2. Pending(tr) \in {0, 1} /\ (tr # <<>> => Pending(tr) = 1)
    BY DEF Pending
  <2> QED BY <1>2, <2>1, <2>2
<1>9. e = d + Writing(ar) /\ Writing(ar) \in {0, 1} /\ (Answered(c) <=> ar = "out")
  <2>1. e = d + IF Answered(c) THEN 1 ELSE 0
    <3>1. DueIn(lines, n + 1) = DueIn(lines, n) + IF Answered(lines[n + 1]) THEN 1 ELSE 0
      BY <1>2, DueIs
    <3> QED BY <1>1, <3>1
  <2>2. CASE Answered(c)
    BY <2>1, <2>2 DEF Writing
  <2>3. CASE ~Answered(c)
    <3>1. ar = "in" /\ "in" # "out"
      BY <2>3
    <3> QED BY <2>1, <2>3, <3>1 DEF Writing
  <2> QED BY <2>2, <2>3
<1>10. ar = "out" => e = d + 1
  BY <1>9 DEF Writing
<1>11. ASSUME NEW i \in 1..n, Answered(lines[i])
       PROVE  Replied(lines, i, e, pr, tr, ar, t.bufferWrite)
  <2>1. Replied(lines, i, d, pr, tr, "in", bw)
    BY <1>1, <1>11 DEF Fit
  <2>2. DueIn(lines, i) <= d
    BY <1>1, <1>2, DueGrows
  <2>3. DueIn(lines, i) \in Nat
    BY <1>2, DueIs
  <2>4. ar = "out" => DueIn(lines, i) # e
    BY <1>8, <1>10, <2>2, <2>3
  <2> QED BY <2>1, <2>4 DEF Replied
<1>12. Answered(c) => Replied(lines, n + 1, e, pr, tr, ar, t.bufferWrite)
  <2> SUFFICES ASSUME Answered(c) PROVE Replied(lines, n + 1, e, pr, tr, ar, t.bufferWrite)
    OBVIOUS
  <2>1. e = h + Pending(tr) + 1
    BY <1>8, <1>9, <1>10
  <2>2. ~(e <= h) /\ (tr # <<>> => e # h + 1)
    BY <1>2, <1>8, <2>1
  <2>3. DecodeResp(t.bufferWrite) = ExpectedIn(lines, n + 1)
    BY <1>6, <1>7
  <2> QED BY <1>1, <2>2, <2>3 DEF Replied
<1>13. ASSUME NEW i \in 1..n + 1, Answered(lines[i])
       PROVE  Replied(lines, i, e, pr, tr, ar, t.bufferWrite)
  <2>1. i \in 1..n \/ i = n + 1
    BY <1>2
  <2>2. CASE i \in 1..n
    BY <1>11, <1>13, <2>2
  <2>3. CASE i = n + 1
    BY <1>12, <1>13, <2>3
  <2> QED BY <2>1, <2>2, <2>3
<1>14. e = h + Pending(tr) + Writing(ar)
  BY <1>8, <1>9
<1>15. ar \in {"in", "out"} /\ (ar = "out" => t.bufferWrite # <<>>)
  BY <1>6
<1> QED BY <1>1, <1>3, <1>5, <1>13, <1>14, <1>15 DEF Fit

\* by an answer written,
LEMMA FitWritten ==
  ASSUME NEW lines \in Seq(Line), NEW n, NEW s, NEW pr \in Seq(Seq(Text)), NEW bw,
         Fit(lines, n, s, pr, <<>>, "out", bw)
  PROVE  Fit(lines, n, s, pr, bw, "in", bw)
<1>1. PICK h, d : h = Len(pr) /\ d = DueIn(lines, n)
  OBVIOUS
<1>2. bw # <<>> /\ h \in Nat /\ d = h + Pending(<<>>) + Writing("out")
  BY <1>1 DEF Fit
<1>3. Pending(<<>>) = 0 /\ Pending(bw) = 1 /\ Writing("out") = 1 /\ Writing("in") = 0
  BY <1>2 DEF Pending, Writing
<1>4. d = h + 1 /\ d = h + Pending(bw) + Writing("in")
  BY <1>2, <1>3
<1>5. ASSUME NEW i \in 1..n, Answered(lines[i]) PROVE Replied(lines, i, d, pr, bw, "in", bw)
  <2>1. Replied(lines, i, d, pr, <<>>, "out", bw)
    BY <1>1, <1>5 DEF Fit
  <2> QED BY <1>1, <1>4, <2>1 DEF Replied
<1> QED BY <1>1, <1>4, <1>5 DEF Fit

\* and by one printed.
LEMMA FitPrinted ==
  ASSUME NEW lines \in Seq(Line), NEW n, NEW s, NEW pr \in Seq(Seq(Text)), NEW tr \in Text,
         tr # <<>>, NEW ar, NEW bw,
         Fit(lines, n, s, pr, tr, ar, bw)
  PROVE  Fit(lines, n, s, Append(pr, DecodeResp(tr)), <<>>, ar, bw)
<1>1. PICK h, v, more, d : /\ h = Len(pr) /\ v = DecodeResp(tr) /\ more = Append(pr, v)
                           /\ d = DueIn(lines, n)
  OBVIOUS
<1>2. h \in Nat /\ n \in Nat /\ d = h + Pending(tr) + Writing(ar)
  BY <1>1 DEF Fit
<1>3. v \in Seq(Text)
  BY <1>1, DecodesTyped
<1>4. Len(more) = h + 1 /\ more[h + 1] = v /\ \A i \in 1..h : more[i] = pr[i]
  BY <1>1, <1>3
<1>5. Pending(<<>>) = 0 /\ Pending(tr) = 1 /\ Writing(ar) \in Nat
  BY DEF Pending, Writing
<1>6. d = Len(more) + Pending(<<>>) + Writing(ar)
  BY <1>2, <1>4, <1>5
<1>7. ASSUME NEW i \in 1..n, Answered(lines[i]) PROVE Replied(lines, i, d, more, <<>>, ar, bw)
  <2>1. Replied(lines, i, d, pr, tr, ar, bw)
    BY <1>1, <1>7 DEF Fit
  <2>2. PICK u : u = DueIn(lines, i) /\ u \in Nat /\ u >= 1
    <3>1. i \in Nat /\ i >= 1
      BY <1>2
    <3> QED BY <1>7, <3>1, DueCounts
  <2>3. u <= h + 1 => more[u] = ExpectedIn(lines, i)
    <3>1. CASE u <= h
      <4>1. u \in 1..h
        BY <1>2, <2>2, <3>1
      <4> QED BY <1>1, <1>4, <2>1, <2>2, <3>1, <4>1 DEF Replied
    <3>2. CASE u = h + 1
      BY <1>1, <1>4, <2>1, <2>2, <3>2 DEF Replied
    <3> QED BY <1>2, <2>2, <3>1, <3>2
  <2>4. ar = "out" /\ u = d => DecodeResp(bw) = ExpectedIn(lines, i)
    BY <2>1, <2>2 DEF Replied
  <2> QED BY <1>4, <2>2, <2>3, <2>4 DEF Replied
<1>8. /\ n \in Nat /\ n <= Len(lines) /\ \A k \in Words : s[k] = ValueIn(lines, n + 1, k)
      /\ ar \in {"in", "out"} /\ (ar = "out" => bw # <<>>)
  BY DEF Fit
<1>9. Fit(lines, n, s, more, <<>>, ar, bw)
  BY <1>1, <1>6, <1>7, <1>8 DEF Fit
<1> QED BY <1>1, <1>9

-----------------------------------------------------------------------------
(* Every step keeps the answers due.                                       *)

\* A read of one packet is one round, of its command.
LEMMA TidyRead ==
  ASSUME StreamFits, NEW n \in 1..BufferSize, ClientRead(n), tidy'
  PROVE  \E c, text, t : /\ tidy /\ armed = "in" /\ Len(ran) < Len(entered)
                            /\ c = entered[Len(ran) + 1]
                            /\ armed' = IF Answered(c) THEN "out" ELSE "in"
                         /\ Round(Before(SubSeq(toServer, 1, n)), c, text, t)
                         /\ store' = t.store /\ bufferWrite' = t.bufferWrite /\ ran' = t.ran
<1>1. PICK q, c : q = SubSeq(toServer, 1, n) /\ c = entered[Len(ran) + 1]
  OBVIOUS
<1>2. tidy /\ IsNextPacket(q) /\ armed = "in"
  BY <1>1 DEF ClientRead
<1>3. Len(ran) < Len(entered) /\ q = EncodeResp(c)
  BY <1>1, <1>2 DEF IsNextPacket
<1>4. TypesAre /\ Kept(store)
  BY DEF StreamFits
<1>5. ran \in Seq(Seq(Text)) /\ entered \in Seq(Line)
  BY <1>4 DEF TypesAre
<1>6. c \in Line
  <2>1. Len(ran) + 1 \in 1..Len(entered)
    BY <1>3, <1>5
  <2> QED BY <1>1, <1>5, <2>1
<1>7. Clean(c) /\ ACommand(c)
  BY <1>6, LineIsClean, LinesAre
<1>8. q \in Text
  BY <1>3, <1>7, PacketIs
<1>9. PICK f : /\ Rounds(q, f)
               /\ store' = f[Len(Strtok(q))].store /\ oldCmds' = f[Len(Strtok(q))].oldCmds
               /\ bufferWrite' = f[Len(Strtok(q))].bufferWrite
               /\ armed' = Arms(f[Len(Strtok(q))].ran)
               /\ ran' = f[Len(Strtok(q))].ran /\ logged' = f[Len(Strtok(q))].logged
               /\ crashed' = f[Len(Strtok(q))].crashed
  BY <1>1, <1>8, ReadDoes
<1>10. Len(Strtok(q)) = 1 /\ DecodeResp(<<"*">> \o Strtok(q)[1]) = c
  BY <1>3, <1>7, PacketIsPiece
<1>11. PICK before, text, t : before = Before(q) /\ text = FirstText(q) /\ t = f[1]
  OBVIOUS
<1>12. t = RunPiece(before, Strtok(q)[1], text)
  <2>1. 1 \in 1..Len(Strtok(q)) /\ 1 - 1 = 0
    BY <1>10
  <2>2. f[0] = Before(q) /\ f[1] = RunPiece(f[1 - 1], Strtok(q)[1], FirstText(q))
    BY <1>9, <2>1 DEF Rounds
  <2> QED BY <1>11, <2>1, <2>2
<1>13. before \in RState /\ ~before.crashed /\ Kept(before.store)
  <2>2. before \in RState
    BY <1>4, <1>11 DEF Before, RState, TypesAre, Kept
  <2>3. ~before.crashed /\ before.store = store
    BY <1>11 DEF Before
  <2> QED BY <1>4, <2>2, <2>3
<1>14. text \in Text
  BY <1>8, <1>11, FirstTextIs
<1>15. Round(before, c, text, t)
  <2>1. PICK piece : piece = Strtok(q)[1]
    OBVIOUS
  <2>2. c = DecodeResp(<<"*">> \o piece) /\ t = RunPiece(before, piece, text)
    BY <1>10, <1>12, <2>1
  <2> QED BY <1>7, <1>13, <1>14, <2>2, PieceRuns
<1>16. Round(Before(SubSeq(toServer, 1, n)), c, text, t)
  BY <1>1, <1>11, <1>15
<1>17. store' = t.store /\ bufferWrite' = t.bufferWrite /\ ran' = t.ran /\ armed' = Arms(t.ran)
  BY <1>9, <1>10, <1>11
<1>18. armed' = IF Answered(c) THEN "out" ELSE "in"
  <2>1. t.ran = Append(ran, c)
    BY <1>11, <1>15 DEF Round, Before
  <2>2. PICK old, new, k : old = ran /\ new = Append(old, c) /\ k = Len(old)
    OBVIOUS
  <2>3. c \in Seq(Text) /\ old \in Seq(Seq(Text)) /\ k \in Nat
    BY <1>5, <1>7, <2>2, CleanIs
  <2>4. Len(new) = k + 1 /\ new[k + 1] = c /\ new # <<>>
    BY <2>2, <2>3
  <2>5. Len(t.ran) = k + 1 /\ t.ran[k + 1] = c /\ t.ran # <<>>
    BY <2>1, <2>2, <2>4
  <2> QED BY <1>17, <2>5 DEF Arms
<1> QED BY <1>1, <1>2, <1>3, <1>16, <1>17, <1>18

\* AnswersDue is kept by what is typed,
LEMMA DueTyped ==
  ASSUME StreamFits, AnswersDue, NEW line \in Line, STDINRunCommand(line)
  PROVE  AnswersDue'
<1>1. /\ entered' = Append(entered, line)
      /\ UNCHANGED <<store, ran, bufferWrite, armed, toRouter, printed, tidy>>
  BY DEF STDINRunCommand, serverVars
<1>2. entered \in Seq(Line) /\ printed \in Seq(Seq(Text))
  BY DEF StreamFits, TypesAre
<1>3. ASSUME tidy PROVE Fit(Append(entered, line), Len(ran), store, printed, toRouter, armed, bufferWrite)
  <2>1. Fit(entered, Len(ran), store, printed, toRouter, armed, bufferWrite)
    BY <1>3 DEF AnswersDue
  <2> QED BY <1>2, <2>1, FitTyped
<1>4. tidy' => Fit(entered', Len(ran'), store', printed', toRouter', armed', bufferWrite')
  BY <1>1, <1>3
<1> QED BY <1>4 DEF AnswersDue, Fit, Replied, DueIn, ExpectedIn, ValueIn, WritesTo

\* by a read,
LEMMA DueRead ==
  ASSUME StreamFits, AnswersDue, NEW n \in 1..BufferSize, ClientRead(n)
  PROVE  AnswersDue'
<1>1. UNCHANGED <<entered, toRouter, printed>>
  BY DEF ClientRead
<1>2. entered \in Seq(Line) /\ printed \in Seq(Seq(Text)) /\ ran \in Seq(Seq(Text))
  BY DEF StreamFits, TypesAre
<1>3. ASSUME tidy' PROVE Fit(entered, Len(ran'), store', printed, toRouter, armed', bufferWrite')
  <2>1. PICK c, text, t : /\ tidy /\ armed = "in" /\ Len(ran) < Len(entered)
                             /\ c = entered[Len(ran) + 1]
                             /\ armed' = IF Answered(c) THEN "out" ELSE "in"
                          /\ Round(Before(SubSeq(toServer, 1, n)), c, text, t)
                          /\ store' = t.store /\ bufferWrite' = t.bufferWrite /\ ran' = t.ran
    BY <1>3, TidyRead
  <2>2. PICK before, m : before = Before(SubSeq(toServer, 1, n)) /\ m = Len(ran)
    OBVIOUS
  <2>3. before.store = store /\ before.ran = ran
    BY <2>2 DEF Before
  <2>4. Fit(entered, m, before.store, printed, toRouter, "in", bufferWrite)
    BY <2>1, <2>2, <2>3 DEF AnswersDue
  <2>5. Fit(entered, m + 1, t.store, printed, toRouter, armed', t.bufferWrite)
    BY <1>2, <2>1, <2>2, <2>4, FitRead
  <2>6. Len(ran') = m + 1
    <3>1. t.ran = Append(ran, c)
      BY <2>1, <2>2, <2>3 DEF Round
    <3>2. c \in Seq(Text)
      <4>1. Len(ran) + 1 \in 1..Len(entered)
        BY <1>2, <2>1
      <4>2. c \in Line
        BY <1>2, <2>1, <4>1
      <4> QED BY <4>2, LineIsClean, CleanIs
    <3>3. Len(Append(ran, c)) = Len(ran) + 1
      BY <1>2, <3>2
    <3> QED BY <2>1, <2>2, <3>1, <3>3
  <2> QED BY <2>1, <2>5, <2>6
<1>4. tidy' => Fit(entered', Len(ran'), store', printed', toRouter', armed', bufferWrite')
  BY <1>1, <1>3
<1> QED BY <1>4 DEF AnswersDue, Fit, Replied, DueIn, ExpectedIn, ValueIn, WritesTo

\* by the answers and by steps that change nothing,
LEMMA DueAnswered ==
  ASSUME StreamFits, AnswersDue, ClientWrite \/ RunAnswer \/ UNCHANGED streamVars
  PROVE  AnswersDue'
<1>1. UNCHANGED <<entered, store, ran>>
  BY DEF ClientWrite, RunAnswer, streamVars, serverVars
<1>2. /\ entered \in Seq(Line) /\ printed \in Seq(Seq(Text)) /\ toRouter \in Text
         /\ bufferWrite \in Text
  BY DEF StreamFits, TypesAre
<1>3. PICK m : m = Len(ran)
  OBVIOUS
<1>4. tidy => Fit(entered, m, store, printed, toRouter, armed, bufferWrite)
  BY <1>3 DEF AnswersDue
<1>5. tidy' => Fit(entered, m, store, printed', toRouter', armed', bufferWrite')
  <2> SUFFICES ASSUME tidy' PROVE Fit(entered, m, store, printed', toRouter', armed', bufferWrite')
    OBVIOUS
  <2>1. CASE ClientWrite
    <3>1. /\ toRouter' = toRouter \o bufferWrite /\ armed = "out" /\ UNCHANGED <<bufferWrite, printed>>
          /\ armed' = (IF bufferWrite = <<>> THEN "none" ELSE "in")
          /\ tidy /\ toRouter = <<>>
      BY <2>1 DEF ClientWrite
    <3>2. Fit(entered, m, store, printed, <<>>, "out", bufferWrite)
      BY <1>4, <3>1
    <3>3. bufferWrite # <<>>
      BY <3>2 DEF Fit
    <3>4. toRouter' = bufferWrite /\ armed' = "in"
      BY <1>2, <3>1, <3>3 DEF Text
    <3>5. Fit(entered, m, store, printed, bufferWrite, "in", bufferWrite)
      BY <1>2, <3>2, FitWritten
    <3> QED BY <3>1, <3>4, <3>5
  <2>2. CASE RunAnswer
    <3>1. /\ toRouter # <<>> /\ printed' = Append(printed, DecodeResp(toRouter)) /\ toRouter' = <<>>
          /\ tidy /\ UNCHANGED <<bufferWrite, armed>>
      BY <2>2 DEF RunAnswer
    <3>2. Fit(entered, m, store, Append(printed, DecodeResp(toRouter)), <<>>, armed, bufferWrite)
      BY <1>2, <1>4, <3>1, FitPrinted
    <3> QED BY <3>1, <3>2
  <2>3. CASE UNCHANGED streamVars
    BY <1>4, <2>3 DEF streamVars
  <2> QED BY <2>1, <2>2, <2>3
<1>6. tidy' => Fit(entered', Len(ran'), store', printed', toRouter', armed', bufferWrite')
  BY <1>1, <1>3, <1>5
<1> QED BY <1>6 DEF AnswersDue, Fit, Replied, DueIn, ExpectedIn, ValueIn, WritesTo

\* and holds at the start.
LEMMA DueFirst ==
  StreamInit => AnswersDue
<1> SUFFICES ASSUME StreamInit PROVE AnswersDue
  OBVIOUS
<1>1. /\ entered = <<>> /\ ran = <<>> /\ store = [k \in Words |-> <<>>] /\ printed = <<>>
      /\ toRouter = <<>> /\ bufferWrite = <<>> /\ armed = "in"
  BY DEF StreamInit
<1>2. Len(<<>>) = 0 /\ Pending(<<>>) = 0 /\ Writing("in") = 0 /\ (\A i : i \notin 1..0)
        /\ (\A i : i \notin 1..(0 + 1) - 1)
  BY DEF Pending, Writing
<1>3. \A k : ValueIn(<<>>, 0 + 1, k) = <<>>
  BY <1>2 DEF ValueIn, WritesTo
<1>4. DueIn(<<>>, 0) = 0
  BY DueIs
<1>5. Fit(<<>>, 0, store, <<>>, <<>>, "in", <<>>)
  BY <1>1, <1>2, <1>3, <1>4 DEF Fit
<1> QED BY <1>1, <1>2, <1>5 DEF AnswersDue

\* While each read returns one packet, the commands run are answered one by one: on
\* the screen, on the way or in the buffer, from the values the lines before left.
THEOREM DueHolds == StreamSpec => []AnswersDue
<1>1. ASSUME StreamFits, AnswersDue, [StreamNext]_streamVars PROVE AnswersDue'
  <2>1. CASE \E line \in Line : STDINRunCommand(line)
    BY <1>1, <2>1, DueTyped
  <2>2. CASE \E n \in 1..BufferSize : ClientRead(n)
    BY <1>1, <2>2, DueRead
  <2>3. CASE ClientWrite \/ RunAnswer \/ UNCHANGED streamVars
    BY <1>1, <2>3, DueAnswered
  <2> QED BY <1>1, <2>1, <2>2, <2>3 DEF StreamNext
<1> QED BY <1>1, DueFirst, StreamHolds, PTL DEF StreamSpec

\* While each read returns one packet, the answers printed are the expected ones.
THEOREM AnswersAreRight == StreamSpec => []AnswersFit
<1>1. StreamFits /\ AnswersDue => AnswersFit
  <2> SUFFICES ASSUME StreamFits, AnswersDue, tidy
               PROVE  /\ Len(printed) <= Due(Len(ran))
                      /\ \A i \in DOMAIN ran : Answered(entered[i]) /\ Due(i) <= Len(printed)
                           => printed[Due(i)] = Expected(i)
    BY DEF AnswersFit
  <2>1. entered \in Seq(Line) /\ printed \in Seq(Seq(Text)) /\ ran \in Seq(Seq(Text))
          /\ Fit(entered, Len(ran), store, printed, toRouter, armed, bufferWrite)
    BY DEF StreamFits, TypesAre, AnswersDue
  <2>2. PICK n, h : n = Len(ran) /\ h = Len(printed)
    OBVIOUS
  <2>3. n \in Nat /\ h \in Nat /\ n <= Len(entered)
          /\ DueIn(entered, n) = h + Pending(toRouter) + Writing(armed)
    BY <2>1, <2>2 DEF Fit
  <2>4. Pending(toRouter) \in Nat /\ Writing(armed) \in Nat
    BY DEF Pending, Writing
  <2>5. \A i : Due(i) = DueIn(entered, i)
    BY DEF Due, DueIn
  <2>6. Len(printed) <= Due(Len(ran))
    BY <2>2, <2>3, <2>4, <2>5
  <2>7. ASSUME NEW i \in DOMAIN ran, Answered(entered[i]), Due(i) <= Len(printed)
        PROVE  printed[Due(i)] = Expected(i)
    <3>1. i \in 1..n /\ i \in 1..Len(entered)
      BY <2>1, <2>2, <2>3
    <3>2. entered[i] \in Line
      BY <2>1, <3>1
    <3>3. Replied(entered, i, DueIn(entered, n), printed, toRouter, armed, bufferWrite)
      BY <2>1, <2>2, <2>7, <3>1 DEF Fit
    <3>4. printed[Due(i)] = ExpectedIn(entered, i)
      BY <2>5, <2>7, <3>3 DEF Replied
    <3> QED BY <3>2, <3>4, ExpectedIs
  <2> QED BY <2>6, <2>7
<1> QED BY <1>1, StreamHolds, DueHolds, PTL

-----------------------------------------------------------------------------
(* The router: UserRouter.                                                 *)
(* An open slot has the name of a server. *)
OpenNamed == \A f \in Fds : slot[f].open => slot[f].name \in Servers

(* When the user connects to a server once, open slots have their own names. *)
OwnNames ==
  ~Again => \A f, g \in Fds :
    slot[f].open /\ slot[g].open /\ slot[f].name = slot[g].name => f = g

Roles == ~Again => OneRole

IInv == TypeOK /\ OpenNamed /\ PointersOpen /\ CurIsChosen /\ OwnNames /\ Roles

USE FdsAssumption, AgainAssumption, ServersAssumption

-----------------------------------------------------------------------------
(* Facts about the maps and the pointers. *)

(* What is left of a packet sequence after a read is a packet sequence. *)
LEMMA RestTyped ==
  ASSUME NEW S, NEW q \in Seq(S), NEW k \in 1..Len(q)
  PROVE  SubSeq(q, k + 1, Len(q)) \in Seq(S)
BY SubSeqProperties

(* nullptr is no slot. *)
LEMMA NullIsNoSlot == nullptr \notin Fds
BY DEF nullptr

LEMMA Initially == Init => IInv
BY DEF Init, IInv, TypeOK, OpenNamed, PointersOpen, CurIsChosen, OwnNames, Roles,
       OneRole, nullptr, NoOne

(* clientTypeChanged keeps the invariant, whoever it is called for. *)
LEMMA LeaderChange ==
  ASSUME IInv, NEW n \in Servers, BecomesLeader(n),
         UNCHANGED <<up, slot, cur, leaked, chosen>>,
         peer' \in [Fds -> BOOLEAN], asked' \in [Fds -> Nat],
         in' \in [Fds -> Seq({"answer", "beMy"})],
         typed' \in Nat, wins' \in Nat, crashes' \in Nat
  PROVE  IInv'
<1>1. CASE UNCHANGED <<leader, followers>>
  BY <1>1 DEF IInv, TypeOK, OpenNamed, PointersOpen, CurIsChosen, OwnNames, Roles, OneRole
<1>2. CASE /\ n \in DOMAIN followers
           /\ leader = nullptr \/ slot[leader].name # n
           /\ leader' = followers[n]
           /\ followers' = Without(Demoted, n)
  <2>1. /\ DOMAIN followers' = (DOMAIN Demoted) \ {n}
        /\ \A m \in DOMAIN followers' : followers'[m] = Demoted[m]
        /\ followers' = [m \in DOMAIN followers' |-> followers'[m]]
    BY <1>2 DEF Without
  <2>2. CASE leader = nullptr
    <3>1. Demoted = followers
      BY <2>2 DEF Demoted
    <3>2. followers' \in [DOMAIN followers' -> Fds] /\ DOMAIN followers' \subseteq Servers
          /\ leader' \in Fds
      BY <1>2, <2>1, <3>1 DEF IInv, TypeOK
    <3>3. TypeOK'
      BY <3>2 DEF IInv, TypeOK
    <3>4. OpenNamed' /\ PointersOpen' /\ CurIsChosen' /\ OwnNames'
      BY <1>2, <2>1, <2>2, <3>1, NullIsNoSlot
      DEF IInv, TypeOK, OpenNamed, PointersOpen, CurIsChosen, OwnNames
    <3>5. Roles'
      BY <1>2, <2>1, <2>2, <3>1, NullIsNoSlot
      DEF IInv, TypeOK, PointersOpen, OwnNames, Roles, OneRole
    <3> QED
      BY <3>3, <3>4, <3>5 DEF IInv
  <2>3. CASE leader # nullptr
    <3>1. /\ leader \in Fds /\ slot[leader].open /\ slot[leader].name \in Servers
          /\ followers[n] \in Fds
      BY <1>2, <2>3 DEF IInv, TypeOK, PointersOpen, OpenNamed
    <3>2. /\ DOMAIN Demoted = DOMAIN followers \cup {slot[leader].name}
          /\ \A m \in DOMAIN Demoted :
               Demoted[m] = IF m = slot[leader].name THEN leader ELSE followers[m]
      BY <2>3 DEF Demoted, With
    <3>3. /\ DOMAIN followers' = (DOMAIN followers \cup {slot[leader].name}) \ {n}
          /\ \A m \in DOMAIN followers' :
               followers'[m] = IF m = slot[leader].name THEN leader ELSE followers[m]
          /\ leader' = followers[n]
      BY <1>2, <2>1, <3>2
    <3>4. \A m \in DOMAIN followers : followers[m] \in Fds /\ m \in Servers
      BY DEF IInv, TypeOK
    <3>5. \A m \in DOMAIN followers' : followers'[m] \in Fds /\ m \in Servers
      BY <3>1, <3>3, <3>4
    <3>6. followers' \in [DOMAIN followers' -> Fds]
      BY <2>1, <3>5
    <3>7. TypeOK'
      BY <3>1, <3>3, <3>5, <3>6 DEF IInv, TypeOK
    <3>8. OpenNamed' /\ CurIsChosen' /\ OwnNames'
      BY DEF IInv, OpenNamed, CurIsChosen, OwnNames
    <3>9. PointersOpen'
      BY <1>2, <3>1, <3>3 DEF IInv, PointersOpen
    <3>10. ASSUME ~Again, NEW f \in Fds, slot[f].open
           PROVE  /\ leader' = f <=> slot[f].name \notin DOMAIN followers'
                  /\ slot[f].name \in DOMAIN followers' => followers'[slot[f].name] = f
      <4>1. /\ leader = f <=> slot[f].name \notin DOMAIN followers
            /\ slot[f].name \in DOMAIN followers => followers[slot[f].name] = f
            /\ slot[followers[n]].name = n
        BY <1>2, <3>10 DEF IInv, Roles, OneRole, PointersOpen
      <4>2. slot[f].name = slot[leader].name => f = leader
        BY <3>1, <3>10 DEF IInv, OwnNames
      <4> QED
        BY <1>2, <2>3, <3>1, <3>3, <4>1, <4>2
    <3>11. Roles'
      BY <3>10 DEF Roles, OneRole
    <3> QED
      BY <3>7, <3>8, <3>9, <3>11 DEF IInv
  <2> QED
    BY <2>2, <2>3
<1> QED
  BY <1>1, <1>2 DEF BecomesLeader

-----------------------------------------------------------------------------
(* The steps, one by one. *)

LEMMA ConnectStep == ASSUME IInv, NEW s \in Servers, ConnectServer(s) PROVE IInv'
<1>1. PICK f \in Fds :
        /\ Lowest(f)
        /\ slot' = [slot EXCEPT ![f] = [open |-> TRUE, name |-> s]]
        /\ followers' = Emplaced(followers, s, f)
        /\ peer' = [peer EXCEPT ![f] = TRUE]
        /\ asked' = [asked EXCEPT ![f] = 0]
        /\ in' = [in EXCEPT ![f] = <<>>]
  BY DEF ConnectServer
<1>2. ~slot[f].open
  BY <1>1 DEF Lowest, Free
<1>3. UNCHANGED <<up, leader, cur, leaked, chosen, typed, wins, crashes>>
  BY DEF ConnectServer, bounds
<1>4. ~Again => \A g \in Fds : slot[g].open => slot[g].name # s
  BY DEF ConnectServer
<1>5. CASE s \in DOMAIN followers
  <2>1. followers' = followers
    BY <1>1, <1>5 DEF Emplaced
  <2>2. Again
    BY <1>4, <1>5 DEF IInv, TypeOK, PointersOpen
  <2> QED
    BY <1>1, <1>2, <1>3, <2>1, <2>2
    DEF IInv, TypeOK, OpenNamed, PointersOpen, CurIsChosen, OwnNames, Roles
<1>6. CASE s \notin DOMAIN followers
  <2>1. /\ DOMAIN followers' = DOMAIN followers \cup {s}
        /\ \A m \in DOMAIN followers' : followers'[m] = IF m = s THEN f ELSE followers[m]
        /\ followers' = [m \in DOMAIN followers' |-> followers'[m]]
    BY <1>1, <1>6 DEF Emplaced, With
  <2>2. TypeOK'
    BY <1>1, <1>3, <2>1 DEF IInv, TypeOK
  <2>3. OpenNamed' /\ PointersOpen' /\ CurIsChosen' /\ OwnNames'
    BY <1>1, <1>2, <1>3, <1>4, <2>1, NullIsNoSlot
    DEF IInv, TypeOK, OpenNamed, PointersOpen, CurIsChosen, OwnNames
  <2>4. Roles'
    BY <1>1, <1>2, <1>3, <1>4, <2>1, NullIsNoSlot
    DEF IInv, TypeOK, PointersOpen, OwnNames, Roles, OneRole
  <2> QED
    BY <2>2, <2>3, <2>4 DEF IInv
<1> QED
  BY <1>5, <1>6

LEMMA CloseStep == ASSUME IInv, NEW f \in Fds, CloseClient(f) PROVE IInv'
<1> DEFINE n == slot[f].name
<1>1. /\ slot[f].open
      /\ slot' = [slot EXCEPT ![f].open = FALSE]
      /\ leader' = LeaderWithout(n) /\ cur' = CurWithout(n)
      /\ followers' = Without(followers, n)
      /\ UNCHANGED <<up, leaked, chosen, peer, asked, in, typed, wins, crashes>>
  BY DEF CloseClient, network, bounds
<1>2. /\ DOMAIN followers' = (DOMAIN followers) \ {n}
      /\ \A m \in DOMAIN followers' : followers'[m] = followers[m]
      /\ followers' = [m \in DOMAIN followers' |-> followers'[m]]
  BY <1>1 DEF Without
<1>3. \A g \in Fds : /\ slot'[g].name = slot[g].name
                     /\ slot'[g].open = (slot[g].open /\ g # f)
  BY <1>1 DEF IInv, TypeOK
<1>4. TypeOK'
  <2>1. slot' \in [Fds -> [open : BOOLEAN, name : Servers \cup {NoOne}]]
    BY <1>1 DEF IInv, TypeOK
  <2>2. leader' \in Fds \cup {nullptr} /\ cur' \in Fds \cup {nullptr}
    BY <1>1 DEF IInv, TypeOK, LeaderWithout, CurWithout
  <2>3. DOMAIN followers' \subseteq Servers /\ followers' \in [DOMAIN followers' -> Fds]
    <3>1. \A m \in DOMAIN followers' : followers'[m] \in Fds
      BY <1>2 DEF IInv, TypeOK
    <3> QED
      BY <1>2, <3>1 DEF IInv, TypeOK
  <2> QED
    BY <1>1, <2>1, <2>2, <2>3 DEF IInv, TypeOK
<1>5. OpenNamed' /\ OwnNames'
  BY <1>3 DEF IInv, OpenNamed, OwnNames
<1>6. PointersOpen'
  BY <1>1, <1>2, <1>3, NullIsNoSlot
  DEF IInv, TypeOK, PointersOpen, LeaderWithout, CurWithout
<1>7. CurIsChosen'
  BY <1>1, <1>3, NullIsNoSlot DEF IInv, TypeOK, CurIsChosen, CurWithout
<1>8. Roles'
  BY <1>1, <1>2, <1>3, NullIsNoSlot
  DEF IInv, TypeOK, PointersOpen, OwnNames, Roles, OneRole, LeaderWithout
<1> QED
  BY <1>4, <1>5, <1>6, <1>7, <1>8 DEF IInv

LEMMA RunStep == ASSUME IInv, NEW f \in Fds, RunCommand(f) PROVE IInv'
<1>1. PICK k \in 1..Len(in[f]) : in' = [in EXCEPT ![f] = SubSeq(@, k + 1, Len(@))]
  BY DEF RunCommand
<1>2. in' \in [Fds -> Seq({"answer", "beMy"})]
  <2>1. in[f] \in Seq({"answer", "beMy"})
    BY DEF IInv, TypeOK
  <2> QED
    BY <1>1, <2>1, RestTyped DEF IInv, TypeOK
<1>3. UNCHANGED <<up, slot, cur, leaked, chosen, peer, asked, typed, wins, crashes>>
  BY DEF RunCommand, bounds
<1>4. slot[f].name \in Servers
  BY DEF RunCommand, IInv, OpenNamed
<1>5. CASE BecomesLeader(slot[f].name)
  BY <1>2, <1>3, <1>4, <1>5, LeaderChange DEF IInv, TypeOK
<1>6. CASE UNCHANGED <<leader, followers>>
  BY <1>2, <1>3, <1>6
  DEF IInv, TypeOK, OpenNamed, PointersOpen, CurIsChosen, OwnNames, Roles, OneRole
<1> QED
  BY <1>5, <1>6 DEF RunCommand

LEMMA SetLeaderStep == ASSUME IInv, NEW n \in Servers, SetLeader(n) PROVE IInv'
BY LeaderChange DEF SetLeader, network, bounds, IInv, TypeOK

LEMMA SetCurStep == ASSUME IInv, NEW n \in Servers, SetCur(n) PROVE IInv'
BY DEF SetCur, network, bounds, IInv, TypeOK, OpenNamed, PointersOpen, CurIsChosen,
       OwnNames, Roles, OneRole

(* The routing is untouched by everything else. *)
LEMMA SameRouting ==
  ASSUME IInv, UNCHANGED <<slot, leader, cur, followers, chosen>>, TypeOK'
  PROVE  IInv'
BY DEF IInv, OpenNamed, PointersOpen, CurIsChosen, OwnNames, Roles, OneRole

(* What stays of the types when no slot and no pointer changes. *)
LEMMA SameTypes ==
  ASSUME IInv, UNCHANGED routing,
         up' \subseteq Servers, peer' \in [Fds -> BOOLEAN], asked' \in [Fds -> Nat],
         in' \in [Fds -> Seq({"answer", "beMy"})],
         typed' \in Nat, wins' \in Nat, crashes' \in Nat
  PROVE  TypeOK'
BY DEF routing, IInv, TypeOK

LEMMA PassedStep == ASSUME IInv, NEW f \in Fds, Passed(f) PROVE IInv'
<1>1. asked' \in [Fds -> Nat] /\ typed' \in Nat
  <2>1. asked[f] \in Nat /\ asked \in [Fds -> Nat] /\ typed \in Nat
    BY DEF IInv, TypeOK
  <2>2. PICK n : n = asked[f] + (IF peer[f] THEN 1 ELSE 0)
    OBVIOUS
  <2>3. n \in Nat
    BY <2>1, <2>2
  <2>4. asked' = [asked EXCEPT ![f] = n] /\ typed' = typed + 1
    BY <2>2 DEF Passed
  <2> QED
    BY <2>1, <2>3, <2>4
<1>2. TypeOK'
  <2>1. UNCHANGED routing /\ UNCHANGED <<up, peer, in, wins, crashes>>
    BY DEF Passed
  <2> QED
    BY <1>1, <2>1, SameTypes DEF IInv, TypeOK
<1> QED
  BY <1>2, SameRouting DEF Passed, routing

LEMMA TransmitStep ==
  ASSUME IInv, TransmitLeader \/ TransmitCur \/ TransmitFollower
  PROVE  IInv'
<1>1. ASSUME TransmitLeader PROVE IInv'
  BY <1>1, PassedStep DEF TransmitLeader, IInv, TypeOK
<1>2. ASSUME TransmitCur PROVE IInv'
  BY <1>2, PassedStep DEF TransmitCur, IInv, TypeOK
<1>3. ASSUME NEW n \in DOMAIN followers, Passed(followers[n]) PROVE IInv'
  BY <1>3, PassedStep DEF IInv, TypeOK
<1> QED
  BY <1>1, <1>2, <1>3 DEF TransmitFollower

LEMMA NetworkStep == ASSUME IInv, Network PROVE IInv'
<1>1. ASSUME NEW f \in Fds, Answer(f) PROVE IInv'
  <2>1. TypeOK'
    <3>1. asked' \in [Fds -> Nat]
      BY <1>1 DEF Answer, IInv, TypeOK
    <3>2. in' \in [Fds -> Seq({"answer", "beMy"})]
      <4>1. in[f] \in Seq({"answer", "beMy"}) /\ in' = [in EXCEPT ![f] = Append(in[f], "answer")]
        BY <1>1 DEF Answer, IInv, TypeOK
      <4>2. Append(in[f], "answer") \in Seq({"answer", "beMy"})
        BY <4>1
      <4> QED
        BY <4>1, <4>2 DEF IInv, TypeOK
    <3>3. UNCHANGED routing /\ UNCHANGED <<up, peer, typed, wins, crashes>>
      BY <1>1 DEF Answer, bounds
    <3> QED
      BY <3>1, <3>2, <3>3, SameTypes DEF IInv, TypeOK
  <2> QED
    BY <1>1, <2>1, SameRouting DEF Answer, routing
<1>2. ASSUME NEW s \in Servers, WinElection(s) PROVE IInv'
  <2>1. in' \in [Fds -> Seq({"answer", "beMy"})]
    BY <1>2 DEF WinElection, IInv, TypeOK
  <2>2. TypeOK'
    BY <1>2, <2>1 DEF WinElection, routing, IInv, TypeOK
  <2> QED
    BY <1>2, <2>2, SameRouting DEF WinElection, routing
<1>3. ASSUME NEW s \in Servers, Crash(s) PROVE IInv'
  <2>1. TypeOK'
    BY <1>3 DEF Crash, routing, IInv, TypeOK
  <2> QED
    BY <1>3, <2>1, SameRouting DEF Crash, routing
<1>4. ASSUME NEW s \in Servers, Restart(s) PROVE IInv'
  <2>1. TypeOK'
    BY <1>4 DEF Restart, routing, network, bounds, IInv, TypeOK
  <2> QED
    BY <1>4, <2>1, SameRouting DEF Restart, routing
<1> QED
  BY <1>1, <1>2, <1>3, <1>4 DEF Network

LEMMA ConnectFailsStep == ASSUME IInv, NEW s \in Servers, ConnectFails(s) PROVE IInv'
<1>1. TypeOK'
  BY DEF ConnectFails, network, bounds, IInv, TypeOK
<1> QED
  BY <1>1, SameRouting DEF ConnectFails

LEMMA Inductive == IInv /\ [Next]_vars => IInv'
<1> SUFFICES ASSUME IInv, [Next]_vars PROVE IInv'
  OBVIOUS
<1>1. ASSUME NEW s \in Servers,
             ConnectServer(s) \/ ConnectFails(s) \/ SetLeader(s) \/ SetCur(s)
      PROVE  IInv'
  BY <1>1, ConnectStep, ConnectFailsStep, SetLeaderStep, SetCurStep
<1>2. ASSUME NEW f \in Fds, CloseClient(f) \/ RunCommand(f) PROVE IInv'
  BY <1>2, CloseStep, RunStep
<1>3. CASE UNCHANGED vars
  <2>1. TypeOK'
    BY <1>3 DEF vars, routing, network, bounds, IInv, TypeOK
  <2> QED
    BY <1>3, <2>1, SameRouting DEF vars, routing
<1> QED
  BY <1>1, <1>2, <1>3, TransmitStep, NetworkStep DEF Next, UserLine, Event

-----------------------------------------------------------------------------
(* The theorems. *)

THEOREM Invariant == Spec => []IInv
<1> QED
  BY Initially, Inductive, PTL DEF Spec

(* Every variable of the router keeps its type. *)
THEOREM TypeCorrect == Spec => []TypeOK
<1>1. IInv => TypeOK
  BY DEF IInv
<1> QED
  BY <1>1, Invariant, PTL

(* leaderClient, curClient and followerClients never lead to a closed      *)
(* slot, and a follower is filed under its own name, even when the user    *)
(* connects to one server many times.                                      *)
THEOREM NoDanglingPointer == Spec => []PointersOpen
<1>1. IInv => PointersOpen
  BY DEF IInv
<1> QED
  BY <1>1, Invariant, PTL

(* A command for the current server is never sent to another one. *)
THEOREM CurNeverMisrouted == Spec => []CurIsChosen
<1>1. IInv => CurIsChosen
  BY DEF IInv
<1> QED
  BY <1>1, Invariant, PTL

(* When the user connects to no server twice, every open connection is the *)
(* leader's or filed among the followers, and never both.                  *)
THEOREM EveryConnectionHasOneRole == ASSUME ~Again PROVE Spec => []OneRole
<1>1. IInv => OneRole
  BY DEF IInv, Roles
<1> QED
  BY <1>1, Invariant, PTL

=============================================================================
