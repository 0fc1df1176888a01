------------------------ MODULE NetworkAddressProofs ------------------------
(***************************************************************************)
(* parseIpAddress accepts a text exactly when it is an address, and reads  *)
(* its bytes: for texts of any length and any numbers.                     *)
(***************************************************************************)
EXTENDS NetworkAddress, SequenceTheorems, TLAPS

\* A round takes at most one byte, and only one that is there.
LEMMA RoundTyped ==
  ASSUME NEW text \in Text, NEW l \in Reader, l.counter \in 0 .. 3
  PROVE  /\ Round(text, l) \in Reader
         /\ Takes(text, l) =>
              /\ Round(text, l).bytes = [l.bytes EXCEPT ![l.counter + 1] = text[l.str].value]
              /\ Round(text, l).counter = l.counter + 1
              /\ Round(text, l).end = l.str + 1
              /\ Round(text, l).str =
                   IF l.str < Len(text) /\ text[l.str + 1].kind = "dot"
                     THEN l.str + 2 ELSE l.str + 1
         /\ ~Takes(text, l) => Round(text, l) = l
<1>1. CASE Takes(text, l)
  <2>1. text[l.str].value \in Byte /\ l.str \in Nat
    BY <1>1 DEF Takes, Reader
  <2>2. [l.bytes EXCEPT ![l.counter + 1] = text[l.str].value] \in [1 .. 4 -> Byte]
    BY <2>1 DEF Reader
  <2>3. l.counter + 1 \in Nat /\ l.str + 1 \in Nat /\ l.str + 2 \in Nat
    BY <2>1
  <2> DEFINE bytes == [l.bytes EXCEPT ![l.counter + 1] = text[l.str].value]
             str == IF l.str < Len(text) /\ text[l.str + 1].kind = "dot"
                      THEN l.str + 2 ELSE l.str + 1
  <2>4. Round(text, l) = [bytes |-> bytes, counter |-> l.counter + 1, end |-> l.str + 1, str |-> str]
    BY <1>1 DEF Round
  <2>5. bytes \in [1 .. 4 -> Byte] /\ str \in Nat
    BY <2>2, <2>3
  <2>6. /\ Round(text, l).bytes = bytes
        /\ Round(text, l).counter = l.counter + 1
        /\ Round(text, l).end = l.str + 1
        /\ Round(text, l).str = str
    BY <2>4
  <2> HIDE DEF bytes, str
  <2>7. Round(text, l) \in Reader
    BY <2>3, <2>4, <2>5 DEF Reader
  <2> QED
    BY <1>1, <2>6, <2>7 DEF bytes, str
<1>2. CASE ~Takes(text, l)
  BY <1>2 DEF Round
<1> QED
  BY <1>1, <1>2

\* How many bytes there are then.
LEMMA RoundCounts ==
  ASSUME NEW text \in Text, NEW l \in Reader, l.counter \in 0 .. 3
  PROVE  /\ Round(text, l) \in Reader
         /\ Round(text, l).counter = l.counter + (IF Takes(text, l) THEN 1 ELSE 0)
<1>1. l.counter \in Nat
  OBVIOUS
<1>2. CASE Takes(text, l)
  BY <1>1, <1>2, RoundTyped
<1>3. CASE ~Takes(text, l)
  <2>1. Round(text, l) = l
    BY <1>3, RoundTyped
  <2>2. l.counter = l.counter + 0
    BY <1>1
  <2> QED
    BY <1>3, <2>1, <2>2
<1> QED
  BY <1>2, <1>3

\* The loop starts with none.
LEMMA StartTyped == Start \in Reader
BY DEF Start, Reader, Byte

\* A byte that follows the last one is where the next round looks for it.
LEMMA NextPlace ==
  ASSUME NEW text \in Text, NEW l \in Reader, l.counter \in 0 .. 3, Takes(text, l),
         NEW j \in 1 .. Len(text), Follows(text, l.str, j), text[j].kind = "number"
  PROVE  Round(text, l).str = j
<1>1. l.str \in Nat
  BY DEF Reader
<1>2. Round(text, l).str = IF l.str < Len(text) /\ text[l.str + 1].kind = "dot"
                             THEN l.str + 2 ELSE l.str + 1
  BY RoundTyped
<1>3. CASE j = l.str + 1
  BY <1>1, <1>2, <1>3
<1>4. CASE j = l.str + 2 /\ text[l.str + 1].kind = "dot"
  <2>1. Len(text) \in Nat
    BY DEF Text
  <2>2. l.str < Len(text)
    BY <1>1, <1>4, <2>1
  <2> QED
    BY <1>2, <1>4, <2>2
<1> QED
  BY <1>3, <1>4 DEF Follows

\* Where a round looks that comes after one that took something.
LEMMA FoundPlace ==
  ASSUME NEW text \in Text, NEW l \in Reader, l.counter \in 0 .. 3, Takes(text, l)
  PROVE  Follows(text, l.str, Round(text, l).str)
<1>1. l.str \in Nat
  BY DEF Reader
<1> QED
  BY <1>1, RoundTyped DEF Follows

\* What a round that takes a byte leaves.
LEMMA TakenByte ==
  ASSUME NEW text \in Text, NEW l \in Reader, l.counter \in 0 .. 3, Takes(text, l)
  PROVE  /\ Round(text, l).bytes = [l.bytes EXCEPT ![l.counter + 1] = text[l.str].value]
         /\ Round(text, l).end = l.str + 1
         /\ Round(text, l).counter = l.counter + 1
BY RoundTyped

\* The rounds that take nothing come last.
LEMMA CounterIsFour ==
  ASSUME NEW text \in Text
  PROVE  /\ AfterOne(text) \in Reader /\ AfterOne(text).counter \in 0 .. 1
         /\ AfterTwo(text) \in Reader /\ AfterTwo(text).counter \in 0 .. 2
         /\ AfterThree(text) \in Reader /\ AfterThree(text).counter \in 0 .. 3
         /\ AfterFour(text) \in Reader
         /\ AfterFour(text).counter = 4 <=>
              /\ Takes(text, Start) /\ Takes(text, AfterOne(text))
              /\ Takes(text, AfterTwo(text)) /\ Takes(text, AfterThree(text))
<1>0. Start \in Reader /\ Start.counter = 0
  BY StartTyped DEF Start
<1> DEFINE a == AfterOne(text)  b == AfterTwo(text)  c == AfterThree(text)  d == AfterFour(text)
<1>1. a = Round(text, Start) /\ b = Round(text, a) /\ c = Round(text, b) /\ d = Round(text, c)
  BY DEF AfterOne, AfterTwo, AfterThree, AfterFour
<1> HIDE DEF a, b, c, d
<1>2. a \in Reader /\ a.counter = IF Takes(text, Start) THEN 1 ELSE 0
  BY <1>0, <1>1, RoundCounts
<1>3. b \in Reader /\ b.counter = a.counter + (IF Takes(text, a) THEN 1 ELSE 0)
  BY <1>1, <1>2, RoundCounts
<1>4. c \in Reader /\ c.counter = b.counter + (IF Takes(text, b) THEN 1 ELSE 0)
  BY <1>1, <1>2, <1>3, RoundCounts
<1>5. d \in Reader /\ d.counter = c.counter + (IF Takes(text, c) THEN 1 ELSE 0)
  BY <1>1, <1>2, <1>3, <1>4, RoundCounts
<1>6. a.counter \in 0 .. 1 /\ b.counter \in 0 .. 2 /\ c.counter \in 0 .. 3
  BY <1>2, <1>3, <1>4
<1>7. d.counter = 4 <=> Takes(text, Start) /\ Takes(text, a) /\ Takes(text, b) /\ Takes(text, c)
  BY <1>2, <1>3, <1>4, <1>5
<1> QED
  BY <1>2, <1>3, <1>4, <1>5, <1>6, <1>7 DEF a, b, c, d

\* The bytes of four rounds that took one each, and where they looked.
LEMMA FourTaken ==
  ASSUME NEW text \in Text, AfterFour(text).counter = 4
  PROVE  LET p == <<1, AfterOne(text).str, AfterTwo(text).str, AfterThree(text).str>>
         IN  /\ \A i \in 1 .. 4 : /\ p[i] \in 1 .. Len(text)
                                  /\ text[p[i]].kind = "number"
                                  /\ AfterFour(text).bytes[i] = text[p[i]].value
             /\ \A i \in 1 .. 3 : Follows(text, p[i], p[i + 1])
             /\ AfterFour(text).end = p[4] + 1
<1> DEFINE a == AfterOne(text)  b == AfterTwo(text)  c == AfterThree(text)  d == AfterFour(text)
<1>0. Start \in Reader /\ Start.counter = 0 /\ Start.str = 1
  BY StartTyped DEF Start
<1>1. Takes(text, Start) /\ Takes(text, a) /\ Takes(text, b) /\ Takes(text, c)
  BY CounterIsFour
<1>2. a = Round(text, Start) /\ b = Round(text, a) /\ c = Round(text, b) /\ d = Round(text, c)
  BY DEF AfterOne, AfterTwo, AfterThree, AfterFour
<1>3. a \in Reader /\ b \in Reader /\ c \in Reader /\ d \in Reader
  BY CounterIsFour
<1> HIDE DEF a, b, c, d
<1>4. a.counter = 1 /\ a.bytes = [Start.bytes EXCEPT ![1] = text[1].value]
  BY <1>0, <1>1, <1>2, TakenByte
<1>5. b.counter = 2 /\ b.bytes = [a.bytes EXCEPT ![2] = text[a.str].value]
  <2>1. a.counter \in 0 .. 3 /\ a.counter + 1 = 2
    BY <1>4
  <2> QED
    BY <1>1, <1>2, <1>3, <2>1, TakenByte
<1>6. c.counter = 3 /\ c.bytes = [b.bytes EXCEPT ![3] = text[b.str].value]
  <2>1. b.counter \in 0 .. 3 /\ b.counter + 1 = 3
    BY <1>5
  <2> QED
    BY <1>1, <1>2, <1>3, <2>1, TakenByte
<1>7. d.bytes = [c.bytes EXCEPT ![4] = text[c.str].value] /\ d.end = c.str + 1
  <2>1. c.counter \in 0 .. 3 /\ c.counter + 1 = 4
    BY <1>6
  <2> QED
    BY <1>1, <1>2, <1>3, <2>1, TakenByte
<1>8. Follows(text, 1, a.str) /\ Follows(text, a.str, b.str) /\ Follows(text, b.str, c.str)
  BY <1>0, <1>1, <1>2, <1>3, <1>4, <1>5, FoundPlace
<1>9. /\ d.bytes[1] = text[1].value /\ d.bytes[2] = text[a.str].value
      /\ d.bytes[3] = text[b.str].value /\ d.bytes[4] = text[c.str].value
  BY <1>0, <1>3, <1>4, <1>5, <1>6, <1>7 DEF Reader
<1>10. /\ 1 \in 1 .. Len(text) /\ a.str \in 1 .. Len(text)
      /\ b.str \in 1 .. Len(text) /\ c.str \in 1 .. Len(text)
      /\ text[1].kind = "number" /\ text[a.str].kind = "number"
      /\ text[b.str].kind = "number" /\ text[c.str].kind = "number"
  BY <1>0, <1>1 DEF Takes
<1> QED
  BY <1>7, <1>8, <1>9, <1>10 DEF a, b, c, d

\* A text that is an address makes each round take its byte.
LEMMA AllTaken ==
  ASSUME NEW text \in Text, NEW b \in [1 .. 4 -> Byte],
         NEW p \in [1 .. 4 -> 1 .. Len(text)], Placed(text, b, p)
  PROVE  /\ AfterFour(text).counter = 4
         /\ AfterOne(text).str = p[2] /\ AfterTwo(text).str = p[3]
         /\ AfterThree(text).str = p[4]
<1>0. Start \in Reader /\ Start.counter = 0 /\ Start.str = p[1]
  BY StartTyped DEF Start, Placed
<1>1. \A i \in 1 .. 4 : \A l \in Reader : l.str = p[i] => Takes(text, l)
  BY DEF Placed, Takes
<1>2. \A i \in 1 .. 3 : /\ p[i + 1] \in 1 .. Len(text)
                        /\ text[p[i + 1]].kind = "number"
                        /\ Follows(text, p[i], p[i + 1])
  BY DEF Placed
<1>3. Takes(text, Start) /\ AfterOne(text).str = p[2]
  BY <1>0, <1>1, <1>2, NextPlace DEF AfterOne
<1>4. Takes(text, AfterOne(text)) /\ AfterTwo(text).str = p[3]
  BY <1>1, <1>2, <1>3, CounterIsFour, NextPlace DEF AfterTwo
<1>5. Takes(text, AfterTwo(text)) /\ AfterThree(text).str = p[4]
  BY <1>1, <1>2, <1>4, CounterIsFour, NextPlace DEF AfterThree
<1>6. Takes(text, AfterThree(text))
  BY <1>1, <1>5, CounterIsFour
<1> QED
  BY <1>3, <1>4, <1>5, <1>6, CounterIsFour

\* The loop over strtol, its two pointers and its three ways out accept exactly
\* the addresses, and store the bytes that were written: parseIpAddress is
\* right about every text, of any length.
THEOREM AddressRead ==
  ASSUME NEW text \in Text, NEW b \in [1 .. 4 -> Byte]
  PROVE  ParseIpAddress(text) = [ok |-> TRUE, addr |-> b] <=> IsAddress(text, b)
<1> DEFINE l == AfterFour(text)
           p == <<1, AfterOne(text).str, AfterTwo(text).str, AfterThree(text).str>>
<1>1. ASSUME ParseIpAddress(text) = [ok |-> TRUE, addr |-> b]
      PROVE  IsAddress(text, b)
  <2>1. l.counter = 4 /\ l.end > Len(text) /\ l.bytes = b
    BY <1>1 DEF ParseIpAddress
  <2>2. /\ \A i \in 1 .. 4 : /\ p[i] \in 1 .. Len(text)
                             /\ text[p[i]].kind = "number"
                             /\ l.bytes[i] = text[p[i]].value
        /\ \A i \in 1 .. 3 : Follows(text, p[i], p[i + 1])
        /\ l.end = p[4] + 1
    BY <2>1, FourTaken
  <2>3. p[1] = 1 /\ p \in [1 .. 4 -> 1 .. Len(text)]
    BY <2>2
  <2>4. p[4] = Len(text)
    BY <2>1, <2>2, <2>3 DEF Text
  <2> HIDE DEF p
  <2>5. Placed(text, b, p)
    BY <2>1, <2>2, <2>3, <2>4 DEF Placed
  <2> QED
    BY <2>3, <2>5 DEF IsAddress
<1>2. ASSUME IsAddress(text, b)
      PROVE  ParseIpAddress(text) = [ok |-> TRUE, addr |-> b]
  <2>1. PICK q \in [1 .. 4 -> 1 .. Len(text)] : Placed(text, b, q)
    BY <1>2 DEF IsAddress
  <2>2. /\ l.counter = 4 /\ AfterOne(text).str = q[2]
        /\ AfterTwo(text).str = q[3] /\ AfterThree(text).str = q[4]
    BY <2>1, AllTaken
  <2>3. /\ l.bytes[1] = text[1].value /\ l.bytes[2] = text[q[2]].value
        /\ l.bytes[3] = text[q[3]].value /\ l.bytes[4] = text[q[4]].value
        /\ l.end = q[4] + 1
    BY <2>2, FourTaken
  <2>4. l.bytes = b
    <3>1. l.bytes \in [1 .. 4 -> Byte]
      BY CounterIsFour DEF Reader
    <3>2. \A i \in 1 .. 4 : l.bytes[i] = b[i]
      BY <2>1, <2>3 DEF Placed
    <3> QED
      BY <3>1, <3>2
  <2>5. l.end > Len(text)
    BY <2>1, <2>3 DEF Placed, Text
  <2> QED
    BY <2>2, <2>4, <2>5 DEF ParseIpAddress
<1> QED
  BY <1>1, <1>2

\* What IpAddress::toString writes, the parser reads back.
THEOREM DottedReadBack ==
  ASSUME NEW b \in [1 .. 4 -> Byte]
  PROVE  ParseIpAddress(Dotted(b)) = [ok |-> TRUE, addr |-> b]
<1> DEFINE text == Dotted(b)
           p == [i \in 1 .. 4 |-> 2 * i - 1]
<1>1. text \in Text
  BY DEF Dotted, Number, Dot, Text, Token, Byte
<1>2. Len(text) = 7 /\ p \in [1 .. 4 -> 1 .. Len(text)]
  BY DEF Dotted
<1>3. \A i \in 1 .. 4 : text[p[i]] = Number(b[i])
  BY DEF Dotted
<1>4. \A i \in 1 .. 3 : p[i + 1] = p[i] + 2 /\ text[p[i] + 1] = Dot
  BY DEF Dotted
<1>5. p[1] = 1 /\ p[4] = 7
  OBVIOUS
<1> HIDE DEF p, text
<1>6. Placed(text, b, p)
  BY <1>2, <1>3, <1>4, <1>5 DEF Placed, Follows, Number, Dot
<1> QED
  BY <1>1, <1>2, <1>6, AddressRead DEF IsAddress, text
=============================================================================
