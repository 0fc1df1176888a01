--------------------------- MODULE NetworkAddress ---------------------------
(***************************************************************************)
(* The server's address as a phone reads it from its command line:         *)
(* NetworkAddress.cpp.  A text is a sequence of tokens: a number, with the *)
(* blanks and the sign strtol skips before it, a dot, or anything else.    *)
(* Two numbers in a row are thus texts like "1 2" or "1+2".                *)
(***************************************************************************)
EXTENDS Integers, Sequences

Number(n) == [kind |-> "number", value |-> n]
Dot == [kind |-> "dot", value |-> 0]
Token == [kind: {"number", "dot", "other"}, value: Int]
Text == Seq(Token)

Byte == 0 .. 255
Port == 1 .. 65535

\* What the loop knows: the bytes read, how many, where the last number ended,
\* and where it looks for the next.
Reader == [bytes: [1 .. 4 -> Byte], counter: Nat, end: Nat, str: Nat]
Start == [bytes |-> [i \in 1 .. 4 |-> 0], counter |-> 0, end |-> 1, str |-> 1]

\* strtol finds a number where the loop looks, and it is a byte.
Takes(text, l) ==
  /\ l.str \in 1 .. Len(text)
  /\ text[l.str].kind = "number"
  /\ text[l.str].value \in Byte

\* One round takes the number and at most one dot behind it; the dot does not
\* move end.  One that takes nothing ends the loop: so do all later ones.
Round(text, l) ==
  IF Takes(text, l)
    THEN [bytes |-> [l.bytes EXCEPT ![l.counter + 1] = text[l.str].value],
          counter |-> l.counter + 1,
          end |-> l.str + 1,
          str |-> IF l.str < Len(text) /\ text[l.str + 1].kind = "dot"
                    THEN l.str + 2 ELSE l.str + 1]
    ELSE l

AfterOne(text) == Round(text, Start)
AfterTwo(text) == Round(text, AfterOne(text))
AfterThree(text) == Round(text, AfterTwo(text))
AfterFour(text) == Round(text, AfterThree(text))

\* Four bytes and nothing behind them; a refused address stays 0.0.0.0.
ParseIpAddress(text) ==
  LET l == AfterFour(text)
  IN  IF l.counter = 4 /\ l.end > Len(text)
        THEN [ok |-> TRUE, addr |-> l.bytes]
        ELSE [ok |-> FALSE, addr |-> Start.bytes]

\* 0 stands for a port that is wrong.
ParsePort(text) ==
  IF Len(text) = 1 /\ text[1].kind = "number" /\ text[1].value \in Port
    THEN text[1].value ELSE 0

\* The constructor.
Address(port, addr) ==
  [addr |-> ParseIpAddress(addr).addr, port |-> ParsePort(port),
   correctFlag |-> ParsePort(port) # 0 /\ ParseIpAddress(addr).ok]

\* IpAddress::toString.
Dotted(b) == <<Number(b[1]), Dot, Number(b[2]), Dot, Number(b[3]), Dot, Number(b[4])>>
-----------------------------------------------------------------------------
\* What an address is: four bytes at these places and nothing else, a byte
\* directly behind the one before it or with a dot between them.
Follows(text, i, j) == j = i + 1 \/ (j = i + 2 /\ text[i + 1].kind = "dot")

Placed(text, b, p) ==
  /\ p[1] = 1 /\ p[4] = Len(text)
  /\ \A i \in 1 .. 4 : text[p[i]].kind = "number" /\ text[p[i]].value = b[i]
  /\ \A i \in 1 .. 3 : Follows(text, p[i], p[i + 1])

IsAddress(text, b) == \E p \in [1 .. 4 -> 1 .. Len(text)] : Placed(text, b, p)
=============================================================================
