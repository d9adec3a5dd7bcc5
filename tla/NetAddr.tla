------------------------------- MODULE NetAddr ------------------------------
(***************************************************************************)
(* Addresses and the text they are read from.  A text is a sequence of     *)
(* tokens, each a kind and a number: the characters of an IP, of a decimal *)
(* number or of a word are one token, a separator is one.  Byte order and  *)
(* address family are left out.                                            *)
(***************************************************************************)
EXTENDS Integers, SequencesExt

CONSTANT PortMod    \* 2^16, the range of sin_port

ASSUME PortModAssumption == PortMod \in Nat \ {0}

Ip(a) == <<"ip", a>>
Num(n) == <<"number", n>>
Word(w) == <<"word", w>>
Colon == <<"colon", 0>>
Comma == <<"comma", 0>>
Equals == <<"equals", 0>>
Space == <<"space", 0>>

\* The first position of a token, 0 where the code has npos.
Find(s, token) == SelectInSeq(s, LAMBDA t : t = token)

FindNonSpace(s) == SelectInSeq(s, LAMBDA t : t # Space)

\* What is left of s when leading blanks are skipped.
SkipSpaces(s) ==
    LET first == FindNonSpace(s)
    IN IF first = 0 THEN <<>> ELSE SubSeq(s, first, Len(s))

\* What a stringstream extracts with >>: the first word.
FirstWord(s) ==
    LET r == SkipSpaces(s)
        blank == Find(r, Space)
    IN IF blank = 0 THEN r ELSE SubSeq(r, 1, blank - 1)

INADDR_ANY == 0

\* inet_aton takes an IP or a bare number, followed by nothing or a blank; a
\* leading blank or anything else leaves the zeroed address.
InetAton(s) ==
    IF s # <<>> /\ s[1][1] \in {"ip", "number"} /\ (Len(s) = 1 \/ s[2] = Space)
    THEN s[1][2] ELSE INADDR_ANY

\* atoi: 0 for everything but a number.
AToI(s) ==
    LET r == SkipSpaces(s)
    IN IF r # <<>> /\ r[1][1] = "number" THEN r[1][2] ELSE 0

SetPort(addr, port) == [addr EXCEPT !.port = port % PortMod]

\* Mutant of NewNetAddr: the colon is taken for a part of the IP.
NewNetAddrWithColon(ipport) ==
    LET pos == Find(ipport, Colon)
        port == IF pos = 0 THEN <<>> ELSE SubSeq(ipport, pos + 1, Len(ipport))
    IN SetPort([ip |-> InetAton(IF pos = 0 THEN ipport ELSE SubSeq(ipport, 1, pos)), port |-> 0], AToI(port))

\* NetAddr(string): up to the first colon the IP, after it the port.
NewNetAddr(ipport) ==
    LET pos == Find(ipport, Colon)
        ip == IF pos = 0 THEN ipport ELSE SubSeq(ipport, 1, pos - 1)
        port == IF pos = 0 THEN <<>> ELSE SubSeq(ipport, pos + 1, Len(ipport))
    IN SetPort([ip |-> IF pos = 1 THEN INADDR_ANY ELSE InetAton(ip), port |-> 0], AToI(port))

Str(addr) == <<Ip(addr.ip), Colon, Num(addr.port)>>

\* fromBe goes through the text.
FromBe(be) == NewNetAddr(Str(be))
=============================================================================
