------------------------------ MODULE MCProcess -----------------------------
(***************************************************************************)
(* Configuration files and interfaces for the model of the process.        *)
(***************************************************************************)
EXTENDS Process

UdpPort == 8
Own == 11       \* the address of our first interface
Wide == 19      \* its broadcast address

\* One address of the list, as written: with or without a port.
Entry(ip, port) == IF port = 0 THEN <<Ip(ip)>> ELSE <<Ip(ip), Colon, Num(port)>>
Wanted(ip, port) == [ip |-> ip, port |-> IF port = 0 THEN UdpPort ELSE port]

File(list, home) ==
    << <<Word(1), Equals>> \o list,
       <<Word(2), Equals, Num(UdpPort)>>,
       IF home THEN <<Word(3), Equals, Space, Word(9)>> ELSE <<Space>>,
       <<Word(4), Equals, Num(9)>> >>

Good(list, wanted) == [found |-> TRUE, lines |-> File(list, TRUE), wanted |-> wanted, good |-> TRUE]
Bad(list, home) == [found |-> TRUE, lines |-> File(list, home), wanted |-> {}, good |-> FALSE]

Lists ==
    { Good(<<>>, {}),
      Good(<<Space>> \o Entry(1, 0) \o <<Comma>> \o Entry(2, 7) \o <<Space>>, {Wanted(1, 0), Wanted(2, 7)}),
      Good(Entry(1, 8) \o <<Comma>> \o Entry(1, 0) \o <<Comma>>, {Wanted(1, 0)}),
      Good(Entry(Own, 0), {Wanted(Own, 0)}) }

MCConfigs ==
    Lists \cup
    { \* a blank behind the comma, two commas, a word, a line that is too long, no home
      Bad(Entry(1, 0) \o <<Comma, Space>> \o Entry(2, 0), TRUE),
      Bad(Entry(1, 0) \o <<Comma, Comma>> \o Entry(2, 0), TRUE),
      Bad(<<Word(5)>>, TRUE),
      Bad(Entry(1, 7) \o <<Comma>> \o Entry(2, 7) \o <<Comma>> \o Entry(1, 6), TRUE),
      Bad(Entry(1, 0), FALSE),
      [found |-> FALSE, lines |-> <<>>, wanted |-> {}, good |-> FALSE] }

Port(ip, broad) == [ip |-> ip, broad |-> broad]

\* One interface; a second one without a broadcast address; more than fit.
One == <<Port(Own, Wide)>>
Two == <<Port(Own, Wide), Port(12, 0)>>
Three == <<Port(Own, Wide), Port(12, 29), Port(13, 39)>>

MCNodes ==
    [cfg : MCConfigs, ifs : {One}] \cup
    [cfg : {Good(Entry(12, 0), {Wanted(12, 0)})}, ifs : {Two, Three}]

ASSUME GoodFilesAssumption == GoodFiles
=============================================================================
