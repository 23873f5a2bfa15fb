------------------------------ MODULE MCEspRx -------------------------------
(***************************************************************************)
(* Small instances of EspRx: what a host can put on the line.              *)
(***************************************************************************)
EXTENDS EspRx

MCInfo   == <<1, 3>>
MCSsid   == <<7, 0>>
MCPasswd == <<8, 9, 0>>
P1 == <<10>>
P2 == <<12, 13>>
P3 == <<15>>

Cmd(p) == Frame(p, SPLIT_CMD)

Handshake == Cmd(MCSsid) \o Cmd(MCPasswd) \o Cmd(MCInfo)

Scenario(behind, packets, quiet) ==
  [line |-> Handshake \o behind \o DataBytes(packets),
   ssid |-> MCSsid, passwd |-> MCPasswd, tail |-> behind,
   packets |-> packets, quiet |-> quiet]

\* ttyio_netif_info echoes its whole 64-byte array: the bytes behind the
\* frame are zero in the first session and text ("1.") in a later one.
EchoTails == {<<>>, <<0, 0, 0>>, <<49, 46, 49>>}

\* Bursts of up to k bytes of noise between the handshake and the data frames.
\* Before <<P1, P2>> a false length of 8 ends with the second frame, and one of 9
\* behind it.
Alphabet  == {0, 2, 8, 9, SPLIT_DATA}
Bursts(k) == UNION { [1 .. n -> Alphabet] : n \in 1 .. k }

MCScenarios ==
  { Scenario(t, <<P1, P2, P3>>, TRUE) : t \in EchoTails }
  \cup { Scenario(z, <<P1, P2, P3>>, FALSE) : z \in Bursts(2) }
  \cup { Scenario(z, <<P1, P2>>, FALSE) : z \in Bursts(3) }

ASSUME MCHostAssumption == CredentialsFirst /\ QuietLines /\ FirstFramePlain
=============================================================================
