-------------------------- MODULE MCDtlsRecordRead --------------------------
EXTENDS DtlsRecordRead

R(e, n, t) == [epoch |-> e, seq |-> n, type |-> t, body |-> "good"]
Bad(e, n, t, b) == [epoch |-> e, seq |-> n, type |-> t, body |-> b]

\* Epoch 0: the hello messages and the ChangeCipherSpec.
Hello  == R(0, 0, "hs")
Early  == R(0, 1, "app")
Ccs0   == R(0, 2, "ccs")
\* Epoch 1: Finished, data, a renegotiation and alerts.
Fin1   == R(1, 0, "fin")
App1   == R(1, 1, "app")
Hello1 == R(1, 2, "hs")
Again1 == R(1, 3, "hs")
Ccs1   == R(1, 4, "ccs")
Far1   == R(1, 5, "app")
Warn1  == R(1, 1, "warn")
Close1 == R(1, 3, "close_notify")
\* Epoch 2
Fin2   == R(2, 0, "fin")
App2   == R(2, 1, "app")
Hello2 == R(2, 1, "hs")

\* Lone records, and flights that share a datagram.
FlightDatagrams ==
  { <<Hello>>, <<Ccs0>>, <<Fin1>>, <<App1>>, <<Hello1>>, <<Ccs1>>, <<Far1>>,
    <<Ccs0, Fin1>>, <<Fin1, App1>>, <<Hello1, Ccs1>>, <<Fin2, App2>>, <<Ccs0, Hello2>>, <<Again1>>,
    <<Ccs0, Fin1, Hello1, Ccs1>> }

\* Records that are damaged, empty, or not what the reader expects, and alerts.
FaultyDatagrams ==
  { <<Hello>>, <<Early>>, <<R(0, 1, "fin")>>, <<Ccs0, Fin1>>, <<Fin1>>, <<Hello1>>, <<Warn1>>, <<Close1, App1>>,
    <<Bad(1, 2, "hs", "bad_mac"), App1>>, <<Bad(1, 3, "hs", "overflow"), App1>>,
    <<Bad(1, 1, "app", "empty")>>, <<Bad(0, 2, "hs", "bad_header"), Ccs0>>, <<R(1, 2, "fatal_alert")>> }

MCDatagrams == FlightDatagrams \cup FaultyDatagrams
MCRecords   == UNION {{d[i] : i \in DOMAIN d} : d \in MCDatagrams}
=============================================================================
