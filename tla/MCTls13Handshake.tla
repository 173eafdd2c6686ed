-------------------------- MODULE MCTls13Handshake --------------------------
(***************************************************************************)
(* Instances of Tls13Handshake for TLC.                                    *)
(***************************************************************************)
EXTENDS Tls13Handshake

\* Every handshake, with data of both applications as early as the manual
\* allows it, but for early data written after the client began to read, where
\* the server accepts it, and for both where it asks for another ClientHello.
Handshakes ==
  {c \in AllConfigurations :
     /\ c.verify # "post" /\ ~c.pha /\ ~c.update
     /\ c.data = IF c.ticket THEN Sides ELSE {}
     /\ c.hasty = ~c.retry
     /\ c.interleave => c.early /\ ~c.retry /\ ~(c.psk /\ c.read_early)}

\* After the handshake: KeyUpdates cross with tickets and data, KeyUpdates
\* with requests for certificates, and requests with data and tickets.
Afterwards ==
  {c \in AllConfigurations :
     /\ c.compat = [s \in Sides |-> FALSE]
     /\ ~c.retry /\ ~c.psk /\ ~c.early /\ ~c.read_early /\ ~c.interleave /\ ~c.hasty
     /\ \/ c.verify = "hand" /\ ~c.pha /\ c.update /\ c.ticket /\ c.data = Sides
        \/ c.verify = "post" /\ c.pha /\ c.update /\ ~c.ticket /\ c.data = {}
        \/ c.verify = "hand" /\ c.pha /\ ~c.update /\ c.ticket /\ c.data = {Client}}

MCConfigurations == Handshakes \cup Afterwards

\* The client goes on writing early data that the server accepts.
Interleaved ==
  {c \in AllConfigurations :
     /\ c.compat = [s \in Sides |-> FALSE] /\ c.verify = "none" /\ ~c.pha /\ ~c.update
     /\ c.early /\ c.read_early /\ c.psk /\ ~c.retry /\ c.interleave /\ ~c.ticket
     /\ ~c.hasty /\ c.data = {}}

\* The server asks for another ClientHello, and one of the applications writes
\* data with what it has: the server with tls_write_early_data, or the client
\* by going on with early data.
Retried ==
  {c \in AllConfigurations :
     /\ c.verify = "none" /\ ~c.pha /\ ~c.update /\ ~c.ticket /\ ~c.psk
     /\ c.read_early /\ c.retry}

HastyServer == {c \in Retried : c.hasty /\ c.data = {Server} /\ ~c.interleave}
HastyClient == {c \in Retried : c.early /\ c.interleave /\ c.data = {} /\ ~c.hasty}
EarlyWrites == HastyServer \cup HastyClient

=============================================================================
