------------------------ MODULE MCDownloadAdmission -------------------------
(***************************************************************************)
(* A small instance of DownloadAdmission.                                  *)
(***************************************************************************)
EXTENDS DownloadAdmission

CONSTANTS c1, c2, c3, alice, proxy

MCCalls == {c1, c2, c3}
MCClients == {alice, proxy}

(* Two calls come through the proxy for one client, and one comes from the *)
(* proxy itself.                                                           *)
MCForwarded == [c \in MCCalls |-> IF c = c3 THEN NoHeader ELSE alice]
MCRemote == [c \in MCCalls |-> proxy]

MCSizes == {0, 1}
=============================================================================
