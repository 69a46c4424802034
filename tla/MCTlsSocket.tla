----------------------------- MODULE MCTlsSocket -----------------------------
(* TlsSocket with certificates to tell apart.                               *)
EXTENDS TlsSocket

ASSUME CertAssumption == CERTS > 1
=============================================================================
