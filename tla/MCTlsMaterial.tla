--------------------------- MODULE MCTlsMaterial ---------------------------
(* The material as rows and as bytes, checked together. *)
EXTENDS TlsMaterial, Der

\* services/tls.ts, the DER half: whatever is stored was encoded so that a peer
\* that decodes it gets what was meant, at every boundary of the encoding, for
\* dates up to 2049; and the key of a stored CA can be taken out of it again.
CertificatesReadBack == stored # NoRows => EncodingReadsBack

=============================================================================
