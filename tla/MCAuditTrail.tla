---------------------------- MODULE MCAuditTrail ----------------------------
EXTENDS AuditTrail

MCOrigin == [e \in Events |-> IF e = "g1" THEN "gateway" ELSE "idp"]
=============================================================================
