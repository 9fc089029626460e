--------------------------- MODULE MCOutboundQueue ---------------------------
(* A small instance of the outbound queue: one message, two domains and an  *)
(* address without a domain.                                                *)
EXTENDS OutboundQueue, TLC

\* ann and bob live in one domain, cat in another, bad has no domain.
MCRcpt == {"ann", "bob", "cat", "bad"}
MCDomainOf == [r \in MCRcpt |->
    IF r \in {"ann", "bob"} THEN "d1" ELSE IF r = "cat" THEN "d2" ELSE ""]
MCNoDomain == ""

MCAllTo == 1 :> {"ann", "bob", "cat", "bad"}
MCPairTo == 1 :> {"ann", "cat"}
MCBackoff == <<1, 2>>
=============================================================================
