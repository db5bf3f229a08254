------------------------ MODULE MCCertificateFetcher ------------------------
(* Two origins.  Nothing of b refers to a1, and a3 does not refer to a2,   *)
(* so both can be passed by.  The peer p has everything; q has lost what   *)
(* is below round 2.                                                       *)
EXTENDS CertificateFetcher

CONSTANTS a, b, p, q

MCParents == [c \in Certificate |->
    {d \in Certificate :
       /\ d.round = c.round - 1
       /\ d.origin = a => /\ c.round = 2 => c.origin = a
                          /\ c.round = 3 => c.origin = b}]

MCPeerStore == [x \in Peer |->
    {c \in Certificate : x = q => c.round > 1}]
=============================================================================
