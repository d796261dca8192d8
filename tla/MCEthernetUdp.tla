--------------------------- MODULE MCEthernetUdp ----------------------------
EXTENDS EthernetUdp

\* An empty datagram, one in a single pbuf, one in a chain of two.
MCShapes == {<<0>>, <<2>>, <<2, 1>>}
=============================================================================
