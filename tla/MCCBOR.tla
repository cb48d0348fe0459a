------------------------------- MODULE MCCBOR -------------------------------
(* Values for TLC: numbers and lengths on both sides of every boundary, and *)
(* payment requests as encodeCashuPaymentRequest builds them.              *)
EXTENDS CBOR

Numbers == {0, 1, 23, 24, 25, 31, 32, 255, 256, 257, 65535, 65536, 65537,
            16777215, 16777216, 2147483647}

Lengths == {0, 1, 2, 23, 24, 25, 255, 256, 257, 65535, 65536}

Scalars ==
  { Int32(n) : n \in Numbers } \cup { Simple(s) : s \in DOMAIN SimpleCode }
    \cup { Text(len, 500) : len \in Lengths } \cup { Octets(len, 501) : len \in Lengths }

Repeated(v, n) == List([i \in 1..n |-> v])

Lists ==
  { Repeated(v, n) : v \in {Int32(24), Text(24, 500), Simple("null")},
                     n \in {0, 1, 23, 24, 25, 32} }
    \cup { List(<<v, Repeated(v, 2), v>>) : v \in Scalars }

Maps == { Map([i \in 1..n |-> <<Text(i, 500 + i), v>>]) :
            n \in {0, 1, 2, 23}, v \in {Int32(300), Text(24, 500), List(<<>>)} }

PaymentRequests ==
  { Map(<< <<Text(1, 501), Int32(amount)>>, <<Text(1, 502), Text(3, 503)>>,
           <<Text(1, 504), Repeated(Text(len, 505), mints)>> >>) :
      amount \in Numbers, len \in {20, 23, 24, 255, 256}, mints \in {0, 1, 23, 24} }

AllValues == Scalars \cup Lists \cup Maps \cup PaymentRequests
=============================================================================
