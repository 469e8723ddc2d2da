---------------------------- MODULE MCDnsLookup ----------------------------
(* Instances of DnsLookup for TLC. *)
EXTENDS DnsLookup

CONSTANTS a, b

\* The same server listed twice: the answers to both queries look alike but for
\* the id.
Twice == [servers |-> <<b, b>>, search |-> 1]

Two == [servers |-> <<a, b>>, search |-> 1]
One == [servers |-> <<b>>, search |-> 0]
Nothing == [servers |-> <<>>, search |-> 0]

FilesAll == {Two, One, Twice, Nothing}
=============================================================================
