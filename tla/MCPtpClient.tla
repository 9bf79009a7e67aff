---------------------------- MODULE MCPtpClient ----------------------------
(* PtpClient for TLC. *)
EXTENDS PtpClient

\* One exchange more than what can go wrong.
MCLimit == [exchanges |-> 3, losses |-> 1, refusals |-> 1, others |-> 1, slack |-> 1]

\* Far enough off not to count as synchronized, to either side.
MCOffsets == {-4, 5}

\* A master of the client's domain and one of another: one exchange each is enough.
TwoMastersLimit == [exchanges |-> 1, losses |-> 0, refusals |-> 0, others |-> 0, slack |-> 1]
=============================================================================
