----------------------------- MODULE PacketOps -----------------------------
(***************************************************************************)
(* How prepare_pkts lays out the frame of a flow (src/engine_dpdk.c,       *)
(* src/header_dpdk.c).  A buffer is                                        *)
(*     len    data_len and pkt_len: where the frame ends,                  *)
(*     parts  what was written where, as ranges from .. to - 1 of bytes,   *)
(*     sum    the range the UDP checksum was computed over.                *)
(* A flow is a record with the fields size, vlan and ip.                   *)
(***************************************************************************)
EXTENDS Naturals

CONSTANT
    TAILROOM    \* bytes of an empty buffer (RTE_MBUF_DEFAULT_BUF_SIZE)

ASSUME TailroomAssumption == TAILROOM \in Nat

Bytes(from, n) == [from |-> from, to |-> from + n]

EmptyBuffer == [len |-> 0, parts |-> {}, sum |-> Bytes(0, 0)]

\* rte_pktmbuf_append: the frame grows at its end, or not at all.
append(m, what, n) ==
    IF m.len + n > TAILROOM THEN m
    ELSE [m EXCEPT !.len = @ + n, !.parts = @ \cup {[what |-> what, at |-> Bytes(m.len, n)]}]

setup_ethernet_header(m, f) ==
    LET eth == append(m, "eth", 14)
    IN  IF f.vlan THEN append(eth, "vlan", 4) ELSE eth

setup_ip_header(m) == append(m, "ip", 20)

setup_udp_header(m) == append(m, "udp", 8)

\* The length both prepare functions set, whatever headers there are.
FrameLen(f) == 14 + 20 + 8 + f.size

\* Mutant: the length is left to append.
prepare_packet_header_LenKept(m, f) ==
    LET eth == setup_ethernet_header(m, f)
    IN  IF f.ip THEN [setup_udp_header(setup_ip_header(eth)) EXCEPT
                         !.sum = Bytes(eth.len + 20, 8 + f.size)]
                ELSE eth

\* The checksum covers the UDP header and size bytes, as the IP header says.
prepare_packet_header(m, f) ==
    LET eth == setup_ethernet_header(m, f)
    IN  IF f.ip THEN [setup_udp_header(setup_ip_header(eth)) EXCEPT
                         !.len = FrameLen(f), !.sum = Bytes(eth.len + 20, 8 + f.size)]
                ELSE [eth EXCEPT !.len = FrameLen(f)]

prepare_packet_payload(m, f) ==
    [append(m, "payload", f.size) EXCEPT !.len = FrameLen(f)]

prepare_pkt(f) == prepare_packet_payload(prepare_packet_header(EmptyBuffer, f), f)
=============================================================================
