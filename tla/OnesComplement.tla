--------------------------- MODULE OnesComplement ---------------------------
(***************************************************************************)
(* The checksum arithmetic of icmp_proc.cpp on 16-bit words, and what the  *)
(* internet checksum requires of it.                                       *)
(***************************************************************************)
EXTENDS Integers

W == 65536      \* 2^16, the values of a UINT16

Word16 == 0..W - 1

\* The bitwise complement of a UINT16 (~).
Not16(x) == 65535 - x

ECHO_REQUEST == 2048    \* 0x0800, the type and code word of an echo request

-----------------------------------------------------------------------------
(* What the code computes.                                                 *)

\* A variant with a bug, against which the properties are tested: the
\* correction without the borrow.
ReplyChecksum_NoBorrow(c) == Not16((Not16(c) - ECHO_REQUEST) % W)

\* icmp_proc_param: the checksum of the reply, from the one of the request.
ReplyChecksum(c) ==
    LET sum == Not16(c)
        borrowed == IF sum < ECHO_REQUEST THEN (sum - 1) % W ELSE sum
    IN  Not16((borrowed - ECHO_REQUEST) % W)

\* icmp_proc_ipv4chksum: the carries of a header sum are added once.
FoldOnce(s) == (s % W) + (s \div W)

HeaderChecksum(s) == Not16(FoldOnce(s) % W)

-----------------------------------------------------------------------------
(* What the internet checksum is: the complement of the ones' complement   *)
(* sum.  The sum of a positive number of words is its value modulo 65535,  *)
(* with 65535 for 0 unless all words are 0.                                *)

OnesSum(s) == IF s = 0 THEN 0 ELSE ((s - 1) % 65535) + 1

InternetChecksum(s) == Not16(OnesSum(s))

\* A message whose words, the checksum included, add up to s is accepted.
Accepted(s) == OnesSum(s) = 65535
=============================================================================
