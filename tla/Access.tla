------------------------------- MODULE Access -------------------------------
(***************************************************************************)
(* Access control lists (socket.c): SocketGenACL makes one from the values *)
(* of allow and deny in the configuration file, SocketCheckACL decides     *)
(* about an address.                                                       *)
(*                                                                         *)
(* An address is its family and the positions of its bits that are one;    *)
(* position 0 is the most significant bit of the first octet.  A value is  *)
(* the word ALL or a set of texts.  A text has an address (None if it is   *)
(* not one) and what is after the slash: "none" if there is no slash,      *)
(* "word" if it is not a number, or "bits".                                *)
(***************************************************************************)
EXTENDS ConfRead, Integers

CONSTANTS
  OctetBits,  \* bits in an octet (8)
  V4Octets,   \* octets in an address (4)
  V6Octets,   \* (16)
  All         \* the value ALL

Width(family) == OctetBits * (IF family = "v4" THEN V4Octets ELSE V6Octets)

\* Addresses, and the texts of a value.
Addresses(family) == [family : {family}, ones : SUBSET (0 .. Width(family) - 1)]

IPs      == Addresses("v4") \union Addresses("v6")
Networks ==
  [check : IPs \union {None}, slash : {"none", "word", "bits"}, bits : Nat]

\* A list and its entries.
ACLEntries == [check : IPs, mask : SUBSET Int]
ACLs == [allow : SUBSET ACLEntries, deny : SUBSET ACLEntries, denyAll : BOOLEAN]

ASSUME AccessAssumption ==
  /\ OctetBits \in Nat \ {0}
  /\ V4Octets \in Nat /\ V6Octets \in Nat /\ V4Octets <= V6Octets
  /\ \A v \in Values \ {None, All} : v \subseteq Networks
  /\ All # None /\ None \notin ACLs

\* The least significant bit of the octet of position i.
LastOfOctet(i) == i - (i % OctetBits) + OctetBits - 1

\* addrMaskInit: bit after bit is set in the order of the octets, but within
\* an octet from the least significant bit on.
Mask(family, num) ==
  {LastOfOctet(i) - (i % OctetBits) :
     i \in 0 .. (IF num > Width(family) THEN Width(family) ELSE num) - 1}

SameNet(ip1, ip2, mask) ==
  ip1.family = ip2.family /\ ip1.ones \cap mask = ip2.ones \cap mask

\* The texts that parseCIDR accepts.
Parses(t) ==
  /\ t.check # None
  /\ t.slash # "word"
  /\ t.slash = "bits" => t.bits <= Width(t.check.family)

\* A mutant of MaskLength: without a slash there is no bit in the mask.
MaskLengthZero(t) == IF t.slash = "none" THEN 0 ELSE t.bits

MaskLength(t) == IF t.slash = "none" THEN Width("v6") ELSE t.bits

\* The entry that parseCIDR makes.
Entry(t) == [check |-> t.check, mask |-> Mask(t.check.family, MaskLength(t))]

TextsOf(value) == IF value \in {None, All} THEN {} ELSE value

\* ALL is not an address.
ListParses(value) == value # All /\ \A t \in TextsOf(value) : Parses(t)

Entries(value) == {Entry(t) : t \in TextsOf(value)}

\* SocketGenACL: whether there is no error, and the list; no list if neither
\* value is set.
GenOK(allow, deny) == ListParses(allow) /\ (deny = All \/ ListParses(deny))

GenACL(allow, deny) ==
  IF allow = None /\ deny = None
  THEN None
  ELSE [allow |-> Entries(allow), deny |-> Entries(deny), denyAll |-> deny = All]

Matches(entries, address) == \E e \in entries : SameNet(address, e.check, e.mask)

\* SocketCheckACL: what is allowed is accepted also if it is denied.
CheckACL(al, address) ==
  \/ al = None
  \/ ~Matches(al.deny, address) /\ ~al.denyAll
  \/ Matches(al.allow, address)

============================================================================
