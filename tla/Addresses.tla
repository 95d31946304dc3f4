------------------------------- MODULE Addresses -------------------------------
(***************************************************************************)
(* internal/policy/addresses.go: which addresses may be dialled.           *)
(*                                                                         *)
(* traits are what the methods of netip.Addr report of an address          *)
(* ("reserved": it lies in one of reservedPrefixes); an address mapped     *)
(* into IPv6 reports "global" alone until it is unmapped.                  *)
(***************************************************************************)
EXTENDS Naturals, Sequences

Traits == {"unspecified", "loopback", "private", "link-local", "multicast", "global", "reserved"}

Unmap(address) == [address EXCEPT !.mapped = FALSE]

Has(address, trait) == trait \in IF address.mapped THEN {"global"} ELSE address.traits

ClassifyAddress(address) ==
  LET has(trait) == Has(Unmap(address), trait)
  IN  CASE ~address.valid -> "invalid"
        [] address.valid /\ address.zone -> "non-global-unicast"
        [] OTHER ->
             IF has("unspecified") THEN "unspecified"
             ELSE IF has("loopback") THEN "loopback"
             ELSE IF has("private") THEN "private"
             ELSE IF has("link-local") THEN "link-local"
             ELSE IF has("multicast") THEN "multicast"
             ELSE IF ~has("global") THEN "non-global-unicast"
             ELSE IF has("reserved") THEN "reserved"
             ELSE "public"

\* FirstNonPublic finds the first of them; what follows is the same for each.
NonPublic(addresses) == {i \in DOMAIN addresses : ClassifyAddress(addresses[i]) # "public"}

CheckAddresses(addresses) ==
  IF addresses = <<>> THEN "resolution-failed"
  ELSE IF NonPublic(addresses) # {} THEN "non-public-address"
  ELSE "none"
=============================================================================
