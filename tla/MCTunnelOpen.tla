----------------------------- MODULE MCTunnelOpen -----------------------------
(***************************************************************************)
(* TunnelOpen for TLC: one setup per thing that can be wrong, and answers  *)
(* of the resolver with every kind of bad address set.                     *)
(***************************************************************************)
EXTENDS TunnelOpen

\* The names a.b (one address text of that length is kept apart), b.a.b, bba.b.
AB  == <<"a", ".", "b">>
BAB == <<"b", ".", "a", ".", "b">>
BBA_B == <<"b", "b", "a", ".", "b">>
Zero == <<"0", ".", "0">>
Texts == {Zero}

Good ==
  [authority |-> [host |-> <<"b", ".", "A", ".", "b">>, port |-> 443, form |-> "plain"],
   localList |-> <<<<"*", ".", "a", ".", "b">>, BBA_B, Zero \o <<".", "a">>>>,
   relayAll |-> FALSE, relayList |-> <<<<"*", ".", "A", ".", "b", ".">>, AB>>,
   token |-> [secret |-> "t", size |-> 3], tokens |-> {"t"}, relayMax |-> 10,
   certificate |-> "none", pin |-> TRUE]

To(host, port, form) == [host |-> host, port |-> port, form |-> form]

MCSetups ==
  {Good,
   [Good EXCEPT !.relayAll = TRUE],
   [Good EXCEPT !.authority = To(BBA_B, 443, "plain")],
   [Good EXCEPT !.authority = To(Append(BBA_B, "."), 443, "plain"), !.relayAll = TRUE],
   [Good EXCEPT !.certificate = "refused"],
   [Good EXCEPT !.token.secret = "u"],
   [Good EXCEPT !.token.size = 9],
   [Good EXCEPT !.relayMax = 9],
   [Good EXCEPT !.pin = FALSE]}
  \cup {[Good EXCEPT !.authority = authority] :
          authority \in {To(AB, 443, "plain"), To(BAB, 80, "plain"), To(BAB, 443, "brackets"),
                         To(Zero, 443, "plain"), To(<<"b", ".", ".">>, 443, "plain"), To(<<"-", "b">> \o <<".">> \o AB, 443, "plain")}}
  \cup {[Good EXCEPT !.localList = <<<<"*", ".", "b">>>>]}

Address(traits, mapped) == [valid |-> TRUE, zone |-> FALSE, mapped |-> mapped, traits |-> traits]
Public == Address({"global"}, FALSE)
Mapped == Address({"loopback"}, TRUE)

Answer(addrs) == [err |-> FALSE, addresses |-> addrs]

MCLookups ==
  {[err |-> TRUE, addresses |-> <<>>], Answer(<<>>), Answer(<<Public, Public>>),
   Answer(<<Public, Mapped>>), Answer(<<Address({"global", "reserved"}, FALSE)>>)}
=============================================================================
