----------------------------- MODULE MCSecureDial -----------------------------
(***************************************************************************)
(* SecureDial for TLC: each answer a kind of its own, honest or not, with  *)
(* aliases that can form chains and cycles of any length up to the limit.  *)
(***************************************************************************)
EXTENDS SecureDial

ECHConfig(kind, public, algorithms) == [kind |-> kind, public |-> public, algorithms |-> algorithms]
Cover  == ECHConfig("supported", "cover", TRUE)
Expose == ECHConfig("supported", hostname, TRUE)
New    == ECHConfig("unknown", "", FALSE)

Lists == {<<>>, <<Cover>>, <<New, Cover>>, <<Cover, Expose>>, <<New>>, <<Cover, ECHConfig("truncated", "", FALSE)>>,
          <<ECHConfig("supported", "cover", FALSE)>>}

Record(rtype, owner, target) == [NoRecord EXCEPT !.rtype = rtype, !.name = owner, !.target = target]
Service(owner, priority, target, list) ==
  [Record("HTTPS", owner, target) EXCEPT !.priority = priority, !.list = list]

MCHTTPSAnswers(n) ==
  {{}, {Record("CNAME", n, "b"), Record("CNAME", n, "c")}, {Record("HTTPS", n, "")},
   {Service(n, 1, "", <<Cover>>), Service(n, 1, "", <<>>)},
   {Service(n, 1, "", <<Cover>>), Service(n, 2, "x", <<>>), Record("CNAME", n, "x")},
   {Service("x", 1, "", <<Cover>>)}, {[Service(n, 1, "", <<Cover>>) EXCEPT !.in = FALSE]},
   {Record("A", n, "")}, {Service(n, 1, "d", <<Cover>>)}}
  \cup {{Record("CNAME", n, target)} : target \in {"h", "b", "c", "d"}}
  \cup {{Record("HTTPS", n, "b")}}
  \cup {{Service(n, 1, "", list)} : list \in Lists}

Address(order, traits, mapped) ==
  [order |-> order, valid |-> TRUE, zone |-> FALSE, mapped |-> mapped, traits |-> traits]
At(rtype, owner, address) ==
  [rtype |-> rtype, name |-> owner, in |-> TRUE, address |-> address, target |-> ""]
Public(order) == Address(order, {"global"}, FALSE)

MCAddressAnswers(n, qtype) ==
  LET one == At(qtype, n, Public(IF qtype = "A" THEN 1 ELSE 3))
      To(a, b) == [Record("CNAME", a, b) EXCEPT !.list = <<>>]
  IN  {{}, {one}, {At(qtype, "x", Public(4))},
       {To(n, "b"), At(qtype, "b", Public(1))}, {To(n, "b")}, {To(n, "c")}}
      \cup IF qtype = "AAAA"
             THEN {{At("AAAA", n, Address(5, {"loopback"}, TRUE))}, {At("A", n, Public(1))}}
             ELSE {{one, At("A", n, Public(2))}, {At("A", n, Address(6, {"private"}, FALSE))}, {To(n, "d")},
                   {To(n, "b"), To("b", "c"), To("c", "d"), At("A", "d", Public(1))},
                   {To(n, "b"), To("b", n)}, {To(n, "b"), To(n, "c"), At("A", "b", Public(1))},
                   {To(n, "b"), At("A", "c", Public(2))}, {To(n, "b"), To("b", "c")}, {To(n, "")},
                   {[one EXCEPT !.in = FALSE]}}
=============================================================================
