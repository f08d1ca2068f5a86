----------------------------- MODULE MCPeerAuth -----------------------------
(* Two nodes, set up in the ways that take the handshake down its branches. *)
EXTENDS PeerAuth

CONSTANTS a, b

OneAsks == {<<a, b>>}
Both(x, y) == [n \in Node |-> IF n = a THEN x ELSE y]
MCPlan(links, suites, cred, certs, kept, saved, unset) ==
  [links |-> links, suites |-> suites, cred |-> cred, certs |-> certs,
   kept |-> kept, saved |-> saved, unset |-> unset]

Neither == Both({}, {})
Same(x) == Both(x, x)

\* One node asks.  A password both know, and NULL, with nothing kept from before
\* or with secrets that differ; one they do not share, with and without NULL; a
\* password with nothing kept; certificates, with nothing kept or a common secret.
MCPlansAlone ==
  {MCPlan(OneAsks, Same({NULLSuite, PSK}), Same(a), Same(0), kept, {NULLSuite, PSK}, FALSE) :
     kept \in {Neither, Both({1, 2}, {3, 4})}}
  \union
  {MCPlan(OneAsks, Both({ECDSA}, {ECDSA, PSK}), Same(a), Both(2, 1), kept, {ECDSA}, unset) :
     kept \in {Neither, Same({1, 2})}, unset \in BOOLEAN}
  \union
  {MCPlan(OneAsks, Same(suites), Both(a, b), Same(0), Neither, {NULLSuite, PSK}, FALSE) :
     suites \in {{PSK}, {NULLSuite, PSK}}}
  \union
  {MCPlan(OneAsks, Both({PSK}, {PSK, NULLSuite}), Same(a), Same(0), Neither, {}, FALSE)}

\* The same, and both nodes asking, with and without NULL.
MCPlans ==
  MCPlansAlone \union
  {MCPlan(Node \X Node, Same(suites), Same(a), Same(0), Neither, {PSK}, FALSE) :
     suites \in {{PSK}, {NULLSuite, PSK}}}
=============================================================================
