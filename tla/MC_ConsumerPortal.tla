-------------------------- MODULE MC_ConsumerPortal --------------------------
EXTENDS ConsumerPortal

CONSTANTS h1, h2, g1, g2

\* A tenant that is served, the same behind another Gateway with an
\* administrator's credentials and a session shorter than the default refresh,
\* one that switched the portal off, one that is not deployed yet.
On == [ready |-> TRUE, enabled |-> TRUE, issuer |-> TRUE, clientId |-> TRUE, ref |-> TRUE,
       gw |-> g1, refresh |-> 0, expire |-> 0]
Short == [On EXCEPT !.ref = FALSE, !.gw = g2, !.refresh = 5, !.expire = 3]
Off == [On EXCEPT !.enabled = FALSE]
Pending == [On EXCEPT !.ready = FALSE]
SomeTenants == {On, Short, Off, Pending}

\* A listener with a host; no host but an internal and then an external
\* address; a Route in front of a Gateway without either; no HTTPS listener.
Named == [listeners |-> <<[https |-> TRUE, host |-> "wildcard"], [https |-> TRUE, host |-> h1]>>,
          addresses |-> <<>>, routes |-> {}]
Balanced == [listeners |-> <<[https |-> TRUE, host |-> None]>>,
             addresses |-> <<[hostname |-> TRUE, value |-> "internal"],
                             [hostname |-> TRUE, value |-> h2]>>, routes |-> {}]
Routed == [listeners |-> <<[https |-> TRUE, host |-> None]>>, addresses |-> <<>>,
           routes |-> {[name |-> 0, host |-> h1, tls |-> FALSE, subpath |-> FALSE, fronts |-> TRUE],
                       [name |-> 1, host |-> h2, tls |-> TRUE, subpath |-> FALSE, fronts |-> TRUE]}]
Plain == [Named EXCEPT !.listeners[1].https = FALSE, !.listeners[2].https = FALSE]
SomeGateways == {Named, Balanced, Routed, Plain}
==============================================================================
