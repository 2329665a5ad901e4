----------------------------- MODULE MCHubEvents -----------------------------
(***************************************************************************)
(* Small instances of HubEvents.                                           *)
(***************************************************************************)
EXTENDS HubInvariant

CONSTANTS h1, h2, r1, r2, s1, s2, session, credential

\* Every submission carries a session event, except s2.
MCTypeOf == [s \in Submissions |->
               IF s = s2 THEN credential ELSE session]

Conf(types, pass, auth) == [types |-> types, pass |-> pass, auth |-> auth]

\* What receivers register: session events; the same, but with a filter that
\* no event passes; everything, with a scheme the distributor cannot use;
\* everything, by "*" alone.
SessionConf == Conf({session}, Submissions, "sent")
FilterConf  == Conf({session}, {}, "sent")
HmacConf    == Conf({session, Wildcard}, Submissions, "unsupported")
WildConf    == Conf({Wildcard}, Submissions, "sent")

OneConfig    == {SessionConf}
ChangeConfigs == {SessionConf, FilterConf}
AuthConfigs  == {SessionConf, FilterConf, HmacConf}
WildConfigs  == {SessionConf, WildConf}
=============================================================================
