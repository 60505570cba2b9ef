----------------------------- MODULE MCAgentMail -----------------------------
(* Model-checking instance of AgentMail: model values and small inputs.    *)
EXTENDS AgentMail, TLC

CONSTANTS a1, a2, r1, r2, c1, c2, m1, m2, k1, k2, p1

MCAgents == {a1, a2}
MCOneAgent == {a1}
MCOneRole == {r1}
MCRoles == {r1, r2}
MCGrants == {{r1}}
MCClients == {c1}
MCTwoClients == {c1, c2}
MCOneMessage == {m1}
MCMessages == {m1, m2}
MCOneKey == {k1}
MCKeys == {k1, k2}
MCOnePayload == {p1}

(* Mail to the role every agent holds, and also to one nobody holds.       *)
MCRoleMail == [p \in MCOnePayload |-> {r1}]
MCWideMail == [p \in MCOnePayload |-> {r1, r2}]

ClientSymmetry == Permutations(MCTwoClients)
SendSymmetry == Permutations(MCMessages) \cup Permutations(MCKeys)
==============================================================================
