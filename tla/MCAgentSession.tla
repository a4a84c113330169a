---------------------------- MODULE MCAgentSession ----------------------------
EXTENDS AgentSession, TLC
CONSTANTS h1, h2
MCOrder == <<h1, h2>>
MCDomain == [h \in {h1, h2} |-> {}]
MCMaxBoot == (h1 :> 2) @@ (h2 :> 1)
=============================================================================
