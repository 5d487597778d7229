------------------------------ MODULE MCAgents ------------------------------
(* An instance of Agents for TLC: one program, which may draft but not publish. *)
EXTENDS Agents

MCScopesOf == [h \in Holders |-> {"read", "drafts", "delete"}]
=============================================================================
