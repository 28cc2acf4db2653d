----------------------------- MODULE MCRpcTopic -----------------------------
EXTENDS RpcTopic, TLC

RpcSymmetry == Permutations(Callers) \cup Permutations(Workers)
=============================================================================
