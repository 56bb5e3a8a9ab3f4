---------------------------- MODULE MCDapSession ----------------------------
EXTENDS DapSession, TLC

LaunchSymmetry == Permutations(Launch)
=============================================================================
