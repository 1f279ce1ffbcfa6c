-------------------------- MODULE MCMasternodeSync --------------------------
EXTENDS MasternodeSync
=============================================================================
