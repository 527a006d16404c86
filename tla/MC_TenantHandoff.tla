-------------------------- MODULE MC_TenantHandoff --------------------------
EXTENDS TenantHandoff
=============================================================================
