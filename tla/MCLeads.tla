------------------------------ MODULE MCLeads -------------------------------
EXTENDS Leads
=============================================================================
