---- MODULE MCFpmControl ----
EXTENDS FpmControl
====
