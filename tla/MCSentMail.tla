------------------------------ MODULE MCSentMail ------------------------------
EXTENDS SentMail

CONSTANTS m1, m2, w
=============================================================================
