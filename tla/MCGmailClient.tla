---------------------------- MODULE MCGmailClient ----------------------------
EXTENDS GmailClient

CONSTANTS get, list, send, modify, RW
Lists == {<<>>, <<RO>>, <<RO, RO>>, <<RO, RW>>, <<RW>>}
=============================================================================
