------------------------------ MODULE MCSqApp ------------------------------
EXTENDS SqApp

MCFirstDeleted  == {{}, {1}, {1, 2}}
=============================================================================
