---------------------------- MODULE MCSqRelation ----------------------------
EXTENDS SqRelation
=============================================================================
