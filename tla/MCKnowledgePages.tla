-------------------------- MODULE MCKnowledgePages --------------------------
EXTENDS KnowledgePages
=============================================================================
