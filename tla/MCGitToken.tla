----------------------------- MODULE MCGitToken -----------------------------
EXTENDS GitToken
=============================================================================
