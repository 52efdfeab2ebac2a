----------------------------- MODULE MCRemoteAuth -----------------------------
(* Three requests share a token that is rejected or about to expire; three *)
(* token responses allow a refresh of a refreshed token.                   *)
EXTENDS RemoteAuth

MCRequests == {"call", "list", "close"}
MCMaxIssues == 3
=============================================================================
