---------------------------- MODULE MCPaidUpload ----------------------------
(* PaidUpload on a few uploads, transactions and contents, for TLC.        *)
EXTENDS PaidUpload

=============================================================================
