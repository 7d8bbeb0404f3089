---- MODULE MCTftp ----
\* Instances of TftpClient for TLC.
EXTENDS TftpClient

MCOwners == {"update", "check", "fs"}
MCTwoOwners == {"update", "check"}
====
