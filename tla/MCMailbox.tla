----------------------------- MODULE MCMailbox -----------------------------
(* An instance of the mailbox library for TLC.                              *)
EXTENDS Mailbox

MCLocks == {<<"lock", b>> : b \in 1..MaxBox}
MCConds == {<<"empty", b>> : b \in 1..MaxBox} \cup {<<"full", b>> : b \in 1..MaxBox}
\* Two mails with the same text would be the same mail; 7 follows a 0.
MCMails == {<<1, 0, 7>>, <<2, 0, 0>>}
===========================================================================
