---------------------------- MODULE MCImapIntake ----------------------------
(* Finite instances of ImapIntake for TLC. *)
EXTENDS ImapIntake

\* Two ordinary mails, one without a Message-ID, one too large.
CONSTANTS plain, other, anonymous, huge

Circumstances == [may : {{}}, perCycle : {1, 2}]
                   \cup [may : {{"fetch", "write"}, Disturbances}, perCycle : {2}]
=============================================================================
