---------------------------- MODULE MCWebSession ----------------------------
(* WebSession with symmetry of the tabs, the emails and the passwords.        *)
EXTENDS WebSession, TLC

Symmetry == Permutations(Tabs) \cup Permutations(Emails) \cup Permutations(Passwords)
=============================================================================
