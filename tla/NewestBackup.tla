---------------------------- MODULE NewestBackup ----------------------------
(***************************************************************************)
(* newestRestorableBackup of broker/utils.go as it runs, one backup of the *)
(* list after the other, on any list that Compose may answer with: in any  *)
(* order, and with backups of the same moment.  Module Broker has only     *)
(* what it returns (IsNewestRestorable).                                   *)
(***************************************************************************)
EXTENDS Naturals, Sequences

\* What the loop looks at of a backup.
Listing == [createdAt : Nat, restorable : BOOLEAN]

\* Seeded fault for ChoosesNewest: the first backup is taken unseen.
BetterOrFirst(bs, newest, i) ==
  newest = 0 \/ (bs[i].restorable /\ bs[i].createdAt > bs[newest].createdAt)

\* In the loop: backup i replaces the newest so far, 0 for nil.
Better(bs, newest, i) ==
  bs[i].restorable /\ (newest = 0 \/ bs[i].createdAt > bs[newest].createdAt)

newestRestorableBackup(bs) ==
  LET newest[i \in 0 .. Len(bs)] ==
        IF i = 0 THEN 0
        ELSE IF Better(bs, newest[i - 1], i) THEN i ELSE newest[i - 1]
  IN  newest[Len(bs)]

\* What it is to return: a restorable backup that none is newer than, the
\* first of them, and nil if and only if there is no restorable one.  One that
\* cannot be restored, wherever it stands and however new, changes nothing.
IsFirstNewest(bs, n) ==
  LET candidates == {i \in DOMAIN bs : bs[i].restorable}
  IN  IF candidates = {} THEN n = 0
      ELSE /\ n \in candidates
           /\ \A i \in candidates :
                /\ bs[i].createdAt <= bs[n].createdAt
                /\ i < n => bs[i].createdAt < bs[n].createdAt
=============================================================================
