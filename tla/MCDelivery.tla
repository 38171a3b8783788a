---------------------------- MODULE MCDelivery -----------------------------
(* The two halves of a delivery, the creation of its pull request and its       *)
(* merge.  They share no state but the pull request, so a behaviour of this     *)
(* instance is one of either half, while the other rests.                       *)
EXTENDS PrDelivery, Sequences

CONSTANTS MaxSource, MaxSends, CanSchedule

VARIABLES half, status, mergeGen, own, fixes, published, handoffs, plans, attempts, proved,
          closed, ap, pl, fx, pr, branch, mergedHead, flying, auto, lostAnswers, ends

mergeVars == <<status, mergeGen, own, fixes, published, handoffs, plans, attempts, proved,
               closed, ap, pl, fx, pr, branch, mergedHead, flying, auto, lostAnswers, ends>>

Merge == INSTANCE MergeDelivery WITH gen <- mergeGen, lost <- lostAnswers, crashes <- ends

ASSUME MergeAssumption == Merge!MergeAssumption

HalvesInit == half \in {"create", "merge"} /\ Init /\ Merge!Init

HalvesNext ==
  \/ half = "create" /\ Next /\ UNCHANGED <<half, mergeVars>>
  \/ half = "merge" /\ Merge!Next /\ UNCHANGED <<half, deliveryVars>>

HalvesSpec == HalvesInit /\ [][HalvesNext]_<<half, mergeVars, deliveryVars>>

\* Of all merge requests the daemon ever sent, at most one can still take effect: across
\* approvals, polls, fixes, generations, crashes and operator recovery (merge-journal.ts).
OneRequest == Merge!OneRequest

\* The journal never claims a merge the host has not made of that source (durable-merge.ts).
MergedIsReal == Merge!MergedIsReal

\* While a request can still take effect, no push of the daemon replaces what it would merge
\* (source-publication-ledger.ts, merge-journal.ts).
PushesSpareRequests == [][Merge!SparesRequests]_mergeVars
=============================================================================
